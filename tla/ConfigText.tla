----------------------------- MODULE ConfigText -----------------------------
(***************************************************************************)
(* The config file as lines, what rss_config_load reads from them, and how *)
(* a save edits them: config_write_surgical on a file that is there,       *)
(* config_write for one that is not.  A line is blank, a note (a comment, *)
(* or anything else the parser does not bind: inert, but visible), a       *)
(* header, or a key line with the widths of its parts.                     *)
(***************************************************************************)
EXTENDS ConfigMemory, Naturals, FiniteSets, SequencesExt

CONSTANTS
    MaxLine,        \* a line this long is not parsed
    KeyWidth,       \* the stored spelling of a key is no longer than this
    Width,          \* Value -> its length
    Cut,            \* values with " #" inside -> what a load leaves of them
    Empty,          \* the value ""
    NoteValue       \* "# note": what an inline comment is as a value

\* Names are kept in fields of a fixed size.
ASSUME NamesAssumption == IsFiniteSet(Section) /\ IsFiniteSet(Key)

\* A line with a stored key and a value fits, as the field sizes ensure.
ASSUME WidthAssumption ==
    /\ MaxLine \in Nat /\ KeyWidth \in Nat
    /\ \A v \in Value : Width[v] \in Nat /\ KeyWidth + 3 + Width[v] < MaxLine

\* What a cut leaves has no " #" any more.
ASSUME CutAssumption ==
    /\ DOMAIN Cut \subseteq Value
    /\ \A v \in DOMAIN Cut : Cut[v] \in Value \ DOMAIN Cut /\ Width[Cut[v]] <= Width[v]

Blank == [kind |-> "blank"]
Note == [kind |-> "note"]
Header(s) == [kind |-> "head", sec |-> s]

\* kw: up to the end of the key's spelling; cw: the inline comment, or 0.
KeyLine(k, v, kw, cw) == [kind |-> "key", key |-> k, val |-> v, kw |-> kw, cw |-> cw]

\* The lines there are: a value that was parsed has no " #" in it.
Line == [kind : {"blank", "note"}]
        \cup [kind : {"head"}, sec : Section]
        \cup [kind : {"key"}, key : Key, val : Value \ DOMAIN Cut, kw : Nat, cw : Nat]

\* What a load makes of a value that was written.
AsRead(x) == IF x \in DOMAIN Cut THEN Cut[x] ELSE x

\* What the parser makes of the line "key = value comment" once written.
Written(k, v, kw, cw) ==
    IF kw + 3 + Width[v] + cw >= MaxLine THEN Note
    ELSE IF v \in DOMAIN Cut
         THEN KeyLine(k, Cut[v], kw, cw + Width[v] - Width[Cut[v]])
    ELSE IF v = Empty /\ cw > 0
         THEN KeyLine(k, NoteValue, kw, 0)
    ELSE KeyLine(k, v, kw, cw)

-----------------------------------------------------------------------------
(* Reading.                                                                *)

\* A text, and the section in force at each of its lines.
Scan(text) ==
    LET heads == {h \in DOMAIN text : text[h].kind = "head"} IN
    [line |-> text,
     sec  |-> [n \in DOMAIN text |->
                 LET above == {h \in heads : h <= n} IN
                 IF above = {} THEN Global ELSE text[Max(above)].sec]]

LinesOf(t, s) == {n \in DOMAIN t.line : t.sec[n] = s}

KeyLines(t, i) ==
    {n \in LinesOf(t, i[1]) : t.line[n].kind = "key" /\ t.line[n].key = i[2]}

\* A later line of a key overwrites an earlier one.
Load(text) ==
    LET t == Scan(text) IN
    [i \in Item |-> LET lines == KeyLines(t, i) IN
                    IF lines = {} THEN Missing ELSE text[Max(lines)].val]

\* A section is made, at the end of the list, when a key is put in it.
Listing(order, s) == IF s \in Range(order) THEN order ELSE Append(order, s)

\* The sections a load makes.
LoadOrder(text) ==
    LET t == Scan(text)
        out[n \in 0..Len(text)] ==
            IF n = 0 THEN <<>>
            ELSE IF text[n].kind = "key" THEN Listing(out[n - 1], t.sec[n])
            ELSE out[n - 1]
    IN out[Len(text)]

-----------------------------------------------------------------------------
(* Editing.  owed has the memory's values, its dirty items and the removed *)
(* sections; an item of it without a value is one to take out.             *)

ToPut(owed) == {i \in owed.touched : owed.view[i] # Missing}
ToTake(owed) == owed.touched \ ToPut(owed)

\* (mutant: only the line a load ends up with is taken)
TakenLinesLast(t, owed) ==
    {Max(KeyLines(t, i)) : i \in {j \in ToTake(owed) : KeyLines(t, j) # {}}}

\* A removal reaches every line of the key.
TakenLines(t, owed) == UNION {KeyLines(t, i) : i \in ToTake(owed)}

\* (mutant: a removed section loses its header only)
RemovedSpanHeader(t, owed) ==
    {n \in DOMAIN t.line : t.line[n].kind = "head" /\ t.sec[n] \in owed.dropped}

\* (mutant: the span of a removed section runs on to the end of the file)
RemovedSpanRunsOn(t, owed) ==
    {n \in DOMAIN t.line : /\ t.line[n].kind # "blank"
                           /\ \E h \in 1..n : t.sec[h] \in owed.dropped}

\* Every line under a removed section's header goes, the blank ones excepted.
RemovedSpan(t, owed) ==
    {n \in DOMAIN t.line : t.line[n].kind # "blank" /\ t.sec[n] \in owed.dropped}

\* (mutant: the blank line above a header that goes stays)
DroppedKeepsGap(t, owed) == TakenLines(t, owed) \cup RemovedSpan(t, owed)

\* ... and a header takes the blank line above it along.
Dropped(t, owed) ==
    LET gone == TakenLines(t, owed) \cup RemovedSpan(t, owed) IN
    gone \cup {n \in DOMAIN t.line : /\ t.line[n].kind = "blank"
                                     /\ n + 1 \in gone
                                     /\ t.line[n + 1].kind = "head"}

\* (mutant: the comment is kept whatever the width)
RebuiltKeepsComment(line, v) ==
    Written(line.key, v,
            IF line.kw + 3 + Width[v] >= MaxLine THEN KeyWidth ELSE line.kw, line.cw)

\* A replaced line loses its comment, then its key's spelling, rather than
\* become one the parser rejects.
Rebuilt(line, v) ==
    Written(line.key, v,
            IF line.kw + 3 + Width[v] >= MaxLine THEN KeyWidth ELSE line.kw,
            IF line.kw + 3 + Width[v] + line.cw >= MaxLine THEN 0 ELSE line.cw)

\* The line of a key that is replaced: the one a load ends up with.
OwnLine(t, i) == Max(KeyLines(t, i))

NewLines(items, owed) ==
    LET order == SetToSeq(items) IN
    [n \in DOMAIN order |-> Written(order[n][2], owed.view[order[n]], KeyWidth, 0)]

\* New keys go after the last visible line of their section; 0 is the top of
\* the file.
Anchor(t, s) ==
    LET lines == {n \in LinesOf(t, s) : t.line[n].kind # "blank"} IN
    IF lines = {} THEN 0 ELSE Max(lines)

\* A blank line separates a new section from what is above it.
Separated(out) ==
    IF out = <<>> \/ (Len(out) > 1 /\ Last(out) = Blank) THEN out
    ELSE Append(out, Blank)

\* Keys to put that the file has no line of, and the ones line n is replaced
\* for: at most one, as a line binds one key.
Fresh(t, owed) == {i \in ToPut(owed) : KeyLines(t, i) = {}}

Owner(t, owed, n) == {i \in ToPut(owed) \ Fresh(t, owed) : OwnLine(t, i) = n}

\* What becomes of line n.
Edited(t, owed, n) ==
    IF n \in Dropped(t, owed) THEN <<>>
    ELSE IF Owner(t, owed, n) = {} THEN <<t.line[n]>>
    ELSE <<Rebuilt(t.line[n], owed.view[CHOOSE i \in Owner(t, owed, n) : TRUE])>>

\* The named sections the file lacks, and the new keys that go after line n.
Lacking(t) == {s \in Section \ {Global} : LinesOf(t, s) = {}}

Appended(t, owed, n) ==
    NewLines({i \in Fresh(t, owed) : i[1] \notin Lacking(t) /\ Anchor(t, i[1]) = n}, owed)

SectionsOf(items) == {i[1] : i \in items}

\* A text with a section behind it: its items, under a header if it has a name.
AddedSection(out, s, items, owed) ==
    LET own == {i \in items : i[1] = s} IN
    IF own = {} THEN out
    ELSE IF s = Global THEN out \o NewLines(own, owed)
    ELSE Separated(out) \o <<Header(s)>> \o NewLines(own, owed)

\* A text and, behind it, sections in this order with the items given.
WithSections(body, order, items, owed) ==
    LET out[n \in 0..Len(order)] ==
            IF n = 0 THEN body ELSE AddedSection(out[n - 1], order[n], items, owed)
    IN out[Len(order)]

\* config_write_surgical
Surgical(text, owed) ==
    LET t == Scan(text)
        body[n \in 0..Len(text)] ==
            IF n = 0 THEN Appended(t, owed, 0)
            ELSE body[n - 1] \o Edited(t, owed, n) \o Appended(t, owed, n)
        new == {i \in Fresh(t, owed) : i[1] \in Lacking(t)}
    IN WithSections(body[Len(text)], SetToSeq(SectionsOf(new)), new, owed)

\* config_write: every configured key of a memory whose list of sections is
\* this, in the order they were made.  A section without a name has no header:
\* behind another one, its keys would be read back as keys of that one.
Whole(m, order) == WithSections(<<>>, order, {i \in Item : m.view[i] # Missing}, m)
=============================================================================
