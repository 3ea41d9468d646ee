----------------------------- MODULE ConfigEdit -----------------------------
(***************************************************************************)
(* config_write_surgical on its own: every file of a few lines, with every *)
(* set of changes a memory can owe it, and the same save again -- a daemon *)
(* that dies between the rename and the return owes nothing any more, but *)
(* the one that sends it the same change after its restart does.           *)
(***************************************************************************)
EXTENDS ConfigText

CONSTANT
    Cases       \* records: files, and the items, sections and new values owed

ASSUME CasesAssumption ==
    \A c \in Cases : /\ c.texts \subseteq Seq(Line) /\ c.items \subseteq Item
                      /\ c.sections \subseteq Section /\ c.values \subseteq Value

\* No save is owed "": on a line with a comment it is read as the comment.
PlainCases == \A c \in Cases : Empty \notin c.values

VARIABLES
    conf,           \* the lines of the file
    owed            \* the memory of the daemon, as far as a save reads it

\* What a memory can owe: values for keys of named sections, removals, and
\* sections that go with everything in them.
Owings(items, sections, values) ==
    UNION {LET puts == {i \in touched : i[1] \notin dropped \cup {Global}} IN
           {[view    |-> [i \in Item |-> IF i \in DOMAIN put THEN put[i] ELSE Missing],
             touched |-> touched,
             dropped |-> dropped] : put \in UNION {[p -> values] : p \in SUBSET puts}} :
           touched \in SUBSET items, dropped \in SUBSET (sections \ {Global})}

EditInit ==
    \E c \in Cases :
        /\ conf \in c.texts
        /\ owed \in Owings(c.items, c.sections, c.values)

ConfigSave ==
    /\ conf' = Surgical(conf, owed)
    /\ UNCHANGED owed

EditSpec == EditInit /\ [][ConfigSave]_<<conf, owed>>

-----------------------------------------------------------------------------
\* Whatever the file looks like, a load after the save answers as the overlay
\* says: duplicated keys, sections opened twice, lines too long to parse.  A
\* value with " #" in it comes back cut, as find_inline_comment documents.
EditReadsBack ==
    Load(Surgical(conf, owed)) =
        Overlay(Load(conf),
                [owed EXCEPT !.view = [i \in Item |-> AsRead(owed.view[i])]])

\* A save done twice is a save done once, to the byte -- unless a value has
\* " #" in it: its tail is taken for a comment, which the second save keeps
\* behind the same value.
RetryChangesNothing ==
    (\A i \in Item : owed.view[i] \notin DOMAIN Cut) =>
        Surgical(Surgical(conf, owed), owed) = Surgical(conf, owed)

\* No line a save writes is one the parser rejects: notes never join a file.
Notes(lines) == {n \in DOMAIN lines : lines[n] = Note}

NothingUnparsed == Cardinality(Notes(Surgical(conf, owed))) <= Cardinality(Notes(conf))

\* A section that comes and goes leaves no gap: the file is as it was, or
\* without the blank line at its end, where its header came.
ComesAndGoes ==
    \A s \in Section \ {Global}, x \in UNION {c.values : c \in Cases} :
        LinesOf(Scan(conf), s) = {} =>
            LET came == Surgical(conf,
                          [view    |-> [i \in Item |-> IF i[1] = s THEN x ELSE Missing],
                           touched |-> {i \in Item : i[1] = s},
                           dropped |-> {}])
                gone == Surgical(came,
                          [view |-> EmptyContents, touched |-> {}, dropped |-> {s}])
            IN gone = conf \/ (conf # <<>> /\ Last(conf) = Blank /\ gone = Front(conf))

\* All of it together: what config_write_surgical does to a file.
EditHolds == EditReadsBack /\ RetryChangesNothing /\ NothingUnparsed /\ ComesAndGoes
=============================================================================
