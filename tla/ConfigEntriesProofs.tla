------------------------ MODULE ConfigEntriesProofs ------------------------
(* What the functions of rss_config.c keep of the flags of a configuration, *)
(* and what they do to the map the flags stand for: the operators of        *)
(* ConfigEntries implement those of ConfigMemory.                           *)
EXTENDS ConfigEntries, TLAPS

-----------------------------------------------------------------------------
(* The flags.                                                              *)

\* A configuration whose values are of V.
EntryOf(V) == [here : BOOLEAN, value : V, dirty : BOOLEAN, defaulted : BOOLEAN, removed : BOOLEAN]

ConfigOf(V) == [secs : [Section -> SectionFlags], ents : [Item -> EntryOf(V)]]

\* An entry that is there has a value and a section, one that is not has
\* no flags; an entry that is for display only is dirty only if its removal is
\* owed; a removed section has no entry that answers.
EntryAgrees(c, i) ==
    LET e == c.ents[i] IN
    /\ e.here => e.value # Missing /\ c.secs[i[1]].here
    /\ ~e.here => ~e.dirty /\ ~e.removed /\ ~e.defaulted
    /\ e.dirty /\ e.defaulted => e.removed
    /\ c.secs[i[1]].removed => ~Configured(e)

\* A removal is owed only by a section that is removed, never by the one
\* above the first header.
SectionAgrees(c, s) ==
    /\ c.secs[s].dirty => c.secs[s].removed
    /\ c.secs[s].removed => c.secs[s].here /\ s # Global

Agrees(c) ==
    /\ \A i \in Item : EntryAgrees(c, i)
    /\ \A s \in Section : SectionAgrees(c, s)

LEMMA ConfigIsOf == Config = ConfigOf(Value \cup {Missing})
BY DEF Config, Entry, ConfigOf, EntryOf

\* A larger set of values.
LEMMA MoreValues ==
    ASSUME NEW V, NEW W, V \subseteq W, NEW c \in ConfigOf(V)
    PROVE  c \in ConfigOf(W)
BY DEF ConfigOf, EntryOf

LEMMA NoConfigAgrees ==
    ASSUME NEW V, Missing \in V
    PROVE  NoConfig \in ConfigOf(V) /\ Agrees(NoConfig)
BY DEF NoConfig, NoEntry, ConfigOf, EntryOf, SectionFlags, Agrees, EntryAgrees, SectionAgrees,
       Configured, Item

\* rss_config_load
LEMMA ParsedAgrees ==
    ASSUME NEW V, NEW text, \A i \in Item : text[i] \in V
    PROVE  Parsed(text) \in ConfigOf(V) /\ Agrees(Parsed(text))
<1>1. Parsed(text) \in ConfigOf(V)
  BY DEF Parsed, NoEntry, ConfigOf, EntryOf, SectionFlags
<1>2. ASSUME NEW i \in Item PROVE EntryAgrees(Parsed(text), i)
  <2>. DEFINE e == Parsed(text).ents[i]
              f == Parsed(text).secs[i[1]]
              any == \E k \in Key : text[<<i[1], k>>] # Missing
              set == text[i] # Missing
  <2>1. i[1] \in Section
    BY DEF Item
  <2>2. e = [here |-> set, value |-> text[i], dirty |-> FALSE, defaulted |-> FALSE, removed |-> FALSE]
    BY DEF Parsed, NoEntry
  <2>3. f = [here |-> any, removed |-> FALSE, dirty |-> FALSE]
    BY <2>1 DEF Parsed
  <2>4. set => any
    <3>1. PICK s \in Section, k \in Key : i = <<s, k>>
      BY DEF Item
    <3>2. <<i[1], k>> = i
      BY <3>1
    <3>3. text[<<i[1], k>>] = text[i]
      BY <3>2, Zenon
    <3>. QED
      BY <3>3, Zenon
  <2>5. set => e.value # Missing
    BY <2>2
  <2>. HIDE DEF e, f, any, set
  <2>6. /\ e.here = set /\ e.dirty = FALSE /\ e.defaulted = FALSE /\ e.removed = FALSE
        /\ f.here = any /\ f.removed = FALSE
    BY <2>2, <2>3
  <2>. QED
    BY <2>4, <2>5, <2>6, Zenon DEF EntryAgrees, Configured, e, f
<1>3. ASSUME NEW s \in Section PROVE SectionAgrees(Parsed(text), s)
  BY DEF SectionAgrees, Parsed
<1>. QED
  BY <1>1, <1>2, <1>3 DEF Agrees

\* A function that finds or makes the section of a key and writes its entry.
Rewritten(c, i, f, e) ==
    [secs |-> [c.secs EXCEPT ![i[1]] = f], ents |-> [c.ents EXCEPT ![i] = e]]

LEMMA RewrittenFields ==
    ASSUME NEW V, NEW c \in ConfigOf(V), NEW i \in Item,
           NEW f \in SectionFlags, NEW e \in EntryOf(V)
    PROVE  LET r == Rewritten(c, i, f, e) IN
           /\ r \in ConfigOf(V)
           /\ r.ents[i] = e /\ \A j \in Item : j # i => r.ents[j] = c.ents[j]
           /\ r.secs[i[1]] = f /\ \A s \in Section : s # i[1] => r.secs[s] = c.secs[s]
<1>1. i[1] \in Section
  BY DEF Item
<1>2. c.secs \in [Section -> SectionFlags] /\ c.ents \in [Item -> EntryOf(V)]
  BY DEF ConfigOf
<1>. QED
  BY <1>1, <1>2 DEF Rewritten, ConfigOf

LEMMA RewrittenAgrees ==
    ASSUME NEW V, NEW c \in ConfigOf(V), Agrees(c), NEW i \in Item,
           NEW f \in SectionFlags, NEW e \in EntryOf(V),
           f.here /\ (f.removed => c.secs[i[1]].removed) /\ (f.dirty => f.removed),
           e.here /\ e.value # Missing /\ (e.dirty /\ e.defaulted => e.removed),
           f.removed => ~Configured(e)
    PROVE  Agrees(Rewritten(c, i, f, e))
<1>. DEFINE r == Rewritten(c, i, f, e)
<1>0. i[1] \in Section
  BY DEF Item
<1>1. /\ r.ents[i] = e /\ \A j \in Item : j # i => r.ents[j] = c.ents[j]
      /\ r.secs[i[1]] = f /\ \A s \in Section : s # i[1] => r.secs[s] = c.secs[s]
  BY RewrittenFields
<1>. HIDE DEF r
<1>2. ASSUME NEW j \in Item PROVE EntryAgrees(r, j)
  <2>1. EntryAgrees(c, j) /\ j[1] \in Section
    BY DEF Agrees, Item
  <2>2. CASE j = i
    BY <1>1, <2>2 DEF EntryAgrees
  <2>3. CASE j # i /\ j[1] = i[1]
    BY <1>1, <2>1, <2>3 DEF EntryAgrees
  <2>4. CASE j # i /\ j[1] # i[1]
    BY <1>1, <2>1, <2>4 DEF EntryAgrees
  <2>. QED
    BY <2>2, <2>3, <2>4
<1>3. ASSUME NEW s \in Section PROVE SectionAgrees(r, s)
  <2>1. SectionAgrees(c, s)
    BY DEF Agrees
  <2>2. CASE s = i[1]
    BY <1>1, <2>1, <2>2 DEF SectionAgrees
  <2>3. CASE s # i[1]
    BY <1>1, <2>1, <2>3 DEF SectionAgrees
  <2>. QED
    BY <2>2, <2>3
<1>. QED
  BY <1>2, <1>3 DEF Agrees, r

-----------------------------------------------------------------------------
(* The functions.                                                          *)

\* A getter that misses rewrites an entry that does not answer, for display.
LEMMA GetRewrites ==
    ASSUME NEW V, NEW c \in ConfigOf(V), Agrees(c), NEW i \in Item, NEW default \in V,
           Lookup(c, i) = Missing, default # Missing
    PROVE  \E f \in SectionFlags, e \in EntryOf(V) :
             /\ Get(c, i, default) = Rewritten(c, i, f, e)
             /\ f = [c.secs[i[1]] EXCEPT !.here = TRUE]
             /\ ~Configured(c.ents[i])
             /\ e = [here |-> TRUE, value |-> default, dirty |-> c.ents[i].dirty,
                     defaulted |-> TRUE, removed |-> c.ents[i].removed]
<1>. DEFINE f == [c.secs[i[1]] EXCEPT !.here = TRUE]
            e == [here |-> TRUE, value |-> default, dirty |-> c.ents[i].dirty,
                  defaulted |-> TRUE, removed |-> c.ents[i].removed]
            d == [secs |-> [c.secs EXCEPT ![i[1]] = f], ents |-> c.ents]
<1>1. /\ c = [secs |-> c.secs, ents |-> c.ents] /\ i[1] \in Section
      /\ c.secs[i[1]] \in SectionFlags /\ c.ents[i] \in EntryOf(V)
  BY DEF ConfigOf, Item
<1>2. f \in SectionFlags /\ e \in EntryOf(V)
  BY <1>1 DEF SectionFlags, EntryOf
<1>3. EntryAgrees(c, i) /\ ~Configured(c.ents[i])
  BY DEF Agrees, EntryAgrees, Lookup, Configured
<1>4. FindOrCreate(c, i[1]) = d
  BY <1>1 DEF FindOrCreate
<1>5. Get(c, i, default) = AddEntry(d, i, default, FALSE, TRUE)
  BY <1>4 DEF Get
<1>6. (IF c.ents[i].here THEN Overwritten(c.ents[i], default, FALSE, TRUE)
       ELSE [here |-> TRUE, value |-> default, dirty |-> FALSE,
             defaulted |-> TRUE, removed |-> FALSE]) = e
  <2>1. CASE c.ents[i].here
    <3>1. c.ents[i].defaulted \/ c.ents[i].removed
      BY <1>3, <2>1 DEF Configured
    <3>. QED
      BY <1>1, <2>1, <3>1 DEF Overwritten, EntryOf
  <2>2. CASE ~c.ents[i].here
    BY <1>1, <1>3, <2>2 DEF EntryAgrees, EntryOf
  <2>. QED
    BY <2>1, <2>2
<1>. HIDE DEF f, e
<1>7. AddEntry(d, i, default, FALSE, TRUE) = Rewritten(c, i, f, e)
  <2>1. d.ents = c.ents /\ d.secs = [c.secs EXCEPT ![i[1]] = f]
    OBVIOUS
  <2>2. AddEntry(d, i, default, FALSE, TRUE) = [d EXCEPT !.ents = [c.ents EXCEPT ![i] = e]]
    BY <1>6, <2>1, Zenon DEF AddEntry
  <2>. QED
    BY <2>2 DEF Rewritten
<1>. QED
  BY <1>2, <1>3, <1>5, <1>7 DEF f, e

LEMMA GetAgrees ==
    ASSUME NEW V, NEW c \in ConfigOf(V), Agrees(c), NEW i \in Item, NEW default \in V
    PROVE  Get(c, i, default) \in ConfigOf(V) /\ Agrees(Get(c, i, default))
<1>1. CASE Lookup(c, i) # Missing \/ default = Missing
  BY <1>1 DEF Get
<1>2. CASE Lookup(c, i) = Missing /\ default # Missing
  <2>1. PICK f \in SectionFlags, e \in EntryOf(V) :
          /\ Get(c, i, default) = Rewritten(c, i, f, e)
          /\ f = [c.secs[i[1]] EXCEPT !.here = TRUE]
          /\ ~Configured(c.ents[i])
          /\ e = [here |-> TRUE, value |-> default, dirty |-> c.ents[i].dirty,
                  defaulted |-> TRUE, removed |-> c.ents[i].removed]
    BY <1>2, GetRewrites
  <2>2. /\ EntryAgrees(c, i) /\ SectionAgrees(c, i[1]) /\ i[1] \in Section
        /\ c.secs[i[1]] \in SectionFlags /\ c.ents[i] \in EntryOf(V)
    BY DEF Agrees, Item, ConfigOf
  <2>3. f.here /\ (f.removed => c.secs[i[1]].removed) /\ (f.dirty => f.removed)
    BY <2>1, <2>2 DEF SectionAgrees, SectionFlags
  <2>4. /\ e.here /\ e.value # Missing /\ (e.dirty /\ e.defaulted => e.removed)
        /\ f.removed => ~Configured(e)
    BY <1>2, <2>1, <2>2 DEF EntryAgrees, Configured, EntryOf
  <2>5. Agrees(Rewritten(c, i, f, e))
    BY <2>3, <2>4, RewrittenAgrees
  <2>. QED
    BY <2>1, <2>5, RewrittenFields
<1>. QED
  BY <1>1, <1>2

\* rss_config_set_str rewrites the entry as configured and dirty.
LEMMA SetRewrites ==
    ASSUME NEW V, NEW c \in ConfigOf(V), NEW i \in Item, NEW v \in V
    PROVE  \E f \in SectionFlags, e \in EntryOf(V) :
             /\ SetStr(c, i, v) = Rewritten(c, i, f, e)
             /\ f = [here |-> TRUE, removed |-> FALSE, dirty |-> FALSE]
             /\ e = [here |-> TRUE, value |-> v, dirty |-> TRUE,
                     defaulted |-> FALSE, removed |-> FALSE]
<1>. DEFINE f == [here |-> TRUE, removed |-> FALSE, dirty |-> FALSE]
            e == [here |-> TRUE, value |-> v, dirty |-> TRUE, defaulted |-> FALSE, removed |-> FALSE]
            d == [secs |-> [c.secs EXCEPT ![i[1]] = f], ents |-> c.ents]
<1>1. c = [secs |-> c.secs, ents |-> c.ents] /\ c.ents[i] \in EntryOf(V)
  BY DEF ConfigOf
<1>2. f \in SectionFlags /\ e \in EntryOf(V)
  BY DEF SectionFlags, EntryOf
<1>3. (IF c.ents[i].here THEN Overwritten(c.ents[i], v, TRUE, FALSE)
       ELSE [here |-> TRUE, value |-> v, dirty |-> TRUE, defaulted |-> FALSE, removed |-> FALSE]) = e
  BY <1>1 DEF Overwritten, EntryOf
<1>4. [c EXCEPT !.secs = [c.secs EXCEPT ![i[1]] = f]] = d
  BY <1>1
<1>5. SetStr(c, i, v) = AddEntry(d, i, v, TRUE, FALSE)
  BY <1>4, Zenon DEF SetStr
<1>. HIDE DEF f, e
<1>6. AddEntry(d, i, v, TRUE, FALSE) = Rewritten(c, i, f, e)
  <2>1. d.ents = c.ents /\ d.secs = [c.secs EXCEPT ![i[1]] = f]
    OBVIOUS
  <2>2. AddEntry(d, i, v, TRUE, FALSE) = [d EXCEPT !.ents = [c.ents EXCEPT ![i] = e]]
    BY <1>3, <2>1, Zenon DEF AddEntry
  <2>. QED
    BY <2>2 DEF Rewritten
<1>. QED
  BY <1>2, <1>5, <1>6 DEF f, e

LEMMA SetAgrees ==
    ASSUME NEW V, NEW c \in ConfigOf(V), Agrees(c), NEW i \in Item, NEW v \in V, v # Missing
    PROVE  SetStr(c, i, v) \in ConfigOf(V) /\ Agrees(SetStr(c, i, v))
<1>1. PICK f \in SectionFlags, e \in EntryOf(V) :
        /\ SetStr(c, i, v) = Rewritten(c, i, f, e)
        /\ f = [here |-> TRUE, removed |-> FALSE, dirty |-> FALSE]
        /\ e = [here |-> TRUE, value |-> v, dirty |-> TRUE,
                defaulted |-> FALSE, removed |-> FALSE]
  BY SetRewrites
<1>2. /\ f.here /\ ~f.removed /\ ~f.dirty
      /\ e.here /\ e.value # Missing /\ ~e.defaulted
  BY <1>1
<1>3. Agrees(Rewritten(c, i, f, e))
  BY <1>2, RewrittenAgrees
<1>. QED
  BY <1>1, <1>3, RewrittenFields

\* rss_config_unset
LEMMA UnsetRewrites ==
    ASSUME NEW V, NEW c \in ConfigOf(V), Agrees(c), NEW i \in Item, CanUnset(c, i)
    PROVE  \E f \in SectionFlags, e \in EntryOf(V) :
             /\ UnsetKey(c, i) = Rewritten(c, i, f, e)
             /\ f = c.secs[i[1]] /\ f.here /\ ~f.removed
             /\ e.here /\ e.value # Missing /\ e.dirty /\ ~e.defaulted /\ e.removed
<1>. DEFINE f == c.secs[i[1]]
            e == Taken(c.ents[i])
<1>1. /\ c = [secs |-> c.secs, ents |-> c.ents] /\ i[1] \in Section
      /\ f \in SectionFlags /\ c.ents[i] \in EntryOf(V)
      /\ c.secs \in [Section -> SectionFlags]
  BY DEF ConfigOf, Item
<1>2. EntryAgrees(c, i) /\ Configured(c.ents[i])
  BY DEF Agrees, CanUnset
<1>3. e \in EntryOf(V) /\ e.here /\ e.value # Missing /\ e.dirty /\ ~e.defaulted /\ e.removed
  BY <1>1, <1>2 DEF Taken, EntryOf, EntryAgrees, Configured
<1>4. f.here /\ ~f.removed
  BY <1>2 DEF EntryAgrees, Configured
<1>. HIDE DEF e
<1>5. UnsetKey(c, i) = [secs |-> c.secs, ents |-> [c.ents EXCEPT ![i] = e]]
  BY <1>1 DEF UnsetKey, e
<1>6. [c.secs EXCEPT ![i[1]] = f] = c.secs
  BY <1>1
<1>7. UnsetKey(c, i) = Rewritten(c, i, f, e)
  BY <1>5, <1>6 DEF Rewritten
<1>. QED
  BY <1>1, <1>3, <1>4, <1>7

LEMMA UnsetAgrees ==
    ASSUME NEW V, NEW c \in ConfigOf(V), Agrees(c), NEW i \in Item, CanUnset(c, i)
    PROVE  UnsetKey(c, i) \in ConfigOf(V) /\ Agrees(UnsetKey(c, i))
<1>1. PICK f \in SectionFlags, e \in EntryOf(V) :
        /\ UnsetKey(c, i) = Rewritten(c, i, f, e)
        /\ f = c.secs[i[1]] /\ f.here /\ ~f.removed
        /\ e.here /\ e.value # Missing /\ e.dirty /\ ~e.defaulted /\ e.removed
  BY UnsetRewrites
<1>2. i[1] \in Section /\ (f.dirty => f.removed)
  BY <1>1 DEF Agrees, SectionAgrees, Item
<1>3. Agrees(Rewritten(c, i, f, e))
  BY <1>1, <1>2, RewrittenAgrees
<1>. QED
  BY <1>1, <1>3, RewrittenFields

\* rss_config_remove_section
LEMMA DropFields ==
    ASSUME NEW V, NEW c \in ConfigOf(V), NEW s \in Section
    PROVE  LET d == DropSection(c, s) IN
           /\ d \in ConfigOf(V)
           /\ d.secs[s] = [here |-> TRUE, removed |-> TRUE, dirty |-> TRUE]
           /\ \A r \in Section : r # s => d.secs[r] = c.secs[r]
           /\ \A i \in Item : d.ents[i] = IF i[1] = s /\ Configured(c.ents[i])
                                          THEN Taken(c.ents[i]) ELSE c.ents[i]
<1>1. [here |-> TRUE, removed |-> TRUE, dirty |-> TRUE] \in SectionFlags
  BY DEF SectionFlags
<1>2. ASSUME NEW e \in EntryOf(V) PROVE Taken(e) \in EntryOf(V)
  BY DEF Taken, EntryOf
<1>3. c.secs \in [Section -> SectionFlags] /\ c.ents \in [Item -> EntryOf(V)]
  BY DEF ConfigOf
<1>. DEFINE ents == [i \in Item |-> IF i[1] = s /\ Configured(c.ents[i])
                                    THEN Taken(c.ents[i]) ELSE c.ents[i]]
            secs == [c.secs EXCEPT ![s] = [here |-> TRUE, removed |-> TRUE, dirty |-> TRUE]]
<1>4. ents \in [Item -> EntryOf(V)]
  BY <1>2, <1>3
<1>5. secs \in [Section -> SectionFlags]
  BY <1>1, <1>3
<1>6. DropSection(c, s) = [secs |-> secs, ents |-> ents]
  BY Zenon DEF DropSection
<1>7. /\ secs[s] = [here |-> TRUE, removed |-> TRUE, dirty |-> TRUE]
      /\ \A r \in Section : r # s => secs[r] = c.secs[r]
  BY <1>3
<1>8. \A i \in Item : ents[i] = IF i[1] = s /\ Configured(c.ents[i])
                                THEN Taken(c.ents[i]) ELSE c.ents[i]
  OBVIOUS
<1>. HIDE DEF secs, ents
<1>. QED
  BY <1>4, <1>5, <1>6, <1>7, <1>8 DEF ConfigOf

LEMMA DropAgrees ==
    ASSUME NEW V, NEW c \in ConfigOf(V), Agrees(c), NEW s \in Section, CanRemove(c, s)
    PROVE  DropSection(c, s) \in ConfigOf(V) /\ Agrees(DropSection(c, s))
<1>. DEFINE d == DropSection(c, s)
<1>1. /\ d \in ConfigOf(V)
      /\ d.secs[s] = [here |-> TRUE, removed |-> TRUE, dirty |-> TRUE]
      /\ \A r \in Section : r # s => d.secs[r] = c.secs[r]
      /\ \A i \in Item : d.ents[i] = IF i[1] = s /\ Configured(c.ents[i])
                                     THEN Taken(c.ents[i]) ELSE c.ents[i]
  BY DropFields
<1>. HIDE DEF d
<1>2. ASSUME NEW i \in Item PROVE EntryAgrees(d, i)
  <2>1. EntryAgrees(c, i) /\ i[1] \in Section /\ c.ents[i] \in EntryOf(V)
    BY DEF Agrees, Item, ConfigOf
  <2>2. CASE i[1] = s /\ Configured(c.ents[i])
    <3>1. d.ents[i] = Taken(c.ents[i])
      BY <1>1, <2>2
    <3>2. /\ d.ents[i].here /\ d.ents[i].value = c.ents[i].value
          /\ ~d.ents[i].defaulted /\ d.ents[i].removed
      BY <2>1, <2>2, <3>1 DEF Taken, EntryOf, Configured
    <3>3. d.secs[i[1]].here /\ c.ents[i].value # Missing
      BY <1>1, <2>1, <2>2 DEF EntryAgrees, Configured
    <3>. QED
      BY <3>2, <3>3 DEF EntryAgrees, Configured
  <2>3. CASE i[1] = s /\ ~Configured(c.ents[i])
    BY <1>1, <2>1, <2>3 DEF EntryAgrees
  <2>4. CASE i[1] # s
    BY <1>1, <2>1, <2>4 DEF EntryAgrees
  <2>. QED
    BY <2>2, <2>3, <2>4
<1>3. ASSUME NEW r \in Section PROVE SectionAgrees(d, r)
  <2>1. SectionAgrees(c, r) /\ s # Global
    BY DEF Agrees, CanRemove
  <2>. QED
    BY <1>1, <2>1 DEF SectionAgrees
<1>. QED
  BY <1>1, <1>2, <1>3 DEF Agrees, d

\* rss_config_save
LEMMA CleanFields ==
    ASSUME NEW V, NEW c \in ConfigOf(V)
    PROVE  /\ Clean(c) \in ConfigOf(V)
           /\ \A i \in Item : Clean(c).ents[i] = [c.ents[i] EXCEPT !.dirty = FALSE]
           /\ \A s \in Section : Clean(c).secs[s] = [c.secs[s] EXCEPT !.dirty = FALSE]
<1>1. c.secs \in [Section -> SectionFlags] /\ c.ents \in [Item -> EntryOf(V)]
  BY DEF ConfigOf
<1>2. \A i \in Item : [c.ents[i] EXCEPT !.dirty = FALSE] \in EntryOf(V)
  BY <1>1 DEF EntryOf
<1>3. \A s \in Section : [c.secs[s] EXCEPT !.dirty = FALSE] \in SectionFlags
  BY <1>1 DEF SectionFlags
<1>4. Clean(c) \in ConfigOf(V)
  BY <1>2, <1>3 DEF Clean, ConfigOf
<1>5. \A i \in Item : Clean(c).ents[i] = [c.ents[i] EXCEPT !.dirty = FALSE]
  BY DEF Clean
<1>6. \A s \in Section : Clean(c).secs[s] = [c.secs[s] EXCEPT !.dirty = FALSE]
  BY DEF Clean
<1>. QED
  BY <1>4, <1>5, <1>6

LEMMA CleanAgrees ==
    ASSUME NEW V, NEW c \in ConfigOf(V), Agrees(c)
    PROVE  Clean(c) \in ConfigOf(V) /\ Agrees(Clean(c))
<1>1. ASSUME NEW s \in Section PROVE SectionAgrees(Clean(c), s)
  <2>1. SectionAgrees(c, s) /\ c.secs[s] \in SectionFlags
    BY DEF Agrees, ConfigOf
  <2>2. Clean(c).secs[s] = [c.secs[s] EXCEPT !.dirty = FALSE]
    BY CleanFields
  <2>. QED
    BY <2>1, <2>2 DEF SectionAgrees, SectionFlags
<1>2. ASSUME NEW i \in Item PROVE EntryAgrees(Clean(c), i)
  <2>1. EntryAgrees(c, i) /\ i[1] \in Section
    BY DEF Agrees, Item
  <2>2. c.ents[i] \in EntryOf(V) /\ c.secs[i[1]] \in SectionFlags
    BY <2>1 DEF ConfigOf
  <2>3. /\ Clean(c).ents[i] = [c.ents[i] EXCEPT !.dirty = FALSE]
        /\ Clean(c).secs[i[1]] = [c.secs[i[1]] EXCEPT !.dirty = FALSE]
    BY <2>1, CleanFields
  <2>. QED
    BY <2>1, <2>2, <2>3 DEF EntryAgrees, Configured, EntryOf, SectionFlags
<1>. QED
  BY <1>1, <1>2, CleanFields DEF Agrees

-----------------------------------------------------------------------------
(* The map the flags stand for.                                            *)

\* What an entry answers a lookup.
Answer(e) == IF Configured(e) THEN e.value ELSE Missing

LEMMA MemoryIsMemory ==
    ASSUME NEW c \in Config
    PROVE  MemoryOf(c) \in Memory
<1>1. [i \in Item |-> Lookup(c, i)] \in Contents
  BY DEF Lookup, Contents, Config, Entry
<1>2. Owed(c) \in SUBSET Item /\ OwedHeaders(c) \in SUBSET Section
  BY DEF Owed, OwedHeaders
<1>. QED
  BY <1>1, <1>2 DEF MemoryOf, Memory

\* rss_config_has_dirty says of the flags what it says of the map.
LEMMA DirtyIsOwed == ASSUME NEW c PROVE IsDirty(c) <=> HasDirty(MemoryOf(c))
BY DEF IsDirty, HasDirty, MemoryOf

\* A removed section has no value.
LEMMA DroppedIsMissing ==
    ASSUME NEW c, Agrees(c), NEW i \in Item, i[1] \in MemoryOf(c).dropped
    PROVE  MemoryOf(c).view[i] = Missing
BY DEF MemoryOf, OwedHeaders, Agrees, EntryAgrees, Lookup

LEMMA NoConfigMemory == MemoryOf(NoConfig) = Loaded(EmptyContents)
<1>1. \A i \in Item : Lookup(NoConfig, i) = Missing
  BY DEF Lookup, NoConfig, NoEntry, Configured
<1>2. Owed(NoConfig) = {} /\ OwedHeaders(NoConfig) = {}
  BY DEF Owed, OwedHeaders, NoConfig, NoEntry
<1>. QED
  BY <1>1, <1>2 DEF MemoryOf, Loaded, EmptyContents

\* What a load reads is what it answers, and it owes nothing.
LEMMA ParsedAnswers ==
    ASSUME NEW text, NEW i \in Item
    PROVE  Lookup(Parsed(text), i) = text[i]
<1>. DEFINE e == Parsed(text).ents[i]
            set == text[i] # Missing
<1>1. e = [here |-> set, value |-> text[i], dirty |-> FALSE, defaulted |-> FALSE, removed |-> FALSE]
  BY DEF Parsed, NoEntry
<1>. HIDE DEF e, set
<1>2. e.here = set /\ e.value = text[i] /\ e.defaulted = FALSE /\ e.removed = FALSE
  BY <1>1
<1>. QED
  BY <1>2, Zenon DEF Lookup, Configured, e, set

LEMMA ParsedMemory ==
    ASSUME NEW text, text = [i \in Item |-> text[i]]
    PROVE  MemoryOf(Parsed(text)) = Loaded(text)
<1>1. Owed(Parsed(text)) = {} /\ OwedHeaders(Parsed(text)) = {}
  BY DEF Owed, OwedHeaders, Parsed, NoEntry
<1>2. [i \in Item |-> Lookup(Parsed(text), i)] = text
  BY ParsedAnswers
<1>. QED
  BY <1>1, <1>2 DEF MemoryOf, Loaded

\* A rewritten entry answers for its own key only.
LEMMA RewrittenMemory ==
    ASSUME NEW V, NEW c \in ConfigOf(V), NEW i \in Item,
           NEW f \in SectionFlags, NEW e \in EntryOf(V)
    PROVE  MemoryOf(Rewritten(c, i, f, e)) =
             [view    |-> [MemoryOf(c).view EXCEPT ![i] = Answer(e)],
              touched |-> IF e.dirty THEN Owed(c) \cup {i} ELSE Owed(c) \ {i},
              dropped |-> IF f.removed /\ f.dirty THEN OwedHeaders(c) \cup {i[1]}
                          ELSE OwedHeaders(c) \ {i[1]}]
<1>. DEFINE r == Rewritten(c, i, f, e)
<1>1. /\ r.ents[i] = e /\ \A j \in Item : j # i => r.ents[j] = c.ents[j]
      /\ r.secs[i[1]] = f /\ \A s \in Section : s # i[1] => r.secs[s] = c.secs[s]
      /\ i[1] \in Section
  BY RewrittenFields DEF Item
<1>. HIDE DEF r
<1>2. [j \in Item |-> Lookup(r, j)] = [MemoryOf(c).view EXCEPT ![i] = Answer(e)]
  <2>1. Lookup(r, i) = Answer(e)
    BY <1>1 DEF Lookup, Answer
  <2>2. \A j \in Item : j # i => Lookup(r, j) = Lookup(c, j)
    BY <1>1 DEF Lookup
  <2>3. MemoryOf(c).view = [j \in Item |-> Lookup(c, j)]
    BY DEF MemoryOf
  <2>. QED
    BY <2>1, <2>2, <2>3
<1>3. Owed(r) = IF e.dirty THEN Owed(c) \cup {i} ELSE Owed(c) \ {i}
  BY <1>1 DEF Owed
<1>4. OwedHeaders(r) = IF f.removed /\ f.dirty THEN OwedHeaders(c) \cup {i[1]}
                       ELSE OwedHeaders(c) \ {i[1]}
  BY <1>1 DEF OwedHeaders
<1>. QED
  BY <1>2, <1>3, <1>4 DEF MemoryOf, r

\* A default that is stored for display changes no answer, and owes nothing.
LEMMA GetMemory ==
    ASSUME NEW V, NEW c \in ConfigOf(V), Agrees(c), NEW i \in Item, NEW default \in V
    PROVE  MemoryOf(Get(c, i, default)) = MemoryOf(c)
<1>1. CASE Lookup(c, i) # Missing \/ default = Missing
  BY <1>1 DEF Get
<1>2. CASE Lookup(c, i) = Missing /\ default # Missing
  <2>1. PICK f \in SectionFlags, e \in EntryOf(V) :
          /\ Get(c, i, default) = Rewritten(c, i, f, e)
          /\ f = [c.secs[i[1]] EXCEPT !.here = TRUE]
          /\ ~Configured(c.ents[i])
          /\ e = [here |-> TRUE, value |-> default, dirty |-> c.ents[i].dirty,
                  defaulted |-> TRUE, removed |-> c.ents[i].removed]
    BY <1>2, GetRewrites
  <2>2. i[1] \in Section /\ c.secs[i[1]] \in SectionFlags
    BY DEF Item, ConfigOf
  <2>3. e.dirty = c.ents[i].dirty /\ e.defaulted = TRUE
    BY <2>1
  <2>4. f.removed = c.secs[i[1]].removed /\ f.dirty = c.secs[i[1]].dirty
    BY <2>1, <2>2 DEF SectionFlags
  <2>5. [MemoryOf(c).view EXCEPT ![i] = Answer(e)] = MemoryOf(c).view
    <3>1. Answer(e) = Missing
      BY <2>3, Zenon DEF Answer, Configured
    <3>2. MemoryOf(c).view = [j \in Item |-> Lookup(c, j)]
      BY DEF MemoryOf
    <3>. QED
      BY <1>2, <3>1, <3>2
  <2>6. (IF e.dirty THEN Owed(c) \cup {i} ELSE Owed(c) \ {i}) = Owed(c)
    BY <2>3 DEF Owed
  <2>7. (IF f.removed /\ f.dirty THEN OwedHeaders(c) \cup {i[1]}
         ELSE OwedHeaders(c) \ {i[1]}) = OwedHeaders(c)
    BY <2>2, <2>4 DEF OwedHeaders
  <2>8. MemoryOf(c) = [view |-> MemoryOf(c).view, touched |-> Owed(c), dropped |-> OwedHeaders(c)]
    BY DEF MemoryOf
  <2>9. MemoryOf(Rewritten(c, i, f, e)) =
             [view    |-> [MemoryOf(c).view EXCEPT ![i] = Answer(e)],
              touched |-> IF e.dirty THEN Owed(c) \cup {i} ELSE Owed(c) \ {i},
              dropped |-> IF f.removed /\ f.dirty THEN OwedHeaders(c) \cup {i[1]}
                          ELSE OwedHeaders(c) \ {i[1]}]
    BY RewrittenMemory
  <2>. QED
    BY <2>1, <2>5, <2>6, <2>7, <2>8, <2>9, Zenon
<1>. QED
  BY <1>1, <1>2

\* A write is a write to the map; a removed section comes back.
LEMMA SetMemory ==
    ASSUME NEW V, NEW c \in ConfigOf(V), NEW i \in Item, NEW v \in V
    PROVE  MemoryOf(SetStr(c, i, v)) = SetIn(MemoryOf(c), i, v)
<1>1. PICK f \in SectionFlags, e \in EntryOf(V) :
        /\ SetStr(c, i, v) = Rewritten(c, i, f, e)
        /\ f = [here |-> TRUE, removed |-> FALSE, dirty |-> FALSE]
        /\ e = [here |-> TRUE, value |-> v, dirty |-> TRUE,
                defaulted |-> FALSE, removed |-> FALSE]
  BY SetRewrites
<1>2. ~f.removed /\ e.dirty /\ Answer(e) = v
  BY <1>1 DEF Answer, Configured
<1>3. MemoryOf(Rewritten(c, i, f, e)) =
             [view    |-> [MemoryOf(c).view EXCEPT ![i] = v],
              touched |-> Owed(c) \cup {i},
              dropped |-> OwedHeaders(c) \ {i[1]}]
  BY <1>2, RewrittenMemory
<1>. QED
  BY <1>1, <1>3 DEF SetIn, MemoryOf

\* An unset takes the value out of the map.
LEMMA UnsetMemory ==
    ASSUME NEW V, NEW c \in ConfigOf(V), Agrees(c), NEW i \in Item, CanUnset(c, i)
    PROVE  /\ MemoryOf(UnsetKey(c, i)) = UnsetIn(MemoryOf(c), i)
           /\ MemoryOf(c).view[i] # Missing
<1>1. PICK f \in SectionFlags, e \in EntryOf(V) :
        /\ UnsetKey(c, i) = Rewritten(c, i, f, e)
        /\ f = c.secs[i[1]] /\ f.here /\ ~f.removed
        /\ e.here /\ e.value # Missing /\ e.dirty /\ ~e.defaulted /\ e.removed
  BY UnsetRewrites
<1>2. Answer(e) = Missing
  BY <1>1 DEF Answer, Configured
<1>3. OwedHeaders(c) \ {i[1]} = OwedHeaders(c)
  BY <1>1 DEF OwedHeaders
<1>4. MemoryOf(Rewritten(c, i, f, e)) =
             [view    |-> [MemoryOf(c).view EXCEPT ![i] = Missing],
              touched |-> Owed(c) \cup {i},
              dropped |-> OwedHeaders(c)]
  <2>1. MemoryOf(Rewritten(c, i, f, e)) =
             [view    |-> [MemoryOf(c).view EXCEPT ![i] = Answer(e)],
              touched |-> IF e.dirty THEN Owed(c) \cup {i} ELSE Owed(c) \ {i},
              dropped |-> IF f.removed /\ f.dirty THEN OwedHeaders(c) \cup {i[1]}
                          ELSE OwedHeaders(c) \ {i[1]}]
    BY RewrittenMemory
  <2>. QED
    BY <1>1, <1>2, <1>3, <2>1, Zenon
<1>5. MemoryOf(c).view[i] # Missing
  BY DEF MemoryOf, Lookup, CanUnset, Agrees, EntryAgrees, Configured
<1>. QED
  BY <1>1, <1>4, <1>5 DEF UnsetIn, MemoryOf

\* A removal takes a section out of the map, and owes it.
LEMMA DropMemory ==
    ASSUME NEW V, NEW c \in ConfigOf(V), Agrees(c), NEW s \in Section
    PROVE  MemoryOf(DropSection(c, s)) = RemoveIn(MemoryOf(c), s)
<1>. DEFINE d == DropSection(c, s)
            m == MemoryOf(c)
<1>1. /\ d.secs[s] = [here |-> TRUE, removed |-> TRUE, dirty |-> TRUE]
      /\ \A r \in Section : r # s => d.secs[r] = c.secs[r]
      /\ \A i \in Item : d.ents[i] = IF i[1] = s /\ Configured(c.ents[i])
                                     THEN Taken(c.ents[i]) ELSE c.ents[i]
  BY DropFields
<1>2. \A i \in Item : m.view[i] = Lookup(c, i)
  BY DEF MemoryOf
<1>3. m.touched = Owed(c) /\ m.dropped = OwedHeaders(c)
  BY DEF MemoryOf
<1>. HIDE DEF d, m
<1>4. ASSUME NEW i \in Item
      PROVE  /\ Lookup(d, i) = IF i[1] = s THEN Missing ELSE m.view[i]
             /\ d.ents[i].dirty <=> c.ents[i].dirty \/ (i[1] = s /\ m.view[i] # Missing)
  <2>1. EntryAgrees(c, i) /\ c.ents[i] \in EntryOf(V)
    BY DEF Agrees, ConfigOf
  <2>2. CASE i[1] = s /\ Configured(c.ents[i])
    <3>1. d.ents[i] = Taken(c.ents[i])
      BY <1>1, <2>2
    <3>2. d.ents[i].removed /\ d.ents[i].dirty
      BY <2>1, <3>1 DEF Taken, EntryOf
    <3>3. m.view[i] # Missing
      BY <1>2, <2>1, <2>2 DEF EntryAgrees, Lookup, Configured
    <3>. QED
      BY <2>2, <3>2, <3>3 DEF Lookup, Configured
  <2>3. CASE i[1] = s /\ ~Configured(c.ents[i])
    BY <1>1, <1>2, <2>3 DEF Lookup
  <2>4. CASE i[1] # s
    BY <1>1, <1>2, <2>4 DEF Lookup
  <2>. QED
    BY <2>2, <2>3, <2>4
<1>5. Owed(d) = m.touched \cup {i \in Item : i[1] = s /\ m.view[i] # Missing}
  BY <1>3, <1>4 DEF Owed
<1>6. OwedHeaders(d) = m.dropped \cup {s}
  BY <1>1, <1>3 DEF OwedHeaders
<1>7. [i \in Item |-> Lookup(d, i)] = [i \in Item |-> IF i[1] = s THEN Missing ELSE m.view[i]]
  BY <1>4
<1>. QED
  BY <1>5, <1>6, <1>7 DEF MemoryOf, RemoveIn, d, m

\* A save settles what is owed, and changes no answer.
LEMMA CleanMemory ==
    ASSUME NEW V, NEW c \in ConfigOf(V)
    PROVE  MemoryOf(Clean(c)) = Settled(MemoryOf(c))
<1>1. ASSUME NEW i \in Item PROVE Lookup(Clean(c), i) = Lookup(c, i) /\ ~Clean(c).ents[i].dirty
  <2>1. c.ents[i] \in EntryOf(V) /\ Clean(c).ents[i] = [c.ents[i] EXCEPT !.dirty = FALSE]
    BY CleanFields DEF ConfigOf
  <2>. QED
    BY <2>1 DEF Lookup, Configured, EntryOf
<1>2. ASSUME NEW s \in Section PROVE ~Clean(c).secs[s].dirty
  <2>1. c.secs[s] \in SectionFlags /\ Clean(c).secs[s] = [c.secs[s] EXCEPT !.dirty = FALSE]
    BY CleanFields DEF ConfigOf
  <2>. QED
    BY <2>1 DEF SectionFlags
<1>3. Owed(Clean(c)) = {} /\ OwedHeaders(Clean(c)) = {}
  BY <1>1, <1>2 DEF Owed, OwedHeaders
<1>4. [i \in Item |-> Lookup(Clean(c), i)] = [i \in Item |-> Lookup(c, i)]
  BY <1>1
<1>. QED
  BY <1>3, <1>4 DEF MemoryOf, Settled, Loaded

=============================================================================
