---------------------------- MODULE ConfigEntries ----------------------------
(***************************************************************************)
(* The running configuration of one daemon, struct rss_config, with the   *)
(* flags the code keeps: an entry may be configured, or there only because *)
(* a getter stored its default for display, or unset, and any of these may *)
(* still be owed to the file.  The operators are the functions of          *)
(* rss_config.c that change or read it; the lists' order is left out.      *)
(***************************************************************************)
EXTENDS ConfigMemory

Entry == [here : BOOLEAN, value : Value \cup {Missing},
          dirty : BOOLEAN, defaulted : BOOLEAN, removed : BOOLEAN]

SectionFlags == [here : BOOLEAN, removed : BOOLEAN, dirty : BOOLEAN]

Config == [secs : [Section -> SectionFlags], ents : [Item -> Entry]]

NoEntry == [here |-> FALSE, value |-> Missing,
            dirty |-> FALSE, defaulted |-> FALSE, removed |-> FALSE]

NoConfig ==
    [secs |-> [s \in Section |-> [here |-> FALSE, removed |-> FALSE, dirty |-> FALSE]],
     ents |-> [i \in Item |-> NoEntry]]

-----------------------------------------------------------------------------
\* A section is found by its name, removed or not, or made.
FindOrCreate(c, s) ==
    [c EXCEPT !.secs = [c.secs EXCEPT ![s] = [c.secs[s] EXCEPT !.here = TRUE]]]

\* (mutant: a default stored over an unset key makes it configured again)
OverwrittenPutsBack(e, v, dirty, defaulted) ==
    [e EXCEPT !.value = v, !.dirty = e.dirty \/ dirty,
              !.defaulted = FALSE, !.removed = FALSE]

\* What add_entry_ex makes of an entry that is there: a default only
\* refreshes the value, a write makes the entry configured.
Overwritten(e, v, dirty, defaulted) ==
    [here      |-> TRUE,
     value     |-> v,
     dirty     |-> e.dirty \/ dirty,
     defaulted |-> defaulted /\ (e.defaulted \/ e.removed),
     removed   |-> defaulted /\ e.removed]

AddEntry(c, i, v, dirty, defaulted) ==
    [c EXCEPT !.ents = [c.ents EXCEPT ![i] =
        IF c.ents[i].here
        THEN Overwritten(c.ents[i], v, dirty, defaulted)
        ELSE [here |-> TRUE, value |-> v, dirty |-> dirty,
              defaulted |-> defaulted, removed |-> FALSE]]]

\* Only a configured entry answers a lookup.
Configured(e) == e.here /\ ~e.defaulted /\ ~e.removed

Lookup(c, i) == IF Configured(c.ents[i]) THEN c.ents[i].value ELSE Missing

\* rss_config_get_str, get_int, get_bool: a miss with a default (not NULL)
\* stores the default for display.
Get(c, i, default) ==
    IF Lookup(c, i) # Missing \/ default = Missing THEN c
    ELSE AddEntry(FindOrCreate(c, i[1]), i, default, FALSE, TRUE)

\* (mutant: the section stays removed)
SetStrKeepsRemoval(c, i, v) == AddEntry(FindOrCreate(c, i[1]), i, v, TRUE, FALSE)

\* rss_config_set_str and its callers, for a section that has a name.
SetStr(c, i, v) ==
    AddEntry([c EXCEPT !.secs = [c.secs EXCEPT ![i[1]] =
                 [here |-> TRUE, removed |-> FALSE, dirty |-> FALSE]]],
             i, v, TRUE, FALSE)

Taken(e) == [e EXCEPT !.removed = TRUE, !.dirty = TRUE]

\* rss_config_unset answers TRUE
CanUnset(c, i) == Configured(c.ents[i])

UnsetKey(c, i) == [c EXCEPT !.ents = [c.ents EXCEPT ![i] = Taken(c.ents[i])]]

\* rss_config_remove_section answers TRUE
CanRemove(c, s) == s # Global /\ c.secs[s].here /\ ~c.secs[s].removed

DropSection(c, s) ==
    [secs |-> [c.secs EXCEPT ![s] = [here |-> TRUE, removed |-> TRUE, dirty |-> TRUE]],
     ents |-> [i \in Item |-> IF i[1] = s /\ Configured(c.ents[i])
                              THEN Taken(c.ents[i]) ELSE c.ents[i]]]

-----------------------------------------------------------------------------
\* rss_config_foreach: the keys config-get-section shows.
Shown(c, s) ==
    {k \in Key : /\ c.secs[s].here /\ ~c.secs[s].removed
                 /\ c.ents[<<s, k>>].here /\ ~c.ents[<<s, k>>].removed}

\* rss_config_foreach_section
Walked(c) == {s \in Section : c.secs[s].here /\ ~c.secs[s].removed}

\* collect_dirty: the entries and the section removals a save owes.
Owed(c) == {i \in Item : c.ents[i].dirty}
OwedHeaders(c) == {s \in Section : c.secs[s].removed /\ c.secs[s].dirty}

IsDirty(c) == Owed(c) # {} \/ OwedHeaders(c) # {}

\* What a successful save does to the flags.
Clean(c) ==
    [secs |-> [s \in Section |-> [c.secs[s] EXCEPT !.dirty = FALSE]],
     ents |-> [i \in Item |-> [c.ents[i] EXCEPT !.dirty = FALSE]]]

\* rss_config_load of a file that says text: a section without keys is none.
Parsed(text) ==
    [secs |-> [s \in Section |->
                 [here |-> \E k \in Key : text[<<s, k>>] # Missing,
                  removed |-> FALSE, dirty |-> FALSE]],
     ents |-> [i \in Item |-> [NoEntry EXCEPT !.here = text[i] # Missing,
                                              !.value = text[i]]]]

-----------------------------------------------------------------------------
\* The configuration without its flags.
MemoryOf(c) ==
    [view    |-> [i \in Item |-> Lookup(c, i)],
     touched |-> Owed(c),
     dropped |-> OwedHeaders(c)]
=============================================================================
