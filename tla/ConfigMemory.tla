---------------------------- MODULE ConfigMemory ----------------------------
(***************************************************************************)
(* What a configuration says, without the flags and the text lines that   *)
(* say it: a map from (section, key) to a value, and, for a daemon that    *)
(* holds it in memory (struct rss_config), the changes that have not      *)
(* reached the file.  ConfigEntries has the same operations on the flags   *)
(* the code keeps, ConfigText has them on the lines of the file.           *)
(***************************************************************************)

CONSTANTS
    Section,    \* section names, up to case (strcasecmp)
    Key,        \* key names, up to case
    Value,      \* strings a key can be set to
    Global,     \* the section "": keys above the first header
    Missing     \* "no such key"

ASSUME GlobalAssumption == Global \in Section
ASSUME MissingAssumption == Missing \notin Value

Item == Section \X Key

\* A configuration, read as a map.
Contents == [Item -> Value \cup {Missing}]

EmptyContents == [i \in Item |-> Missing]

(***************************************************************************)
(* A daemon's memory: the values its lookups return, the keys a save owes *)
(* the file (dirty entries), and the sections whose removal it owes.       *)
(***************************************************************************)
Memory == [view : Contents, touched : SUBSET Item, dropped : SUBSET Section]

\* rss_config_load: nothing is dirty.
Loaded(text) == [view |-> text, touched |-> {}, dropped |-> {}]

\* rss_config_set_str: a write puts a removed section back.
SetIn(m, i, v) ==
    [view    |-> [m.view EXCEPT ![i] = v],
     touched |-> m.touched \cup {i},
     dropped |-> m.dropped \ {i[1]}]

\* rss_config_unset of a key that is configured.
UnsetIn(m, i) ==
    [view    |-> [m.view EXCEPT ![i] = Missing],
     touched |-> m.touched \cup {i},
     dropped |-> m.dropped]

\* rss_config_remove_section: every configured key of s is unset, and the
\* section's header is owed too, with whatever the file holds under it.
RemoveIn(m, s) ==
    [view    |-> [i \in Item |-> IF i[1] = s THEN Missing ELSE m.view[i]],
     touched |-> m.touched \cup {i \in Item : i[1] = s /\ m.view[i] # Missing},
     dropped |-> m.dropped \cup {s}]

\* rss_config_has_dirty
HasDirty(m) == m.touched # {} \/ m.dropped # {}

\* The flags a successful save clears.
Settled(m) == Loaded(m.view)

\* config_write_surgical, read as a map: only what m owes changes.
Overlay(text, m) ==
    [i \in Item |-> IF i \in m.touched THEN m.view[i]
                    ELSE IF i[1] \in m.dropped THEN Missing
                    ELSE text[i]]
=============================================================================
