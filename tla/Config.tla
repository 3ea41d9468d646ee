------------------------------- MODULE Config -------------------------------
(***************************************************************************)
(* The daemons of one camera on one config file: each keeps a running      *)
(* configuration with the flags of ConfigEntries, the file is the lines of *)
(* ConfigText.  A save is one step here; ConfigSave has its system calls.  *)
(***************************************************************************)
EXTENDS ConfigEntries, ConfigText

CONSTANTS
    Daemon,
    NoFile,         \* the file does not exist
    Cameras,        \* records: the texts a file may have at first, the daemons
                    \* of the camera, and the items and values they use
    Default         \* the value getters fall back on

ASSUME ConfigAssumption ==
    /\ \A c \in Cameras :
         /\ c.daemons \subseteq Daemon /\ c.items \subseteq Item /\ c.values \subseteq Value
         /\ c.texts \subseteq Seq(Line)
    /\ Default \in Value \cup {Missing}
    /\ NoFile \notin Contents /\ NoFile \notin Seq(Line)

\* Daemons that set no value with " #" inside and not "": the one comes back
\* cut, the other, on a line with a comment, as the comment.  And files without
\* the header "[]": keys under it belong to the section without a name, which a
\* file written anew may have behind others, without a header of its own.
PlainCameras ==
    \A c \in Cameras :
        /\ \A v \in c.values : v \notin DOMAIN Cut /\ v # Empty
        /\ \A x \in c.texts : Header(Global) \notin Range(x)

VARIABLES
    camera,         \* which one it is
    text,           \* the lines of the file, or NoFile
    up,             \* the daemons that run
    cfg,            \* Daemon -> its running configuration
    made           \* Daemon -> its sections, in the order they were made

vars == <<camera, text, up, cfg, made>>

Init ==
    /\ camera \in Cameras
    /\ text \in camera.texts
    /\ up = {}
    /\ cfg = [d \in Daemon |-> NoConfig]
    /\ made = [d \in Daemon |-> <<>>]

\* A call that may have made section s.
Becomes(d, c, s) ==
    /\ d \in up
    /\ cfg' = [cfg EXCEPT ![d] = c]
    /\ made' = [made EXCEPT ![d] = IF c.secs[s].here THEN Listing(made[d], s) ELSE made[d]]
    /\ UNCHANGED <<camera, text, up>>

\* rss_daemon_init loads the file; without one the daemon does not start.
Start(d) ==
    /\ d \notin up
    /\ text # NoFile
    /\ up' = up \cup {d}
    /\ cfg' = [cfg EXCEPT ![d] = Parsed(Load(text))]
    /\ made' = [made EXCEPT ![d] = LoadOrder(text)]
    /\ UNCHANGED <<camera, text>>

\* A getter that misses, with a default.
GetStored(d, i) == Becomes(d, Get(cfg[d], i, Default), i[1])

\* A write to the section "" is refused.
SetStored(d, i, v) ==
    /\ i[1] # Global
    /\ Becomes(d, SetStr(cfg[d], i, v), i[1])

Unset(d, i) ==
    /\ CanUnset(cfg[d], i)
    /\ Becomes(d, UnsetKey(cfg[d], i), i[1])

RemoveSection(d, s) ==
    /\ CanRemove(cfg[d], s)
    /\ Becomes(d, DropSection(cfg[d], s), s)

\* (mutant: the whole memory is written over the file)
SavedTextWhole(d) == Whole(MemoryOf(cfg[d]), made[d])

SavedText(d) ==
    IF text = NoFile THEN Whole(MemoryOf(cfg[d]), made[d])
    ELSE Surgical(text, MemoryOf(cfg[d]))

\* rss_config_save: nothing to do, or the file is edited, or written anew.
Save(d) ==
    /\ d \in up
    /\ IsDirty(cfg[d]) \/ text = NoFile
    /\ text' = SavedText(d)
    /\ cfg' = [cfg EXCEPT ![d] = Clean(cfg[d])]
    /\ UNCHANGED <<camera, up, made>>

\* A save that fails leaves the file and the flags as they are: no step.

Stop(d) ==
    /\ d \in up
    /\ up' = up \ {d}
    /\ cfg' = [cfg EXCEPT ![d] = NoConfig]
    /\ made' = [made EXCEPT ![d] = <<>>]
    /\ UNCHANGED <<camera, text>>

Delete ==
    /\ text # NoFile
    /\ text' = NoFile
    /\ UNCHANGED <<camera, up, cfg, made>>

Next ==
    \/ \E d \in camera.daemons :
         \/ Start(d)
         \/ \E i \in camera.items : GetStored(d, i)
         \/ \E i \in camera.items, v \in camera.values : SetStored(d, i, v)
         \/ \E i \in camera.items : Unset(d, i)
         \/ \E i \in camera.items : RemoveSection(d, i[1])
         \/ Save(d)
         \/ Stop(d)
    \/ Delete

Spec == Init /\ [][Next]_vars

-----------------------------------------------------------------------------
(* Properties.                                                             *)

\* The flags of the lists never contradict each other: a display-only entry
\* is dirty only when a removal is still owed, a removed section answers no
\* lookup, and what is owed belongs to a section.
FlagsAgree ==
    \A d \in Daemon : LET c == cfg[d] IN
        /\ \A i \in Item : LET e == c.ents[i] IN
             /\ e.here => c.secs[i[1]].here
             /\ e.dirty /\ e.defaulted => e.removed
             /\ c.secs[i[1]].removed => ~Configured(e)
        /\ \A s \in Section : c.secs[s].dirty => c.secs[s].removed
        /\ ~c.secs[Global].removed

\* One call site's fallback never becomes configuration for another: no
\* getter changes what any lookup answers, or what a save owes.
DefaultsAreNotConfiguration ==
    [][\A d \in Daemon, i \in Item :
         GetStored(d, i) => MemoryOf(cfg'[d]) = MemoryOf(cfg[d])]_vars

\* A save of d takes place.
Saves(d) ==
    /\ text # NoFile
    /\ IsDirty(cfg[d])
    /\ d \in up'
    /\ cfg'[d] = Clean(cfg[d])

\* A line that a save of m does not own: visible, no key the save owes, not
\* in a section it removes, and no header of a section that is not known.
Foreign(s, line, m, known) ==
    /\ line.kind # "blank" /\ s \notin m.dropped
    /\ line.kind = "key" => <<s, line.key>> \notin m.touched
    /\ line.kind = "head" => s \in known

\* The foreign lines of a text in their order, each with its section.
Others(lines, m, known) ==
    LET t == Scan(lines)
        out[n \in 0..Len(lines)] ==
            IF n = 0 THEN <<>>
            ELSE IF Foreign(t.sec[n], lines[n], m, known)
                 THEN Append(out[n - 1], <<t.sec[n], lines[n]>>)
            ELSE out[n - 1]
    IN out[Len(lines)]

Known(lines) == {Scan(lines).sec[n] : n \in DOMAIN lines}

\* Every line a save does not own survives it, with its section and in its
\* place among the others; only headers of new sections join them.
SaveKeepsOthers ==
    [][\A d \in Daemon : Saves(d) =>
         Others(text', MemoryOf(cfg[d]), Known(text)) =
             Others(text, MemoryOf(cfg[d]), Known(text))]_vars

\* The lines and flags implement the map everyone reasons with.
FileSays == IF text = NoFile THEN NoFile ELSE Load(text)

SharedMem == [d \in Daemon |-> MemoryOf(cfg[d])]

Shared == INSTANCE SharedConfig
              WITH file <- FileSays, stored <- FileSays, mem <- SharedMem

SharedSpec == Shared!Spec
=============================================================================
