---------------------------- MODULE SharedConfig ----------------------------
(***************************************************************************)
(* What the configuration promises the daemons that share one file: every *)
(* daemon works on its own copy, and a save lays exactly the keys it owes  *)
(* over whatever the file says at that moment, in one step.  A power loss *)
(* brings back the file as it is or as it was last stored, never anything *)
(* else.  Config and ConfigSave implement this specification.              *)
(***************************************************************************)
EXTENDS ConfigMemory

CONSTANTS
    Daemon,     \* the processes that share the file
    NoFile      \* the file does not exist

VARIABLES
    file,       \* what the file says, or NoFile
    stored,     \* what a power loss may bring back
    up,         \* the daemons that run
    mem         \* each daemon's memory

vars == <<file, stored, up, mem>>

Init ==
    /\ file \in Contents
    /\ stored = file
    /\ up = {}
    /\ mem = [d \in Daemon |-> Loaded(EmptyContents)]

Start(d) ==
    /\ d \notin up
    /\ file # NoFile
    /\ up' = up \cup {d}
    /\ mem' = [mem EXCEPT ![d] = Loaded(file)]
    /\ UNCHANGED <<file, stored>>

Change(d) ==
    /\ d \in up
    /\ \/ \E i \in Item, v \in Value :
            /\ i[1] # Global
            /\ mem' = [mem EXCEPT ![d] = SetIn(mem[d], i, v)]
       \/ \E i \in Item :
            /\ mem[d].view[i] # Missing
            /\ mem' = [mem EXCEPT ![d] = UnsetIn(mem[d], i)]
       \/ \E s \in Section \ {Global} :
            mem' = [mem EXCEPT ![d] = RemoveIn(mem[d], s)]
    /\ UNCHANGED <<file, stored, up>>

\* A save lays what d owes over the file, and then d owes nothing.
Commit(d) ==
    /\ d \in up
    /\ file' = IF file = NoFile THEN mem[d].view ELSE Overlay(file, mem[d])
    /\ stored' \in {stored, file'}
    /\ mem' = [mem EXCEPT ![d] = Settled(mem[d])]
    /\ UNCHANGED up

Flush ==
    /\ stored' = file
    /\ UNCHANGED <<file, up, mem>>

\* A daemon ends, or dies: its unsaved changes go with it.
Stop(d) ==
    /\ up' = up \ {d}
    /\ mem' = [mem EXCEPT ![d] = Loaded(EmptyContents)]
    /\ UNCHANGED <<file, stored>>

PowerLoss ==
    /\ file' \in {file, stored}
    /\ stored' = file'
    /\ up' = {}
    /\ mem' = [d \in Daemon |-> Loaded(EmptyContents)]

\* Somebody deletes the file.
Delete ==
    /\ file' = NoFile
    /\ stored' \in {stored, NoFile}
    /\ UNCHANGED <<up, mem>>

Next ==
    \/ \E d \in Daemon : Start(d) \/ Change(d) \/ Commit(d) \/ Stop(d)
    \/ Flush
    \/ PowerLoss
    \/ Delete

Spec == Init /\ [][Next]_vars
=============================================================================
