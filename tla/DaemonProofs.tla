---------------------------- MODULE DaemonProofs ----------------------------
(***************************************************************************)
(* Theorems about the life cycle of a daemon, for any number of processes  *)
(* and inodes.  Type correctness and the fate of requests hold however     *)
(* starts and stops overlap; that there is one instance needs that they do *)
(* not.                                                                    *)
(***************************************************************************)
EXTENDS Daemon, TLAPS

-----------------------------------------------------------------------------
(* What holds always.                                                      *)

LEMMA InitAlways == Init => Always
  BY NoneAssumption
  DEF Init, Always, TypeOK, Steps, Heard, HoldsNothing

\* The end of p's image clears what it holds and what was asked of it; step is
\* where the next image is, if there is one.
LEMMA ReleasedAlways ==
    ASSUME Always, NEW p \in Process, NEW step \in {"off", "start"},
           Goto(p, step), Released(p), UNCHANGED file
    PROVE  Always'
  <1>1. TypeOK'
    BY NoneAssumption DEF Always, TypeOK, Goto, Released, file, Steps
  <1>2. Heard'
    BY DEF Always, TypeOK, Heard, Handled, Goto, Released
  <1>3. HoldsNothing'
    BY NoneAssumption DEF Always, TypeOK, HoldsNothing, Goto, Released
  <1> QED BY <1>1, <1>2, <1>3 DEF Always

LEMMA StepAlways == Always /\ [Next]_vars => Always'
  <1> SUFFICES ASSUME Always, [Next]_vars PROVE Always'
    OBVIOUS
  <1> USE NoneAssumption
  <1>1. CASE UNCHANGED vars
    BY <1>1 DEF Always, TypeOK, Heard, HoldsNothing, Handled, vars, file, flags
  <1>2. ASSUME NEW p \in Process, Launch(p) PROVE Always'
    BY <1>2 DEF Launch, Goto, Always, TypeOK, Heard, HoldsNothing, Handled,
                Steps, file, flags
  <1>3. ASSUME NEW p \in Process, Open(p) PROVE Always'
    <2>1. PICK n \in Inode :
            /\ path' = n
            /\ fd' = [fd EXCEPT ![p] = n]
            /\ says' = IF path = None THEN [says EXCEPT ![n] = None] ELSE says
      BY <1>3 DEF Open, Always, TypeOK
    <2>2. TypeOK'
      BY <1>3, <2>1 DEF Open, Goto, Always, TypeOK, Steps, flags
    <2>3. Heard' /\ HoldsNothing'
      BY <1>3, <2>1 DEF Open, Goto, Always, TypeOK, Heard, Handled,
                        HoldsNothing, flags
    <2> QED BY <2>2, <2>3 DEF Always
  <1>4. ASSUME NEW p \in Process, Lock(p) PROVE Always'
    <2>1. fd[p] \in Inode
      BY <1>4 DEF Lock, Always, TypeOK
    <2>2. TypeOK'
      BY <1>4, <2>1 DEF Lock, Goto, Always, TypeOK, Steps, file, flags
    <2>3. Heard'
      BY <1>4 DEF Lock, Goto, Always, TypeOK, Heard, Handled, flags
    <2>4. HoldsNothing'
      BY <1>4, <2>1 DEF Lock, Goto, Always, TypeOK, HoldsNothing
    <2> QED BY <2>2, <2>3, <2>4 DEF Always
  <1>5. ASSUME NEW p \in Process, Truncate(p) \/ WritePid(p) PROVE Always'
    <2>1. fd[p] \in Inode
      BY <1>5 DEF Truncate, WritePid, Always, TypeOK
    <2>2. TypeOK'
      BY <1>5, <2>1 DEF Truncate, WritePid, Goto, Always, TypeOK, Steps, flags
    <2>3. Heard' /\ HoldsNothing'
      BY <1>5 DEF Truncate, WritePid, Goto, Always, TypeOK, Heard, Handled,
                  HoldsNothing, flags
    <2> QED BY <2>2, <2>3 DEF Always
  <1>6. ASSUME NEW p \in Process, Arm(p) \/ InstallHandlers(p) PROVE Always'
    <2>1. running' \in [Process -> BOOLEAN]
      BY <1>6 DEF Arm, InstallHandlers, Always, TypeOK, flags
    <2>2. TypeOK'
      BY <1>6, <2>1 DEF Arm, InstallHandlers, Goto, Always, TypeOK, Steps,
                        file, flags
    <2>3. p \notin asked
      BY <1>6 DEF Arm, InstallHandlers, Always, Heard, Handled
    <2>4. Heard'
      BY <1>6, <2>3 DEF Arm, InstallHandlers, Goto, Always, TypeOK, Heard,
                        Handled, flags
    <2>5. HoldsNothing'
      BY <1>6 DEF Arm, InstallHandlers, Goto, Always, TypeOK, HoldsNothing
    <2> QED BY <2>2, <2>4, <2>5 DEF Always
  <1>7. ASSUME NEW p \in Process, Terminate(p) \/ RequestRestart(p)
        PROVE  Always'
    <2>1. /\ running' = [running EXCEPT ![p] = FALSE]
          /\ asked' = asked \cup {p}
          /\ Handled(p)
          /\ UNCHANGED <<file, holder, fd, pc>>
      BY <1>7 DEF Terminate, RequestRestart, Handled
    <2>2. /\ running' \in [Process -> BOOLEAN]
          /\ restart' \in [Process -> BOOLEAN]
      BY <1>7, <2>1 DEF Terminate, RequestRestart, Always, TypeOK
    <2>3. TypeOK'
      BY <2>1, <2>2 DEF Always, TypeOK, file
    <2>4. Heard'
      BY <2>1 DEF Always, TypeOK, Heard, Handled
    <2>5. HoldsNothing'
      BY <2>1 DEF Always, HoldsNothing
    <2> QED BY <2>3, <2>4, <2>5 DEF Always
  <1>8. ASSUME NEW p \in Process, LeaveLoop(p) \/ Unlink(p) \/ ExecFails(p)
        PROVE  Always'
    BY <1>8 DEF LeaveLoop, Unlink, ExecFails, Goto, Always, TypeOK, Steps,
                Heard, Handled, HoldsNothing, file, flags
  <1>9. ASSUME NEW p \in Process,
               Refused(p) \/ DaemonizeFails(p) \/ Exit(p) \/ Die(p)
        PROVE  Always'
    BY <1>9, ReleasedAlways DEF Refused, DaemonizeFails, Exit, Die, Ends
  <1>10. ASSUME NEW p \in Process, Exec(p) PROVE Always'
    BY <1>10, ReleasedAlways DEF Exec
  <1> QED
    BY <1>1, <1>2, <1>3, <1>4, <1>5, <1>6, <1>7, <1>8, <1>9, <1>10
    DEF Next, Step

\* Every state has its types, a request finds g_running cleared, and a process
\* before the lock holds none, whatever overlaps.
THEOREM AlwaysHolds == Spec => []Always
  <1>1. Init => Always BY InitAlways
  <1>2. Always /\ [Next]_vars => Always' BY StepAlways
  <1> QED BY <1>1, <1>2, PTL DEF Spec

\* The state has its types (TypeOK).
THEOREM TypeCorrect == Spec => []TypeOK
  <1>1. Always => TypeOK BY DEF Always
  <1> QED BY <1>1, AlwaysHolds, PTL

\* No request to stop or to restart is lost during a start (the order of
\* rss_signal_init), whatever overlaps.
THEOREM RequestsAreHeard == Spec => []NoRequestIsLost
  <1>1. Always => NoRequestIsLost BY DEF Always, Heard, NoRequestIsLost
  <1> QED BY <1>1, AlwaysHolds, PTL

\* A daemon that executes itself again does not meet its own lock
\* (O_CLOEXEC), whatever overlaps.
THEOREM RestartPasses == Spec => RestartIsNotRefused
  <1>1. Always /\ [Next]_vars
          => [\A p \in Process : Refused(p) => holder[fd[p]] # p]_vars
    BY DEF Always, TypeOK, HoldsNothing, Refused
  <1> QED BY <1>1, AlwaysHolds, PTL DEF Spec, RestartIsNotRefused

-----------------------------------------------------------------------------
(* What holds when a start and the end of a stop are kept apart.           *)

LEMMA InitInv == Init => Inv
  BY InitAlways DEF Init, Inv, Instance

\* Two processes that own the named file are one.
LEMMA OwnerIsUnique ==
    ASSUME Inv, NEW p \in Process, NEW q \in Process,
           pc[p] \in Instance \cup {"unlink"},
           pc[q] \in Instance \cup {"unlink"}
    PROVE  p = q
  BY DEF Inv, OwnsFile

\* The end of p's image leaves the others their lock.
LEMMA ReleasedInv ==
    ASSUME Inv, NEW p \in Process, NEW step \in {"off", "start"},
           Goto(p, step), Released(p), UNCHANGED file
    PROVE  Inv'
  <1>1. Always'
    BY ReleasedAlways DEF Inv
  <1>2. \A q \in Process :
          /\ pc'[q] \in Instance \cup {"unlink"} => OwnsFile(q)'
          /\ pc'[q] = "lock" => path' = fd'[q]
          /\ pc'[q] \in {"arm", "handle", "run"} => says'[fd'[q]] = q
    <2> TAKE q \in Process
    <2>1. CASE q = p
      BY <2>1 DEF Inv, Always, TypeOK, Goto, Instance
    <2>2. CASE q # p
      <3>1. pc'[q] = pc[q] /\ fd'[q] = fd[q]
        BY <2>2 DEF Inv, Always, TypeOK, Goto, Released
      <3>2. ASSUME holder[fd[q]] = q, fd[q] \in Inode
            PROVE  holder'[fd[q]] = q
        BY <2>2, <3>2 DEF Released
      <3> QED
        BY <2>2, <3>1, <3>2
        DEF Inv, Always, TypeOK, OwnsFile, Instance, file
    <2> QED BY <2>1, <2>2
  <1> QED BY <1>1, <1>2 DEF Inv

LEMMA StepInv == ~Overlapping /\ Inv /\ [Next]_vars => Inv'
  <1> SUFFICES ASSUME ~Overlapping, Inv, [Next]_vars PROVE Inv'
    OBVIOUS
  <1> USE NoneAssumption
  <1>0. Always /\ Always'
    BY StepAlways DEF Inv
  <1> DEFINE Rest ==
        \A q \in Process :
            /\ pc[q] \in Instance \cup {"unlink"} => OwnsFile(q)
            /\ pc[q] = "lock" => path = fd[q]
            /\ pc[q] \in {"arm", "handle", "run"} => says[fd[q]] = q
  <1> SUFFICES Rest'
    BY <1>0 DEF Inv
  <1>1. CASE UNCHANGED vars
    BY <1>1 DEF Inv, OwnsFile, vars, file, flags
  <1>2. ASSUME NEW p \in Process, Launch(p) PROVE Rest'
    BY <1>0, <1>2 DEF Launch, Goto, Inv, Always, TypeOK, OwnsFile, Instance,
                      file, flags
  <1>3. ASSUME NEW p \in Process, Open(p) PROVE Rest'
    <2>1. PICK n \in Inode :
            /\ path' = n
            /\ path # None => n = path
            /\ fd' = [fd EXCEPT ![p] = n]
            /\ says' = IF path = None THEN [says EXCEPT ![n] = None] ELSE says
      BY <1>0, <1>3 DEF Open, Always, TypeOK
    <2>2. ASSUME NEW q \in Process, pc[q] \notin {"off", "start", "exec", "exit"}
          PROVE  path # None
      BY <1>0, <2>2 DEF Inv, Always, TypeOK, OwnsFile, Instance, Steps
    <2> QED
      BY <1>0, <1>3, <2>1, <2>2
      DEF Open, Goto, Inv, Always, TypeOK, OwnsFile, Instance, flags
  <1>4. ASSUME NEW p \in Process, Lock(p) PROVE Rest'
    <2>1. fd[p] \in Inode /\ path = fd[p] /\ holder[fd[p]] = None
      BY <1>0, <1>4 DEF Lock, Free, Inv, Always, TypeOK
    <2>2. \A q \in Process : pc[q] \notin Instance \cup {"unlink"}
      BY <2>1 DEF Inv, OwnsFile
    <2> QED
      BY <1>0, <1>4, <2>1, <2>2
      DEF Lock, Goto, Inv, Always, TypeOK, OwnsFile, Instance, file, flags
  <1>5. ASSUME NEW p \in Process, Truncate(p) \/ WritePid(p) PROVE Rest'
    <2>1. pc[p] \in Instance
      BY <1>5 DEF Truncate, WritePid, Instance
    <2>2. \A q \in Process : pc[q] \in Instance \cup {"unlink"} => q = p
      BY <2>1, OwnerIsUnique
    <2> QED
      BY <1>0, <1>5, <2>1, <2>2
      DEF Truncate, WritePid, Goto, Inv, Always, TypeOK, OwnsFile, Instance, flags
  <1>6. ASSUME NEW p \in Process,
               \/ Arm(p) \/ InstallHandlers(p) \/ LeaveLoop(p)
               \/ Terminate(p) \/ RequestRestart(p) \/ ExecFails(p)
        PROVE  Rest'
    BY <1>0, <1>6
    DEF Arm, InstallHandlers, LeaveLoop, Terminate, RequestRestart, ExecFails,
        Goto, Inv, Always, TypeOK, OwnsFile, Instance, file, flags
  <1>7. ASSUME NEW p \in Process, Unlink(p) PROVE Rest'
    <2>1. \A q \in Process : pc[q] # "lock"
      BY <1>7 DEF Unlink, Apart
    <2>2. \A q \in Process : pc[q] \in Instance \cup {"unlink"} => q = p
      BY <1>7, OwnerIsUnique DEF Unlink
    <2> QED
      BY <1>0, <1>7, <2>1, <2>2
      DEF Unlink, Goto, Always, TypeOK, Instance, flags
  <1>8. ASSUME NEW p \in Process,
               Refused(p) \/ DaemonizeFails(p) \/ Exit(p) \/ Die(p)
        PROVE  Rest'
    BY <1>8, ReleasedInv DEF Refused, DaemonizeFails, Exit, Die, Ends, Inv
  <1>9. ASSUME NEW p \in Process, Exec(p) PROVE Rest'
    BY <1>9, ReleasedInv DEF Exec, Inv
  <1> QED
    BY <1>1, <1>2, <1>3, <1>4, <1>5, <1>6, <1>7, <1>8, <1>9 DEF Next, Step

\* When starts and stops do not overlap, the lock of whoever is past it is on
\* the file that has the name, and that file names its owner.
THEOREM Invariance == ASSUME ~Overlapping PROVE Spec => []Inv
  <1>1. Init => Inv BY InitInv
  <1>2. Inv /\ [Next]_vars => Inv' BY StepInv
  <1> QED BY <1>1, <1>2, PTL DEF Spec

\* ... so one instance of a daemon runs (the lock of rss_daemonize),
THEOREM LockGivesOneInstance == ASSUME ~Overlapping PROVE Spec => []OneInstance
  <1>1. Inv => OneInstance BY OwnerIsUnique DEF OneInstance
  <1> QED BY <1>1, Invariance, PTL

\* ... and rss_daemon_check finds it.
THEOREM CheckFindsIt == ASSUME ~Overlapping PROVE Spec => []CheckAnswers
  <1>1. Inv => CheckAnswers
    BY NoneAssumption
    DEF Inv, Always, TypeOK, OwnsFile, Instance, CheckAnswers, Check, Alive
  <1> QED BY <1>1, Invariance, PTL
=============================================================================
