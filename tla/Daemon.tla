------------------------------- MODULE Daemon -------------------------------
(***************************************************************************)
(* The life of the processes of one daemon name: rss_daemonize with the   *)
(* pidfile and its flock, rss_signal_init, the requests to stop and to     *)
(* restart, and rss_daemon_cleanup.  The double fork hands the lock on     *)
(* and ends in one process, which is the one here.                         *)
(***************************************************************************)
CONSTANTS
    Process,
    Inode,          \* what the pidfile's name can point to
    None,           \* no process, or no inode
    Overlapping     \* whether the pidfile can be removed between the open and
                    \* the flock of another process

ASSUME OverlappingAssumption == Overlapping \in BOOLEAN
ASSUME NoneAssumption == None \notin Process \cup Inode

VARIABLES
    path,       \* the inode of the pidfile, or None
    says,       \* Inode -> the pid written in it, or None
    holder,     \* Inode -> the process that has it locked, or None
    fd,         \* Process -> the inode it has open (pid_fd), or None
    pc,         \* Process -> where it is
    running,    \* Process -> g_running
    restart,    \* Process -> g_restart
    asked       \* the processes that were told to stop or restart (for the
                \* properties; the program does not see it)

file  == <<path, says>>
flags == <<running, restart, asked>>
vars  == <<file, holder, fd, pc, flags>>

Steps == {"off", "start", "lock", "truncate", "write", "arm", "handle",
          "run", "unlink", "exec", "exit"}

\* The processes that have passed the lock and not begun to leave.
Instance == {"truncate", "write", "arm", "handle", "run"}

Goto(p, step) == pc' = [pc EXCEPT ![p] = step]

Init ==
    /\ path = None
    /\ says = [n \in Inode |-> None]
    /\ holder = [n \in Inode |-> None]
    /\ fd = [p \in Process |-> None]
    /\ pc = [p \in Process |-> "off"]
    /\ running = [p \in Process |-> TRUE]
    /\ restart = [p \in Process |-> FALSE]
    /\ asked = {}

\* The kernel closes p's descriptors, and with them p's lock; the statics of
\* the next image start at their initial values.
Released(p) ==
    /\ holder' = [n \in Inode |-> IF holder[n] = p THEN None ELSE holder[n]]
    /\ fd' = [fd EXCEPT ![p] = None]
    /\ running' = [running EXCEPT ![p] = TRUE]
    /\ restart' = [restart EXCEPT ![p] = FALSE]
    /\ asked' = asked \ {p}

\* Who starts and stops the daemons (an init script, one command at a time)
\* keeps a start and the end of a stop apart, unless Overlapping.
Apart(step) == Overlapping \/ \A q \in Process : pc[q] # step

Ends(p) == Goto(p, "off") /\ Released(p) /\ UNCHANGED file

-----------------------------------------------------------------------------
(* rss_daemonize and rss_signal_init.                                      *)

Launch(p) ==
    /\ pc[p] = "off"
    /\ Goto(p, "start")
    /\ UNCHANGED <<file, holder, fd, flags>>

\* (mutant: O_TRUNC, before the lock is held)
OpenTruncates(p) ==
    /\ pc[p] = "start"
    /\ Apart("unlink")
    /\ \E n \in IF path = None THEN Inode \ {fd[q] : q \in Process} ELSE {path} :
         /\ path' = n
         /\ fd' = [fd EXCEPT ![p] = n]
         /\ says' = [says EXCEPT ![n] = None]
    /\ Goto(p, "lock")
    /\ UNCHANGED <<holder, flags>>

\* open(path, O_WRONLY | O_CREAT | O_CLOEXEC)
Open(p) ==
    /\ pc[p] = "start"
    /\ Apart("unlink")
    /\ \E n \in IF path = None THEN Inode \ {fd[q] : q \in Process} ELSE {path} :
         /\ path' = n
         /\ fd' = [fd EXCEPT ![p] = n]
         /\ says' = IF path = None THEN [says EXCEPT ![n] = None] ELSE says
    /\ Goto(p, "lock")
    /\ UNCHANGED <<holder, flags>>

\* (mutant: a shared lock)
FreeShared(n) == TRUE

Free(n) == holder[n] = None

\* flock(LOCK_EX | LOCK_NB)
Lock(p) ==
    /\ pc[p] = "lock"
    /\ Free(fd[p])
    /\ holder' = [holder EXCEPT ![fd[p]] = p]
    /\ Goto(p, "truncate")
    /\ UNCHANGED <<file, fd, flags>>

\* "already running"
Refused(p) ==
    /\ pc[p] = "lock"
    /\ ~Free(fd[p])
    /\ Ends(p)

Truncate(p) ==
    /\ pc[p] = "truncate"
    /\ says' = [says EXCEPT ![fd[p]] = None]
    /\ Goto(p, "write")
    /\ UNCHANGED <<path, holder, fd, flags>>

WritePid(p) ==
    /\ pc[p] = "write"
    /\ says' = [says EXCEPT ![fd[p]] = p]
    /\ Goto(p, "arm")
    /\ UNCHANGED <<path, holder, fd, flags>>

\* open, fork, setsid or write fails: rss_daemon_init answers -1.
DaemonizeFails(p) ==
    /\ pc[p] \in {"start", "truncate", "write"}
    /\ Ends(p)

\* g_running = 1
Arm(p) ==
    /\ pc[p] = "arm"
    /\ running' = [running EXCEPT ![p] = TRUE]
    /\ Goto(p, "handle")
    /\ UNCHANGED <<file, holder, fd, restart, asked>>

\* sigaction for SIGTERM and SIGINT
InstallHandlers(p) ==
    /\ pc[p] = "handle"
    /\ Goto(p, "run")
    /\ UNCHANGED <<file, holder, fd, flags>>

-----------------------------------------------------------------------------
(* Requests.                                                               *)

\* (mutant: the handlers are installed before g_running is set)
HandledEarly(p) == pc[p] \in {"arm", "handle", "run", "unlink", "exec", "exit"}

\* The handler is in place from its installation to the end of the image.
Handled(p) == pc[p] \in {"run", "unlink", "exec", "exit"}

\* SIGTERM or SIGINT with its handler, or the command "shutdown".
Terminate(p) ==
    /\ Handled(p)
    /\ running' = [running EXCEPT ![p] = FALSE]
    /\ asked' = asked \cup {p}
    /\ UNCHANGED <<file, holder, fd, pc, restart>>

\* (mutant: only the restart flag is set)
RequestRestartOnly(p) ==
    /\ pc[p] = "run"
    /\ restart' = [restart EXCEPT ![p] = TRUE]
    /\ asked' = asked \cup {p}
    /\ UNCHANGED <<file, holder, fd, pc, running>>

\* The command "restart", handled in the main loop.
RequestRestart(p) ==
    /\ pc[p] = "run"
    /\ restart' = [restart EXCEPT ![p] = TRUE]
    /\ running' = [running EXCEPT ![p] = FALSE]
    /\ asked' = asked \cup {p}
    /\ UNCHANGED <<file, holder, fd, pc>>

-----------------------------------------------------------------------------
(* The end.                                                                *)

\* The main loop sees g_running cleared.
LeaveLoop(p) ==
    /\ pc[p] = "run"
    /\ ~running[p]
    /\ Goto(p, "unlink")
    /\ UNCHANGED <<file, holder, fd, flags>>

\* rss_daemon_cleanup, whatever file the name points to by now.
Unlink(p) ==
    /\ pc[p] = "unlink"
    /\ Apart("lock")
    /\ path' = None
    /\ Goto(p, IF restart[p] THEN "exec" ELSE "exit")
    /\ UNCHANGED <<says, holder, fd, flags>>

\* (mutant: no O_CLOEXEC: the new image inherits the lock)
ExecKeepsLock(p) ==
    /\ pc[p] \in {"exec", "run"}
    /\ Goto(p, "start")
    /\ fd' = [fd EXCEPT ![p] = None]
    /\ running' = [running EXCEPT ![p] = TRUE]
    /\ restart' = [restart EXCEPT ![p] = FALSE]
    /\ asked' = asked \ {p}
    /\ UNCHANGED <<file, holder>>

\* execv: at the end of the cleanup, or by a daemon that calls
\* rss_daemon_exec from its loop to recover.
Exec(p) ==
    /\ pc[p] \in {"exec", "run"}
    /\ Goto(p, "start")
    /\ Released(p)
    /\ UNCHANGED file

ExecFails(p) ==
    /\ pc[p] = "exec"
    /\ Goto(p, "exit")
    /\ UNCHANGED <<file, holder, fd, flags>>

Exit(p) == pc[p] = "exit" /\ Ends(p)

\* SIGKILL, a crash, or a SIGTERM before its handler: the pidfile stays.
Die(p) == pc[p] # "off" /\ Ends(p)

\* What p does by itself once it is launched.
Step(p) ==
    \/ Open(p) \/ Lock(p) \/ Refused(p) \/ Truncate(p) \/ WritePid(p)
    \/ Arm(p) \/ InstallHandlers(p)
    \/ LeaveLoop(p) \/ Unlink(p) \/ (pc[p] = "exec" /\ Exec(p)) \/ Exit(p)

Next ==
    \E p \in Process :
        \/ Step(p) \/ Launch(p) \/ DaemonizeFails(p)
        \/ Terminate(p) \/ RequestRestart(p)
        \/ Exec(p) \/ ExecFails(p) \/ Die(p)

Spec == Init /\ [][Next]_vars

\* A process that is not blocked goes on; every daemon's loop looks at
\* g_running.
FairSpec == Spec /\ \A p \in Process : WF_vars(Step(p))

-----------------------------------------------------------------------------
(* rss_daemon_check                                                        *)

Alive(p) == pc[p] # "off"

Check ==
    IF path # None /\ says[path] # None /\ Alive(says[path])
    THEN says[path] ELSE None

-----------------------------------------------------------------------------
(* Properties.                                                             *)

\* The state has its types; a process that is not there has nothing open.
TypeOK ==
    /\ path \in Inode \cup {None}
    /\ says \in [Inode -> Process \cup {None}]
    /\ holder \in [Inode -> Process \cup {None}]
    /\ fd \in [Process -> Inode \cup {None}]
    /\ pc \in [Process -> Steps]
    /\ running \in [Process -> BOOLEAN]
    /\ restart \in [Process -> BOOLEAN]
    /\ asked \subseteq Process
    /\ \A p \in Process : (fd[p] = None) <=> (pc[p] \in {"off", "start"})

\* rss_daemonize lets one instance of a daemon run at a time: its lock is
\* taken before anything else is done, and held until it begins to leave.
OneInstance ==
    \A p, q \in Process : pc[p] \in Instance /\ pc[q] \in Instance => p = q

\* rss_daemon_check finds the daemon that runs, however many others were
\* started, refused, killed or restarted meanwhile.
CheckAnswers == \A p \in Process : pc[p] = "run" => Check = p

\* A daemon that executes itself again never meets its own lock.
RestartIsNotRefused ==
    [][\A p \in Process : Refused(p) => holder[fd[p]] # p]_vars

\* No request is lost: a daemon that was told to stop or to restart, at
\* whatever moment of its start, does not go on looping.
NoRequestIsLost == \A p \in asked : pc[p] = "run" => ~running[p]

\* ... and its image comes to an end.
RequestEnds == \A p \in Process : p \in asked ~> p \notin asked

\* What holds however starts and stops overlap: a request finds its image with
\* g_running cleared for good, and who has not passed the lock holds none.
Heard == \A p \in asked : Handled(p) /\ ~running[p]

HoldsNothing ==
    \A p \in Process, n \in Inode :
        pc[p] \in {"off", "start", "lock"} => holder[n] # p

Always == TypeOK /\ Heard /\ HoldsNothing

\* The lock of p is on the file that has the name.
OwnsFile(p) ==
    /\ holder[fd[p]] = p
    /\ path = fd[p]

\* The inductive invariant behind the properties above: from the lock to the
\* unlink a process owns the named file, and once written its pid stays there.
Inv ==
    /\ Always
    /\ \A p \in Process :
         /\ pc[p] \in Instance \cup {"unlink"} => OwnsFile(p)
         /\ pc[p] = "lock" => path = fd[p]
         /\ pc[p] \in {"arm", "handle", "run"} => says[fd[p]] = p
=============================================================================
