------------------------------- MODULE SignKey -------------------------------
(***************************************************************************)
(* rss_sign_key_load by several daemons: whoever finds no key file makes  *)
(* one, the others read it, and each exports the public half beside it.   *)
(* A file that is unlinked stays readable for who has it open.             *)
(***************************************************************************)
EXTENDS Naturals

CONSTANTS
    Process,
    Inode,
    Key,        \* 32 random bytes, and the key pair that follows from them
    None,
    Short,      \* what a file holds that has no 32 bytes
    Retries,    \* the bound on attempt
    Faults      \* "crash": a process dies; "disk": a system call fails

ASSUME FaultsAssumption == Faults \subseteq {"crash", "disk"}
ASSUME RetriesAssumption == Retries \in Nat
ASSUME NoneAssumption == None \notin Process \cup Inode \cup Key /\ Short \notin Key

VARIABLES
    node,       \* Inode -> Short or a key
    path,       \* the inode of key_path, or None
    pub,        \* the key whose public half key_path.pub has, or None
    pc,         \* Process -> its place in rss_sign_key_load
    fd,         \* Process -> the inode it has open, or None
    seed,       \* Process -> the key it has made or read, or None
    attempt,    \* Process -> attempt
    reported,   \* the keys a load that made them has returned, and ...
    withdrawn   \* ... those whose load failed and took their file away (both
                \* for the properties)

files == <<node, path, pub>>
local == <<pc, fd, seed, attempt>>
past  == <<reported, withdrawn>>
vars  == <<files, local, past>>

Steps == {"off", "open", "read", "create", "write", "sync", "unlink",
          "export", "done", "failed"}

Loading == Steps \ {"off", "done", "failed"}

Goto(p, step) == pc' = [pc EXCEPT ![p] = step]

Init ==
    /\ node = [n \in Inode |-> Short]
    /\ path = None
    /\ pub = None
    /\ pc = [p \in Process |-> "off"]
    /\ fd = [p \in Process |-> None]
    /\ seed = [p \in Process |-> None]
    /\ attempt = [p \in Process |-> 0]
    /\ reported = {}
    /\ withdrawn = {}

Load(p) ==
    /\ pc[p] = "off"
    /\ Goto(p, "open")
    /\ UNCHANGED <<files, fd, seed, attempt, past>>

\* return -1, with the seed wiped
Fails(p) ==
    /\ Goto(p, "failed")
    /\ fd' = [fd EXCEPT ![p] = None]
    /\ seed' = [seed EXCEPT ![p] = None]
    /\ attempt' = [attempt EXCEPT ![p] = 0]

\* (mutant: only the reads of a file are counted)
AgainUncounted(p) ==
    /\ Goto(p, "open")
    /\ fd' = [fd EXCEPT ![p] = None]
    /\ seed' = [seed EXCEPT ![p] = None]
    /\ UNCHANGED attempt

\* continue, one attempt on
Again(p) ==
    /\ Goto(p, "open")
    /\ fd' = [fd EXCEPT ![p] = None]
    /\ seed' = [seed EXCEPT ![p] = None]
    /\ attempt' = [attempt EXCEPT ![p] = @ + 1]

RetryOrFail(p) == IF attempt[p] < Retries THEN Again(p) ELSE Fails(p)

\* Random bytes that nobody has seen.
FreshKeys == Key \ ({node[n] : n \in Inode} \cup {seed[p] : p \in Process}
                    \cup {pub} \cup reported \cup withdrawn)

\* open(key_path, O_RDONLY); when there is none, the random bytes of one.
Open(p) ==
    /\ pc[p] = "open"
    /\ IF path # None
       THEN /\ fd' = [fd EXCEPT ![p] = path]
            /\ Goto(p, "read")
            /\ UNCHANGED seed
       ELSE /\ \E k \in FreshKeys : seed' = [seed EXCEPT ![p] = k]
            /\ Goto(p, "create")
            /\ UNCHANGED fd
    /\ UNCHANGED <<files, attempt, past>>

\* read of 32 bytes
Read(p) ==
    /\ pc[p] = "read"
    /\ IF node[fd[p]] \in Key
       THEN /\ seed' = [seed EXCEPT ![p] = node[fd[p]]]
            /\ fd' = [fd EXCEPT ![p] = None]
            /\ Goto(p, "export")
            /\ UNCHANGED attempt
       ELSE RetryOrFail(p)
    /\ UNCHANGED <<files, past>>

Unused == Inode \ ({path} \cup {fd[p] : p \in Process})

\* (mutant: no O_EXCL, but O_TRUNC)
CreateOver(p) ==
    /\ pc[p] = "create"
    /\ \E n \in IF path = None THEN Unused ELSE {path} :
         /\ path' = n
         /\ node' = [node EXCEPT ![n] = Short]
         /\ fd' = [fd EXCEPT ![p] = n]
    /\ Goto(p, "write")
    /\ UNCHANGED <<pub, seed, attempt, past>>

\* (mutant: the way out after a failed creation unlinks, too)
CreateUnlinks(p) ==
    /\ pc[p] = "create"
    /\ IF path = None
       THEN /\ \E n \in Unused :
                 /\ path' = n
                 /\ node' = [node EXCEPT ![n] = Short]
                 /\ fd' = [fd EXCEPT ![p] = n]
            /\ Goto(p, "write")
            /\ UNCHANGED <<seed, attempt>>
       ELSE /\ RetryOrFail(p)
            /\ path' = IF attempt[p] < Retries THEN path ELSE None
            /\ UNCHANGED node
    /\ UNCHANGED <<pub, past>>

\* open(key_path, O_WRONLY | O_CREAT | O_EXCL)
Create(p) ==
    /\ pc[p] = "create"
    /\ IF path = None
       THEN /\ \E n \in Unused :
                 /\ path' = n
                 /\ node' = [node EXCEPT ![n] = Short]
                 /\ fd' = [fd EXCEPT ![p] = n]
            /\ Goto(p, "write")
            /\ UNCHANGED <<seed, attempt>>
       ELSE /\ RetryOrFail(p)                      \* EEXIST
            /\ UNCHANGED <<path, node>>
    /\ UNCHANGED <<pub, past>>

Write(p) ==
    /\ pc[p] = "write"
    /\ node' = [node EXCEPT ![fd[p]] = seed[p]]
    /\ Goto(p, "sync")
    /\ UNCHANGED <<path, pub, fd, seed, attempt, past>>

\* fsync and close
Sync(p) ==
    /\ pc[p] = "sync"
    /\ reported' = reported \cup {seed[p]}
    /\ fd' = [fd EXCEPT ![p] = None]
    /\ Goto(p, "export")
    /\ UNCHANGED <<files, seed, attempt, withdrawn>>

\* A short write or a failing fsync.
PersistFails(p) ==
    /\ "disk" \in Faults
    /\ pc[p] \in {"write", "sync"}
    /\ Goto(p, "unlink")
    /\ UNCHANGED <<files, fd, seed, attempt, past>>

\* Nobody looks at the result of unlink, which may fail like the write or the
\* fsync before it: then the file stays, with the key or with none, and the
\* later loads find it there.
Unlink(p) ==
    /\ pc[p] = "unlink"
    /\ \/ path' = None /\ withdrawn' = withdrawn \cup {seed[p]}
       \/ UNCHANGED <<path, withdrawn>>
    /\ Fails(p)
    /\ UNCHANGED <<node, pub, reported>>

\* /dev/urandom, or the open that creates the file, fails.
MakeFails(p) ==
    /\ "disk" \in Faults
    /\ pc[p] \in {"open", "create"} /\ path = None
    /\ Fails(p)
    /\ UNCHANGED <<files, past>>

\* write_file_mode of key_path.pub, whose failure is only logged; return 0.
Export(p) ==
    /\ pc[p] = "export"
    /\ \/ pub' = seed[p]
       \/ "disk" \in Faults /\ pub' \in {None, pub}
    /\ Goto(p, "done")
    /\ attempt' = [attempt EXCEPT ![p] = 0]
    /\ UNCHANGED <<node, path, fd, seed, past>>

\* A daemon ends, after the load or, if it crashes, within it.
End(p) ==
    /\ \/ pc[p] \in {"done", "failed"}
       \/ "crash" \in Faults /\ pc[p] \in Loading
    /\ Goto(p, "off")
    /\ fd' = [fd EXCEPT ![p] = None]
    /\ seed' = [seed EXCEPT ![p] = None]
    /\ attempt' = [attempt EXCEPT ![p] = 0]
    /\ UNCHANGED <<files, past>>

Step(p) ==
    \/ Open(p) \/ Read(p) \/ Create(p) \/ Write(p) \/ Sync(p)
    \/ PersistFails(p) \/ Unlink(p) \/ MakeFails(p) \/ Export(p)

Next == \E p \in Process : Load(p) \/ Step(p) \/ End(p)

Spec == Init /\ [][Next]_vars

\* A load is not suspended for ever; nothing else is needed.
FairSpec == Spec /\ \A p \in Process : WF_vars(Step(p))

-----------------------------------------------------------------------------
(* Properties.                                                             *)

\* The state has its types; a daemon signs only with 32 bytes that were read
\* or made whole.
TypeOK ==
    /\ node \in [Inode -> Key \cup {Short}]
    /\ path \in Inode \cup {None}
    /\ pub \in Key \cup {None}
    /\ pc \in [Process -> Steps]
    /\ fd \in [Process -> Inode \cup {None}]
    /\ seed \in [Process -> Key \cup {None}]
    /\ attempt \in [Process -> 0..Retries]
    /\ reported \subseteq Key
    /\ withdrawn \subseteq Key

InFile(k) == path # None /\ node[path] = k

\* One key per device: whoever makes it, is refused its creation, reads it
\* while it is written or dies over it, the daemons that have loaded a key
\* and the public half have the one the file keeps -- but for those that read
\* a key before its maker, whose fsync failed, took the file away.  A key that
\* an unlink failed to take away is the file's, and theirs.
KeysAgree ==
    /\ \A p \in Process :
         pc[p] \in {"export", "done"} => InFile(seed[p]) \/ seed[p] \in withdrawn
    /\ pub # None => InFile(pub) \/ pub \in withdrawn

\* A key that was returned is there for ever: no other load, however late or
\* unlucky, writes over it or removes it.
ReportedStays ==
    reported # {} => path # None /\ reported = {node[path]}

\* The inductive invariant: a daemon that makes a key has one nobody else has,
\* and from the creation of the file until its fsync, or the unlink, the file is
\* its own and no key was reported; a key that was taken away does not return.
WithdrawnIsGone == path # None => node[path] \notin withdrawn

Makers == {"create", "write", "sync", "unlink"}
Owners == Makers \ {"create"}

Reading(p) ==
    pc[p] = "read" =>
        fd[p] # None /\ (fd[p] = path \/ node[fd[p]] \in withdrawn \cup {Short})

Fresh(p) ==
    pc[p] \in Makers =>
        /\ seed[p] \in Key \ withdrawn
        /\ \A q \in Process : pc[q] \in Makers /\ seed[q] = seed[p] => q = p

Owned(p) ==
    pc[p] \in Owners =>
        /\ path # None /\ fd[p] = path
        /\ reported = {}
        /\ \A q \in Process : pc[q] \in Owners => q = p
        /\ node[path] \in CASE pc[p] = "write" -> {Short}
                            [] pc[p] = "sync"  -> {seed[p]}
                            [] OTHER           -> {Short, seed[p]}

Loaded(p) == pc[p] \in {"export", "done"} => seed[p] \in Key

Inv ==
    /\ TypeOK
    /\ \A p \in Process : Reading(p) /\ Fresh(p) /\ Owned(p) /\ Loaded(p)
    /\ KeysAgree /\ ReportedStays /\ WithdrawnIsGone

\* Every load returns, also when the file of a crashed one stays short.
LoadReturns == \A p \in Process : pc[p] \in Loading ~> pc[p] \notin Loading
=============================================================================
