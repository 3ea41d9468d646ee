----------------------------- MODULE ConfigSave -----------------------------
(***************************************************************************)
(* rss_config_save and rss_write_file_atomic, one system call at a time,   *)
(* run by several daemons on one file.  A daemon is single-threaded: while *)
(* it saves, its memory does not change under it.                          *)
(*                                                                         *)
(* The names path, path.tmp and what is durable of the directory point to  *)
(* inodes; an inode holds what the text written so far says (two writers   *)
(* of one inode overwrite each other's bytes at the same offsets, which    *)
(* here is the same items).                                                *)
(***************************************************************************)
EXTENDS ConfigMemory

CONSTANTS
    Daemon,
    Inode,
    None,       \* no inode, or no process
    NoFile,
    Faults      \* what may go wrong, see FaultKinds

\* crash:  a daemon dies between two steps
\* power:  the machine loses power
\* disk:   open, write, fsync or rename of the temporary file fails
\* nomem:  an allocation fails before anything is written
\* delete: somebody removes the file while nobody saves
\* eintr:  a signal ends the wait for the lock, or the lock cannot be opened
\* read:   reading an existing file fails
\* dirsync: the directory is not synced: no memory for its name, no slash in
\*         the path, or its open or fsync fails
FaultKinds == {"crash", "power", "disk", "nomem", "delete", "eintr", "read",
               "dirsync"}

ASSUME FaultsAssumption == Faults \subseteq FaultKinds
ASSUME NoneAssumption == None \notin Inode \cup Daemon
ASSUME NoFileAssumption == NoFile \notin Contents

VARIABLES
    node,       \* Inode -> what its data says
    synced,     \* the inodes whose data an fsync has reached
    path,       \* the inode of the config file, or None
    tmp,        \* the inode of path.tmp, or None
    dpath,      \* the inode path has after a power loss
    since,      \* the inodes path has had since a sync of its directory last
                \* passed, but those freed (a history: no step looks at it)
    lock,       \* the holder of the flock on path.lock, or None
    up,         \* the daemons that run
    mem,        \* Daemon -> its memory
    pc,         \* Daemon -> the next step of its save
    image,      \* Daemon -> the text it writes
    left,       \* Daemon -> the part of image it has yet to write
    fd          \* Daemon -> the inode its descriptor is open on, or None

names == <<path, tmp, dpath, since>>
disk  == <<node, synced>>
local == <<image, left, fd>>
vars  == <<disk, names, lock, up, mem, pc, local>>

Steps == {"idle", "lock", "read", "open", "write", "sync", "rename",
          "syncdir", "clear", "unlock"}

\* The steps a daemon takes between the acquisition and the release.
Critical == Steps \ {"idle", "lock"}

ConfigFile == IF path = None THEN NoFile ELSE node[path]

Goto(d, step) == pc' = [pc EXCEPT ![d] = step]

Init ==
    /\ \E n \in Inode, text \in Contents :
         /\ node = [m \in Inode |-> IF m = n THEN text ELSE EmptyContents]
         /\ synced = {n}
         /\ path = n
         /\ dpath = n
         /\ since = {n}
    /\ tmp = None
    /\ lock = None
    /\ up = {}
    /\ mem = [d \in Daemon |-> Loaded(EmptyContents)]
    /\ pc = [d \in Daemon |-> "idle"]
    /\ image = [d \in Daemon |-> EmptyContents]
    /\ left = [d \in Daemon |-> {}]
    /\ fd = [d \in Daemon |-> None]

-----------------------------------------------------------------------------
(* Between saves.                                                          *)

\* rss_daemon_init: no config file, no daemon.
Start(d) ==
    /\ d \notin up
    /\ path # None
    /\ up' = up \cup {d}
    /\ mem' = [mem EXCEPT ![d] = Loaded(node[path])]
    /\ UNCHANGED <<disk, names, lock, pc, local>>

Set(d, i, v) ==
    /\ i[1] # Global
    /\ mem' = [mem EXCEPT ![d] = SetIn(mem[d], i, v)]

Unset(d, i) ==
    /\ mem[d].view[i] # Missing
    /\ mem' = [mem EXCEPT ![d] = UnsetIn(mem[d], i)]

RemoveSection(d, s) ==
    /\ s # Global
    /\ mem' = [mem EXCEPT ![d] = RemoveIn(mem[d], s)]

Change(d) ==
    /\ d \in up
    /\ pc[d] = "idle"
    /\ \/ \E i \in Item, v \in Value : Set(d, i, v)
       \/ \E i \in Item : Unset(d, i)
       \/ \E s \in Section : RemoveSection(d, s)
    /\ UNCHANGED <<disk, names, lock, up, pc, local>>

-----------------------------------------------------------------------------
(* The save.                                                               *)

\* collect_dirty, and access(path, F_OK): a save with nothing dirty and a
\* file in place returns 0 without taking the lock.
SaveBegin(d) ==
    /\ d \in up
    /\ pc[d] = "idle"
    /\ HasDirty(mem[d]) \/ path = None
    /\ Goto(d, "lock")
    /\ UNCHANGED <<disk, names, lock, up, mem, local>>

\* (mutant: a shared lock excludes nobody)
LockIsFreeShared == TRUE

LockIsFree == lock = None

\* flock(LOCK_EX).  When it is interrupted, or the lock file could not be
\* opened, nothing looks at the result, and the save goes on.
Acquire(d) ==
    /\ pc[d] = "lock"
    /\ \/ LockIsFree /\ lock' = d
       \/ "eintr" \in Faults /\ lock' = lock
    /\ Goto(d, "read")
    /\ UNCHANGED <<disk, names, up, mem, local>>

\* (mutant: the whole memory is written over the file)
NewImageWhole(d) == mem[d].view

\* The text to write, from the file as it is at this moment.
NewImage(d) ==
    IF path = None THEN mem[d].view ELSE Overlay(node[path], mem[d])

Read(d) ==
    /\ pc[d] = "read"
    /\ \/ image' = [image EXCEPT ![d] = NewImage(d)]
       \* rss_read_file answers NULL for a file that is there, which
       \* rss_config_save takes for a file that is not.
       \/ /\ "read" \in Faults
          /\ image' = [image EXCEPT ![d] = mem[d].view]
    /\ Goto(d, "open")
    /\ UNCHANGED <<disk, names, lock, up, mem, left, fd>>

\* malloc fails while the text is built: save returns -1.
OutOfMemory(d) ==
    /\ "nomem" \in Faults
    /\ pc[d] = "read"
    /\ Goto(d, "unlock")
    /\ UNCHANGED <<disk, names, lock, up, mem, local>>

InUse == {path, tmp, dpath} \cup {fd[d] : d \in Daemon}

\* open(path.tmp, O_WRONLY | O_CREAT | O_TRUNC): a file left there by a save
\* that died is truncated and reused.
OpenTmp(d) ==
    /\ pc[d] = "open"
    /\ \E n \in IF tmp = None THEN Inode \ InUse ELSE {tmp} :
         /\ tmp' = n
         /\ node' = [node EXCEPT ![n] = EmptyContents]
         /\ synced' = synced \ {n}
         /\ since' = since \ {n}
         /\ fd' = [fd EXCEPT ![d] = n]
    /\ left' = [left EXCEPT ![d] = Item]
    /\ Goto(d, "write")
    /\ UNCHANGED <<path, dpath, lock, up, mem, image>>

\* One write() takes any part of what is left.
Write(d) ==
    /\ pc[d] = "write"
    /\ \E part \in SUBSET left[d] \ {{}} :
         /\ node' = [node EXCEPT ![fd[d]] =
                       [i \in Item |-> IF i \in part THEN image[d][i]
                                       ELSE node[fd[d]][i]]]
         /\ left' = [left EXCEPT ![d] = left[d] \ part]
    /\ synced' = synced \ {fd[d]}
    /\ UNCHANGED <<names, lock, up, mem, pc, image, fd>>

\* (mutant: a short write is taken for a complete one)
WriteDoneShort(d) ==
    /\ pc[d] = "write"
    /\ Goto(d, "sync")
    /\ UNCHANGED <<disk, names, lock, up, mem, local>>

\* The loop ends when nothing remains.
WriteDone(d) ==
    /\ pc[d] = "write"
    /\ left[d] = {}
    /\ Goto(d, "sync")
    /\ UNCHANGED <<disk, names, lock, up, mem, local>>

\* (mutant: close without fsync)
SyncSkipped(d) ==
    /\ pc[d] = "sync"
    /\ fd' = [fd EXCEPT ![d] = None]
    /\ Goto(d, "rename")
    /\ UNCHANGED <<disk, names, lock, up, mem, image, left>>

\* fsync and close
Sync(d) ==
    /\ pc[d] = "sync"
    /\ synced' = synced \cup {fd[d]}
    /\ fd' = [fd EXCEPT ![d] = None]
    /\ Goto(d, "rename")
    /\ UNCHANGED <<node, names, lock, up, mem, image, left>>

Rename(d) ==
    /\ pc[d] = "rename"
    /\ tmp # None
    /\ path' = tmp
    /\ tmp' = None
    /\ since' = (since \cap {dpath}) \cup {tmp}
    /\ Goto(d, "syncdir")
    /\ UNCHANGED <<disk, dpath, lock, up, mem, local>>

\* (mutant: the result of rss_write_file_atomic is not looked at)
DiskFailsUnnoticed(d) ==
    /\ "disk" \in Faults /\ pc[d] \in {"open", "write", "sync", "rename"}
    /\ tmp' = IF pc[d] = "open" THEN tmp ELSE None
    /\ fd' = [fd EXCEPT ![d] = None]
    /\ left' = [left EXCEPT ![d] = {}]
    /\ Goto(d, "clear")
    /\ UNCHANGED <<disk, path, dpath, since, lock, up, mem, image>>

\* A failing open, write, fsync or rename: unlink path.tmp, return -1.
DiskFails(d) ==
    /\ \/ "disk" \in Faults /\ pc[d] \in {"open", "write", "sync", "rename"}
       \/ pc[d] = "rename" /\ tmp = None        \* ENOENT
    /\ tmp' = IF pc[d] = "open" THEN tmp ELSE None
    /\ fd' = [fd EXCEPT ![d] = None]
    /\ left' = [left EXCEPT ![d] = {}]
    /\ Goto(d, "unlock")
    /\ UNCHANGED <<disk, path, dpath, since, lock, up, mem, image>>

\* (mutant: another directory is synced)
SyncDirOther(d) ==
    /\ pc[d] = "syncdir"
    /\ since' = {path}
    /\ Goto(d, "clear")
    /\ UNCHANGED <<disk, path, tmp, dpath, lock, up, mem, local>>

\* fsync of the directory
SyncDir(d) ==
    /\ pc[d] = "syncdir"
    /\ dpath' = path
    /\ since' = {path}
    /\ Goto(d, "clear")
    /\ UNCHANGED <<disk, path, tmp, lock, up, mem, local>>

\* ... or not: the directory's name cannot be copied or has no slash, its
\* open or its fsync fails.  Nobody looks, and the save returns 0.
SyncDirFails(d) ==
    /\ "dirsync" \in Faults
    /\ pc[d] = "syncdir"
    /\ Goto(d, "clear")
    /\ UNCHANGED <<disk, names, lock, up, mem, local>>

\* The save succeeded: nothing is dirty any more.
ClearDirty(d) ==
    /\ pc[d] = "clear"
    /\ mem' = [mem EXCEPT ![d] = Settled(mem[d])]
    /\ Goto(d, "unlock")
    /\ UNCHANGED <<disk, names, lock, up, local>>

\* (mutant: the descriptor of the lock file leaks)
UnlockForgotten(d) ==
    /\ pc[d] = "unlock"
    /\ image' = [image EXCEPT ![d] = EmptyContents]
    /\ Goto(d, "idle")
    /\ UNCHANGED <<disk, names, lock, up, mem, left, fd>>

\* flock(LOCK_UN), close, return
Unlock(d) ==
    /\ pc[d] = "unlock"
    /\ lock' = IF lock = d THEN None ELSE lock
    /\ image' = [image EXCEPT ![d] = EmptyContents]
    /\ Goto(d, "idle")
    /\ UNCHANGED <<disk, names, up, mem, left, fd>>

SaveStep(d) ==
    \/ Acquire(d) \/ Read(d) \/ OutOfMemory(d)
    \/ OpenTmp(d) \/ Write(d) \/ WriteDone(d) \/ Sync(d) \/ Rename(d)
    \/ DiskFails(d) \/ SyncDir(d) \/ SyncDirFails(d) \/ ClearDirty(d) \/ Unlock(d)

-----------------------------------------------------------------------------
(* The environment.                                                        *)

\* A daemon ends between two saves.
Stop(d) ==
    /\ d \in up
    /\ pc[d] = "idle"
    /\ up' = up \ {d}
    /\ mem' = [mem EXCEPT ![d] = Loaded(EmptyContents)]
    /\ UNCHANGED <<disk, names, lock, pc, local>>

\* A daemon dies in the middle of one: the kernel closes its descriptors and
\* releases its lock, and path.tmp stays.
Crash(d) ==
    /\ "crash" \in Faults
    /\ pc[d] # "idle"
    /\ up' = up \ {d}
    /\ mem' = [mem EXCEPT ![d] = Loaded(EmptyContents)]
    /\ pc' = [pc EXCEPT ![d] = "idle"]
    /\ image' = [image EXCEPT ![d] = EmptyContents]
    /\ left' = [left EXCEPT ![d] = {}]
    /\ fd' = [fd EXCEPT ![d] = None]
    /\ lock' = IF lock = d THEN None ELSE lock
    /\ UNCHANGED <<disk, names>>

\* Everything stops.  The directory is as it is or as it was last synced;
\* data no fsync has reached is lost.
PowerLoss ==
    /\ "power" \in Faults
    /\ path' \in {path, dpath}
    /\ dpath' = path'
    /\ tmp' = None
    /\ node' = [n \in Inode |-> IF n \in synced THEN node[n] ELSE EmptyContents]
    /\ since' = {path'}
    /\ synced' = Inode
    /\ lock' = None
    /\ up' = {}
    /\ mem' = [d \in Daemon |-> Loaded(EmptyContents)]
    /\ pc' = [d \in Daemon |-> "idle"]
    /\ image' = [d \in Daemon |-> EmptyContents]
    /\ left' = [d \in Daemon |-> {}]
    /\ fd' = [d \in Daemon |-> None]

\* The kernel writes the directory back in its own time (which only a power
\* loss can tell).
Writeback ==
    /\ "power" \in Faults
    /\ dpath' = path
    /\ UNCHANGED <<disk, path, tmp, since, lock, up, mem, pc, local>>

Delete ==
    /\ "delete" \in Faults
    /\ \A d \in Daemon : pc[d] = "idle"
    /\ path' = None
    /\ since' = (since \cap {dpath}) \cup {None}
    /\ UNCHANGED <<disk, tmp, dpath, lock, up, mem, pc, local>>

Next ==
    \/ \E d \in Daemon :
         Start(d) \/ Change(d) \/ SaveBegin(d) \/ SaveStep(d) \/ Stop(d) \/ Crash(d)
    \/ PowerLoss
    \/ Writeback
    \/ Delete

Spec == Init /\ [][Next]_vars

(***************************************************************************)
(* What the daemon's single thread and the kernel owe a save: every step    *)
(* of a save that can be taken is taken, and a waiter that finds the lock   *)
(* free again and again gets it (flock queues its waiters).                *)
(***************************************************************************)
Fairness == \A d \in Daemon : WF_vars(SaveStep(d)) /\ SF_vars(Acquire(d))

FairSpec == Spec /\ Fairness

-----------------------------------------------------------------------------
(* Properties.                                                             *)

\* The state has its types: every name points to an inode or to nothing, and
\* a daemon's descriptor, image and rest of it exist only while it saves.
TypeOK ==
    /\ node \in [Inode -> Contents]
    /\ synced \subseteq Inode
    /\ path \in Inode \cup {None}
    /\ tmp \in Inode \cup {None}
    /\ dpath \in Inode \cup {None}
    /\ since \subseteq Inode \cup {None}
    /\ lock \in Daemon \cup {None}
    /\ up \subseteq Daemon
    /\ mem \in [Daemon -> Memory]
    /\ pc \in [Daemon -> Steps]
    /\ image \in [Daemon -> Contents]
    /\ left \in [Daemon -> SUBSET Item]
    /\ fd \in [Daemon -> Inode \cup {None}]

\* The flock of rss_config_save keeps two daemons from being between their
\* read of the file and their release of the lock at the same time.
MutualExclusion ==
    \A d, e \in Daemon : pc[d] \in Critical /\ pc[e] \in Critical => d = e

StoredFile == IF dpath = None THEN NoFile ELSE node[dpath]

\* The file changes only in whole saves: what it says next is one daemon's
\* owed changes over what it says now, whatever the others did since that
\* daemon loaded it -- or a file somebody deleted, or what a power loss
\* brings back.  No reader ever sees a part of a text.
SavesAreOverlays ==
    ConfigFile' # ConfigFile =>
        \/ \E d \in up : ConfigFile' = IF ConfigFile = NoFile THEN mem[d].view
                                      ELSE Overlay(ConfigFile, mem[d])
        \/ ConfigFile' = NoFile
        \/ up' = {} /\ ConfigFile' = StoredFile

NoLostUpdate == [][SavesAreOverlays]_vars

\* rss_config_save clears the dirty flags only of changes the file has: a
\* save that fails at any step keeps them for the next one.
SettledIsSaved ==
    \A d \in up \cap up' :
        HasDirty(mem[d]) /\ ~HasDirty(mem'[d]) =>
            ConfigFile # NoFile /\ Overlay(ConfigFile, mem[d]) = ConfigFile

NoForgottenChange == [][SettledIsSaved]_vars

\* rss_write_file_atomic syncs the data before the rename, so neither name a
\* power loss can leave points to data that is not on disk.
LiveDataSynced == {path, dpath} \ {None} \subseteq synced

\* ... and syncs the directory after it.  When that sync passes, no power
\* loss, however many saves later, brings back a file older than the one it
\* stored, or one that is not whole; when it fails, the save returns 0 all
\* the same, and a power loss brings back any file path had since the last
\* sync that passed.
StoredSinceSync == dpath \in since \cap (synced \cup {None})

\* The system never gets stuck on the lock: every save returns.
SaveReturns == \A d \in Daemon : pc[d] # "idle" ~> pc[d] = "idle"

\* The inductive invariant behind these.  While a daemon is between its read
\* and its rename, the file has not changed since the read (the lock), its
\* image is still the overlay of what it owes, and path.tmp -- an inode of
\* its own -- holds the part of the image already written.
LockHeld(d) == pc[d] \in Critical => lock = d

Coherent(d) ==
    /\ pc[d] # "idle" => d \in up
    /\ d \notin up => mem[d] = Loaded(EmptyContents)
    /\ \A i \in Item : i[1] \in mem[d].dropped => mem[d].view[i] = Missing

Writing(d) ==
    /\ pc[d] \in {"open", "write", "sync", "rename"} => image[d] = NewImage(d)
    /\ pc[d] \in {"write", "sync"} =>
         /\ tmp # None
         /\ fd[d] = tmp
         /\ \A i \in Item \ left[d] : node[tmp][i] = image[d][i]
    /\ pc[d] = "sync" => left[d] = {}
    /\ pc[d] = "rename" => tmp # None /\ tmp \in synced /\ node[tmp] = image[d]
    /\ pc[d] \in {"syncdir", "clear"} =>
         path # None /\ Overlay(node[path], mem[d]) = node[path]

TmpApart == tmp # None => tmp \notin {path, dpath}

Inv ==
    /\ TypeOK
    /\ \A d \in Daemon : LockHeld(d) /\ Coherent(d) /\ Writing(d)
    /\ TmpApart
    /\ LiveDataSynced
    /\ StoredSinceSync
    /\ path \in since

\* A save step by step is the atomic save of SharedConfig: it takes effect
\* at the rename, and from there on the daemon owes nothing.
SharedMem ==
    [d \in Daemon |-> IF pc[d] \in {"syncdir", "clear"} THEN Settled(mem[d])
                      ELSE mem[d]]

Shared == INSTANCE SharedConfig
              WITH file <- ConfigFile, stored <- StoredFile, mem <- SharedMem

SharedSpec == Shared!Spec
=============================================================================
