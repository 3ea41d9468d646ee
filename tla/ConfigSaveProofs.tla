-------------------------- MODULE ConfigSaveProofs --------------------------
(* Theorems of ConfigSave, for every value of its constants.               *)
EXTENDS ConfigSave, TLAPS

-----------------------------------------------------------------------------
(* The operations on a memory and on a text stay within their types.       *)

LEMMA EmptyIsContents == EmptyContents \in Contents
BY DEF EmptyContents, Contents

LEMMA LoadedIsMemory ==
    ASSUME NEW text \in Contents
    PROVE  Loaded(text) \in Memory
BY DEF Loaded, Memory

LEMMA SetInMemory ==
    ASSUME NEW m \in Memory, NEW i \in Item, NEW v \in Value
    PROVE  SetIn(m, i, v) \in Memory
BY DEF SetIn, Memory, Contents, Item

LEMMA UnsetInMemory ==
    ASSUME NEW m \in Memory, NEW i \in Item
    PROVE  UnsetIn(m, i) \in Memory
BY DEF UnsetIn, Memory, Contents

LEMMA RemoveInMemory ==
    ASSUME NEW m \in Memory, NEW s \in Section
    PROVE  RemoveIn(m, s) \in Memory
BY DEF RemoveIn, Memory, Contents

LEMMA SettledMemory ==
    ASSUME NEW m \in Memory
    PROVE  Settled(m) \in Memory
BY DEF Settled, Loaded, Memory

LEMMA OverlayContents ==
    ASSUME NEW m \in Memory, NEW text \in Contents
    PROVE  Overlay(text, m) \in Contents
BY DEF Overlay, Memory, Contents

\* Laying the same changes over a text twice changes nothing more.
LEMMA OverlayIdempotent ==
    ASSUME NEW m \in Memory, NEW text \in Contents
    PROVE  Overlay(Overlay(text, m), m) = Overlay(text, m)
BY DEF Overlay, Memory, Contents

\* A memory whose removed sections have no value is its own overlay.
LEMMA OverlayOfView ==
    ASSUME NEW m \in Memory,
           \A i \in Item : i[1] \in m.dropped => m.view[i] = Missing
    PROVE  Overlay(m.view, m) = m.view
BY DEF Overlay, Memory, Contents

LEMMA NewImageType ==
    ASSUME TypeOK, NEW d \in Daemon
    PROVE  NewImage(d) \in Contents
BY OverlayContents DEF NewImage, TypeOK, Memory

-----------------------------------------------------------------------------
(* Types.                                                                  *)

\* A daemon that writes has its descriptor open.
Typed ==
    /\ TypeOK
    /\ \A d \in Daemon : pc[d] \in {"write", "sync"} => fd[d] \in Inode

LEMMA InitTyped == Init => Typed
<1>. SUFFICES ASSUME Init PROVE Typed
  OBVIOUS
<1>1. Loaded(EmptyContents) \in Memory
  BY EmptyIsContents, LoadedIsMemory
<1>. QED
  BY <1>1, EmptyIsContents DEF Init, Typed, TypeOK, Steps

LEMMA SaveStepTyped ==
    ASSUME Typed, NEW d \in Daemon, SaveStep(d)
    PROVE  Typed'
<1>. USE DEF Typed, TypeOK, Steps, Goto, disk, names, local
<1>1. CASE Acquire(d)
  BY <1>1 DEF Acquire
<1>2. CASE Read(d)
  <2>1. NewImage(d) \in Contents /\ mem[d].view \in Contents
    BY NewImageType DEF Memory
  <2>. QED
    BY <1>2, <2>1 DEF Read
<1>3. CASE OutOfMemory(d)
  BY <1>3 DEF OutOfMemory
<1>4. CASE OpenTmp(d)
  <2>1. PICK n \in (IF tmp = None THEN Inode \ InUse ELSE {tmp}) :
           /\ tmp' = n
           /\ node' = [node EXCEPT ![n] = EmptyContents]
           /\ synced' = synced \ {n}
           /\ fd' = [fd EXCEPT ![d] = n]
    BY <1>4 DEF OpenTmp
  <2>2. n \in Inode
    OBVIOUS
  <2>. QED
    BY <1>4, <2>1, <2>2, EmptyIsContents DEF OpenTmp
<1>5. CASE Write(d)
  <2>1. PICK part \in SUBSET left[d] \ {{}} :
          /\ node' = [node EXCEPT ![fd[d]] =
                        [i \in Item |-> IF i \in part THEN image[d][i]
                                        ELSE node[fd[d]][i]]]
          /\ left' = [left EXCEPT ![d] = left[d] \ part]
    BY <1>5 DEF Write
  <2>2. left' \in [Daemon -> SUBSET Item]
    BY <2>1
  <2>3. node' \in [Inode -> Contents]
    <3>1. node \in [Inode -> Contents] /\ image[d] \in Contents
      OBVIOUS
    <3>2. [i \in Item |-> IF i \in part THEN image[d][i] ELSE node[fd[d]][i]]
            \in Contents \/ fd[d] \notin Inode
      BY <3>1 DEF Contents
    <3>. QED
      BY <2>1, <3>1, <3>2
  <2>4. /\ pc' = pc /\ image' = image /\ fd' = fd /\ synced' = synced \ {fd[d]}
        /\ UNCHANGED <<path, dpath, tmp, since, lock, up, mem>>
    BY <1>5 DEF Write
  <2>. QED
    BY <2>2, <2>3, <2>4
<1>6. CASE WriteDone(d)
  BY <1>6 DEF WriteDone
<1>7. CASE Sync(d)
  BY <1>7 DEF Sync
<1>8. CASE Rename(d)
  BY <1>8 DEF Rename
<1>9. CASE DiskFails(d)
  BY <1>9 DEF DiskFails
<1>10. CASE SyncDir(d)
  BY <1>10 DEF SyncDir
<1>13. CASE SyncDirFails(d)
  BY <1>13 DEF SyncDirFails
<1>11. CASE ClearDirty(d)
  BY <1>11, SettledMemory DEF ClearDirty
<1>12. CASE Unlock(d)
  BY <1>12, EmptyIsContents DEF Unlock
<1>. QED
  BY <1>1, <1>2, <1>3, <1>4, <1>5, <1>6, <1>7, <1>8, <1>9, <1>10,
     <1>11, <1>12, <1>13 DEF SaveStep

LEMMA NextTyped ==
    ASSUME Typed, [Next]_vars
    PROVE  Typed'
<1>. USE DEF Typed, TypeOK, disk, names, local
<1>1. ASSUME NEW d \in Daemon, Start(d) PROVE Typed'
  <2>1. path \in Inode
    BY <1>1 DEF Start
  <2>. QED
    BY <1>1, <2>1, LoadedIsMemory DEF Start
<1>2. ASSUME NEW d \in Daemon, Change(d) PROVE Typed'
  <2>1. mem' \in [Daemon -> Memory]
    <3>1. CASE \E i \in Item, v \in Value : Set(d, i, v)
      BY <3>1, SetInMemory DEF Set
    <3>2. CASE \E i \in Item : Unset(d, i)
      BY <3>2, UnsetInMemory DEF Unset
    <3>3. CASE \E s \in Section : RemoveSection(d, s)
      BY <3>3, RemoveInMemory DEF RemoveSection
    <3>. QED
      BY <1>2, <3>1, <3>2, <3>3 DEF Change
  <2>. QED
    BY <1>2, <2>1 DEF Change
<1>3. ASSUME NEW d \in Daemon, SaveBegin(d) PROVE Typed'
  BY <1>3 DEF SaveBegin, Goto, Steps
<1>4. ASSUME NEW d \in Daemon, SaveStep(d) PROVE Typed'
  BY <1>4, SaveStepTyped
<1>5. Loaded(EmptyContents) \in Memory
  BY EmptyIsContents, LoadedIsMemory
<1>6. ASSUME NEW d \in Daemon, Stop(d) PROVE Typed'
  BY <1>5, <1>6 DEF Stop
<1>7. ASSUME NEW d \in Daemon, Crash(d) PROVE Typed'
  BY <1>5, <1>7, EmptyIsContents DEF Crash, Steps
<1>8. CASE PowerLoss
  <2>1. node' \in [Inode -> Contents]
    BY <1>8, EmptyIsContents DEF PowerLoss
  <2>2. mem' \in [Daemon -> Memory] /\ image' \in [Daemon -> Contents]
    BY <1>5, <1>8, EmptyIsContents DEF PowerLoss
  <2>. QED
    BY <1>8, <2>1, <2>2 DEF PowerLoss, Steps
<1>9. CASE Delete
  BY <1>9 DEF Delete
<1>10. CASE Writeback
  BY <1>10 DEF Writeback
<1>11. CASE UNCHANGED vars
  BY <1>11 DEF vars
<1>. QED
  BY <1>1, <1>2, <1>3, <1>4, <1>6, <1>7, <1>8, <1>9, <1>10, <1>11 DEF Next

\* Every state the save protocol reaches is well typed, whatever fails.
THEOREM TypeCorrect == Spec => []TypeOK
<1>1. Typed => TypeOK
  BY DEF Typed
<1>. QED
  BY <1>1, InitTyped, NextTyped, PTL DEF Spec

-----------------------------------------------------------------------------
(* The inductive invariant, when the lock is never lost and a file that is  *)
(* there can be read.                                                      *)

\* What Inv says of each daemon and of the names, without the types.
DaemonInv(d) == LockHeld(d) /\ Coherent(d) /\ Writing(d)
Since == StoredSinceSync /\ path \in since

LEMMA InitInv == Init => Inv
<1>. SUFFICES ASSUME Init PROVE Inv
  OBVIOUS
<1>1. TypeOK
  BY InitTyped DEF Typed
<1>2. ASSUME NEW d \in Daemon PROVE LockHeld(d) /\ Coherent(d) /\ Writing(d)
  BY DEF Init, LockHeld, Coherent, Writing, Critical, Loaded
<1>3. TmpApart /\ LiveDataSynced /\ Since
  BY DEF Init, TmpApart, LiveDataSynced, Since, StoredSinceSync
<1>. QED
  BY <1>1, <1>2, <1>3 DEF Inv, Since

\* The lock: while one daemon is in its critical section no other is.
LEMMA Alone ==
    ASSUME Inv, NEW d \in Daemon, pc[d] \in Critical, NEW e \in Daemon, e # d
    PROVE  pc[e] \notin Critical
BY DEF Inv, LockHeld

\* Inv and Typed go together.
LEMMA InvTyped == Inv => Typed
BY NoneAssumption DEF Inv, Typed, Writing, TypeOK

\* A step that moves only d, which is alone in its critical section before
\* and after, leaves the others' part of Inv alone.
LEMMA OthersKeep ==
    ASSUME Inv, NEW d \in Daemon, pc[d] \in Critical,
           NEW step, pc' = [pc EXCEPT ![d] = step],
           UNCHANGED up,
           \A e \in Daemon \ {d} : mem'[e] = mem[e]
    PROVE  \A e \in Daemon \ {d} : LockHeld(e)' /\ Coherent(e)' /\ Writing(e)'
<1>. SUFFICES ASSUME NEW e \in Daemon, e # d
              PROVE  LockHeld(e)' /\ Coherent(e)' /\ Writing(e)'
  OBVIOUS
<1>1. pc'[e] = pc[e] /\ pc[e] \notin Critical
  BY Alone DEF Inv, TypeOK
<1>2. LockHeld(e)' /\ Writing(e)'
  BY <1>1 DEF LockHeld, Writing, Critical, Steps
<1>3. Coherent(e)'
  BY <1>1 DEF Inv, Coherent
<1>. QED
  BY <1>2, <1>3

\* The steps of a save, one at a time.
LEMMA SaveStepInv ==
    ASSUME "eintr" \notin Faults, "read" \notin Faults,
           Inv, NEW d \in Daemon, SaveStep(d)
    PROVE  Inv'
<1>. USE DEF Goto, disk, names, local
<1>0. Typed /\ TypeOK /\ Typed' /\ TypeOK'
  BY InvTyped, SaveStepTyped DEF Typed
<1>a. DaemonInv(d) /\ TmpApart /\ LiveDataSynced /\ Since
  BY DEF Inv, DaemonInv, Since
<1>b. SUFFICES /\ \A e \in Daemon \ {d} : LockHeld(e)' /\ Coherent(e)' /\ Writing(e)'
               /\ DaemonInv(d)'
               /\ TmpApart' /\ LiveDataSynced' /\ Since'
  BY <1>0 DEF Inv, DaemonInv, Since
<1>1. CASE Acquire(d)
  <2>1. ASSUME NEW e \in Daemon, e # d
        PROVE  LockHeld(e)' /\ Coherent(e)' /\ Writing(e)'
    <3>1. pc'[e] = pc[e] /\ pc[e] \notin Critical
      BY <1>1, <2>1, <1>0, NoneAssumption DEF Acquire, LockIsFree, Inv, LockHeld, TypeOK
    <3>. QED
      BY <1>1, <3>1 DEF Acquire, Inv, LockHeld, Coherent, Writing, Critical, Steps
  <2>2. DaemonInv(d)'
    BY <1>1, <1>0, <1>a DEF Acquire, DaemonInv, LockHeld, Coherent, Writing, TypeOK
  <2>. QED
    BY <1>1, <1>0, <1>a, <2>1, <2>2
    DEF Acquire, TmpApart, LiveDataSynced, Since, StoredSinceSync, TypeOK
<1>2. CASE Read(d)
  <2>1. \A e \in Daemon \ {d} : LockHeld(e)' /\ Coherent(e)' /\ Writing(e)'
    BY <1>2, OthersKeep DEF Read, Critical, Steps
  <2>2. image' = [image EXCEPT ![d] = NewImage(d)] /\ NewImage(d)' = NewImage(d)
    BY <1>2, <1>0 DEF Read, NewImage
  <2>3. DaemonInv(d)'
    BY <1>2, <1>0, <1>a, <2>2
    DEF Read, DaemonInv, LockHeld, Coherent, Writing, Critical, Steps, TypeOK
  <2>. QED
    BY <1>2, <1>0, <1>a, <2>1, <2>3
    DEF Read, TmpApart, LiveDataSynced, Since, StoredSinceSync, TypeOK
<1>3. CASE OutOfMemory(d)
  <2>1. \A e \in Daemon \ {d} : LockHeld(e)' /\ Coherent(e)' /\ Writing(e)'
    BY <1>3, OthersKeep DEF OutOfMemory, Critical, Steps
  <2>2. DaemonInv(d)'
    BY <1>3, <1>0, <1>a
    DEF OutOfMemory, DaemonInv, LockHeld, Coherent, Writing, Critical, Steps, TypeOK
  <2>. QED
    BY <1>3, <1>0, <1>a, <2>1, <2>2
    DEF OutOfMemory, TmpApart, LiveDataSynced, Since, StoredSinceSync, TypeOK
<1>4. CASE OpenTmp(d)
  <2>1. \A e \in Daemon \ {d} : LockHeld(e)' /\ Coherent(e)' /\ Writing(e)'
    BY <1>4, OthersKeep DEF OpenTmp, Critical, Steps
  <2>2. PICK n \in Inode :
           /\ n \notin {path, dpath}
           /\ tmp' = n
           /\ node' = [node EXCEPT ![n] = EmptyContents]
           /\ synced' = synced \ {n}
           /\ fd' = [fd EXCEPT ![d] = n]
    BY <1>4, <1>0, <1>a DEF OpenTmp, InUse, TmpApart, TypeOK
  <2>3. TmpApart' /\ LiveDataSynced' /\ Since'
    BY <1>4, <1>0, <1>a, <2>2
    DEF OpenTmp, TmpApart, LiveDataSynced, Since, StoredSinceSync, TypeOK
  <2>4. NewImage(d)' = NewImage(d)
    BY <1>4, <1>0, <2>2 DEF OpenTmp, NewImage, TypeOK
  <2>5. LockHeld(d)' /\ Coherent(d)'
    BY <1>4, <1>0, <1>a DEF OpenTmp, DaemonInv, LockHeld, Coherent, Critical, Steps, TypeOK
  <2>6. Writing(d)'
    <3>1. pc'[d] = "write" /\ left'[d] = Item /\ image' = image /\ fd'[d] = tmp'
      BY <1>4, <1>0, <2>2 DEF OpenTmp, TypeOK
    <3>. QED
      BY <1>4, <1>0, <1>a, <2>2, <2>4, <3>1, NoneAssumption
      DEF OpenTmp, DaemonInv, Writing
  <2>. QED
    BY <2>1, <2>3, <2>5, <2>6 DEF DaemonInv
<1>5. CASE Write(d)
  <2>1. \A e \in Daemon \ {d} : LockHeld(e)' /\ Coherent(e)' /\ Writing(e)'
    BY <1>5, OthersKeep DEF Write, Critical, Steps, Inv, TypeOK
  <2>2. fd[d] = tmp /\ tmp \in Inode /\ tmp \notin {path, dpath}
    BY <1>5, <1>0, <1>a DEF Write, DaemonInv, Writing, TmpApart, TypeOK
  <2>3. PICK part \in SUBSET left[d] \ {{}} :
          /\ node' = [node EXCEPT ![tmp] =
                        [i \in Item |-> IF i \in part THEN image[d][i]
                                        ELSE node[tmp][i]]]
          /\ left' = [left EXCEPT ![d] = left[d] \ part]
    BY <1>5, <2>2 DEF Write
  <2>4. NewImage(d)' = NewImage(d)
    BY <1>5, <1>0, <2>2, <2>3 DEF Write, NewImage, TypeOK
  <2>5. Writing(d)'
    <3>1. pc'[d] = "write" /\ image' = image /\ tmp' = tmp /\ fd' = fd
      BY <1>5 DEF Write
    <3>2. \A i \in Item \ left'[d] : node'[tmp][i] = image[d][i]
      BY <1>5, <1>0, <1>a, <2>2, <2>3 DEF Write, DaemonInv, Writing, TypeOK
    <3>. QED
      BY <1>5, <1>a, <2>4, <3>1, <3>2 DEF Write, DaemonInv, Writing
  <2>6. LockHeld(d)' /\ Coherent(d)'
    BY <1>5, <1>a DEF Write, DaemonInv, LockHeld, Coherent
  <2>. QED
    BY <1>5, <1>0, <1>a, <2>1, <2>2, <2>5, <2>6
    DEF Write, DaemonInv, TmpApart, LiveDataSynced, Since, StoredSinceSync, TypeOK
<1>6. CASE WriteDone(d)
  <2>1. \A e \in Daemon \ {d} : LockHeld(e)' /\ Coherent(e)' /\ Writing(e)'
    BY <1>6, OthersKeep DEF WriteDone, Critical, Steps
  <2>2. DaemonInv(d)'
    BY <1>6, <1>0, <1>a
    DEF WriteDone, DaemonInv, LockHeld, Coherent, Writing, NewImage, Critical, Steps, TypeOK
  <2>. QED
    BY <1>6, <1>0, <1>a, <2>1, <2>2
    DEF WriteDone, TmpApart, LiveDataSynced, Since, StoredSinceSync, TypeOK
<1>7. CASE Sync(d)
  <2>1. \A e \in Daemon \ {d} : LockHeld(e)' /\ Coherent(e)' /\ Writing(e)'
    BY <1>7, OthersKeep DEF Sync, Critical, Steps
  <2>2. node[tmp] = image[d]
    BY <1>7, <1>0, <1>a DEF Sync, DaemonInv, Writing, TypeOK, Contents
  <2>3. Writing(d)'
    BY <1>7, <1>0, <1>a, <2>2 DEF Sync, DaemonInv, Writing, NewImage, TypeOK
  <2>4. LockHeld(d)' /\ Coherent(d)'
    BY <1>7, <1>0, <1>a DEF Sync, DaemonInv, LockHeld, Coherent, Critical, Steps, TypeOK
  <2>. QED
    BY <1>7, <1>0, <1>a, <2>1, <2>3, <2>4
    DEF Sync, DaemonInv, TmpApart, LiveDataSynced, Since, StoredSinceSync, TypeOK
<1>8. CASE Rename(d)
  <2>1. \A e \in Daemon \ {d} : LockHeld(e)' /\ Coherent(e)' /\ Writing(e)'
    BY <1>8, OthersKeep DEF Rename, Critical, Steps
  <2>2. node[tmp] = NewImage(d)
    BY <1>8, <1>a DEF Rename, DaemonInv, Writing
  <2>3. Overlay(NewImage(d), mem[d]) = NewImage(d)
    <3>1. mem[d] \in Memory /\ (path # None => node[path] \in Contents)
      BY <1>0 DEF TypeOK
    <3>. QED
      BY <1>a, <3>1, OverlayIdempotent, OverlayOfView DEF DaemonInv, Coherent, NewImage
  <2>4. Writing(d)'
    BY <1>8, <1>0, <2>2, <2>3 DEF Rename, Writing, TypeOK
  <2>5. LockHeld(d)' /\ Coherent(d)'
    BY <1>8, <1>0, <1>a DEF Rename, DaemonInv, LockHeld, Coherent, Critical, Steps, TypeOK
  <2>6. TmpApart' /\ LiveDataSynced'
    BY <1>8, <1>0, <1>a DEF Rename, DaemonInv, Writing, TmpApart, LiveDataSynced
  <2>7. Since'
    BY <1>8, <1>a DEF Rename, Since, StoredSinceSync
  <2>. QED
    BY <2>1, <2>4, <2>5, <2>6, <2>7 DEF DaemonInv
<1>9. CASE DiskFails(d)
  <2>1. pc[d] \in {"open", "write", "sync", "rename"} /\ pc'[d] = "unlock"
    BY <1>9, <1>0 DEF DiskFails, TypeOK
  <2>2. \A e \in Daemon \ {d} : LockHeld(e)' /\ Coherent(e)' /\ Writing(e)'
    BY <1>9, <2>1, OthersKeep DEF DiskFails, Critical, Steps
  <2>3. DaemonInv(d)'
    BY <1>9, <1>a, <2>1
    DEF DiskFails, DaemonInv, LockHeld, Coherent, Writing, Critical, Steps
  <2>. QED
    BY <1>9, <1>0, <1>a, <2>2, <2>3
    DEF DiskFails, TmpApart, LiveDataSynced, Since, StoredSinceSync, TypeOK
<1>10. CASE SyncDir(d)
  <2>1. \A e \in Daemon \ {d} : LockHeld(e)' /\ Coherent(e)' /\ Writing(e)'
    BY <1>10, OthersKeep DEF SyncDir, Critical, Steps
  <2>2. DaemonInv(d)'
    BY <1>10, <1>0, <1>a
    DEF SyncDir, DaemonInv, LockHeld, Coherent, Writing, Critical, Steps, TypeOK
  <2>. QED
    BY <1>10, <1>0, <1>a, <2>1, <2>2
    DEF SyncDir, TmpApart, LiveDataSynced, Since, StoredSinceSync, TypeOK
<1>13. CASE SyncDirFails(d)
  <2>1. \A e \in Daemon \ {d} : LockHeld(e)' /\ Coherent(e)' /\ Writing(e)'
    BY <1>13, OthersKeep DEF SyncDirFails, Critical, Steps
  <2>2. DaemonInv(d)'
    BY <1>13, <1>0, <1>a
    DEF SyncDirFails, DaemonInv, LockHeld, Coherent, Writing, Critical, Steps, TypeOK
  <2>. QED
    BY <1>13, <1>0, <1>a, <2>1, <2>2
    DEF SyncDirFails, TmpApart, LiveDataSynced, Since, StoredSinceSync, TypeOK
<1>11. CASE ClearDirty(d)
  <2>1. \A e \in Daemon \ {d} : LockHeld(e)' /\ Coherent(e)' /\ Writing(e)'
    BY <1>11, <1>0, OthersKeep DEF ClearDirty, Critical, Steps, TypeOK
  <2>2. mem'[d].dropped = {} /\ pc'[d] = "unlock" /\ d \in up
    BY <1>11, <1>0, <1>a DEF ClearDirty, Settled, Loaded, DaemonInv, Coherent, TypeOK
  <2>3. DaemonInv(d)'
    BY <1>11, <1>a, <2>2
    DEF ClearDirty, DaemonInv, LockHeld, Coherent, Writing, Critical, Steps
  <2>. QED
    BY <1>11, <1>0, <1>a, <2>1, <2>3
    DEF ClearDirty, TmpApart, LiveDataSynced, Since, StoredSinceSync, TypeOK
<1>12. CASE Unlock(d)
  <2>1. \A e \in Daemon \ {d} : LockHeld(e)' /\ Coherent(e)' /\ Writing(e)'
    BY <1>12, OthersKeep DEF Unlock, Critical, Steps
  <2>2. DaemonInv(d)'
    BY <1>12, <1>0, <1>a
    DEF Unlock, DaemonInv, LockHeld, Coherent, Writing, Critical, TypeOK
  <2>. QED
    BY <1>12, <1>0, <1>a, <2>1, <2>2
    DEF Unlock, TmpApart, LiveDataSynced, Since, StoredSinceSync, TypeOK
<1>. QED
  BY <1>1, <1>2, <1>3, <1>4, <1>5, <1>6, <1>7, <1>8, <1>9, <1>10,
     <1>11, <1>12, <1>13 DEF SaveStep

\* A change keeps a memory coherent: what a removed section held has no
\* value until a write puts the section back.
LEMMA ChangeCoherent ==
    ASSUME Inv, NEW d \in Daemon, Change(d)
    PROVE  Coherent(d)'
<1>. USE DEF Inv, TypeOK, Memory, Contents
<1>1. \A i \in Item : i[1] \in mem'[d].dropped => mem'[d].view[i] = Missing
  <2>1. CASE \E i \in Item, v \in Value : Set(d, i, v)
    BY <2>1 DEF Set, SetIn, Coherent
  <2>2. CASE \E i \in Item : Unset(d, i)
    BY <2>2 DEF Unset, UnsetIn, Coherent
  <2>3. CASE \E s \in Section : RemoveSection(d, s)
    BY <2>3 DEF RemoveSection, RemoveIn, Coherent
  <2>. QED
    BY <2>1, <2>2, <2>3 DEF Change
<1>. QED
  BY <1>1 DEF Change, Coherent

LEMMA ChangesOnlyOwn ==
    ASSUME TypeOK, NEW d \in Daemon, Change(d), NEW e \in Daemon, e # d
    PROVE  mem'[e] = mem[e]
BY DEF TypeOK, Change, Set, Unset, RemoveSection

LEMMA NextInv ==
    ASSUME "eintr" \notin Faults, "read" \notin Faults, Inv, [Next]_vars
    PROVE  Inv'
<1>. USE DEF disk, names, local
<1>0. Typed /\ TypeOK /\ Typed' /\ TypeOK'
  BY InvTyped, NextTyped DEF Typed
<1>a. /\ \A e \in Daemon : DaemonInv(e)
      /\ TmpApart /\ LiveDataSynced /\ Since
  BY DEF Inv, DaemonInv, Since
<1>b. SUFFICES /\ \A e \in Daemon : DaemonInv(e)'
               /\ TmpApart' /\ LiveDataSynced' /\ Since'
  BY <1>0 DEF Inv, DaemonInv, Since
<1>1. ASSUME NEW d \in Daemon, Start(d)
      PROVE  /\ \A e \in Daemon : DaemonInv(e)'
             /\ TmpApart' /\ LiveDataSynced' /\ Since'
  <2>1. pc[d] = "idle"
    BY <1>1, <1>a DEF Start, DaemonInv, Coherent
  <2>2. ASSUME NEW e \in Daemon, e # d PROVE DaemonInv(e)'
    <3>1. mem'[e] = mem[e] /\ (e \in up' <=> e \in up)
      BY <1>0, <1>1, <2>2 DEF Start, TypeOK
    <3>2. DaemonInv(e)
      BY <1>a
    <3>3. LockHeld(e)'
      BY <1>1, <3>2 DEF Start, DaemonInv, LockHeld
    <3>4. Coherent(e)'
      BY <1>1, <3>1, <3>2 DEF Start, DaemonInv, Coherent
    <3>5. Writing(e)'
      BY <1>1, <3>1, <3>2 DEF Start, DaemonInv, Writing, NewImage
    <3>. QED
      BY <3>3, <3>4, <3>5 DEF DaemonInv
  <2>3. DaemonInv(d)'
    <3>1. LockHeld(d)'
      BY <1>1, <1>a DEF Start, DaemonInv, LockHeld
    <3>2. Coherent(d)'
      BY <1>0, <1>1, <2>1 DEF Start, Coherent, Loaded, TypeOK
    <3>3. Writing(d)'
      BY <1>1, <2>1 DEF Start, Writing, Critical
    <3>. QED
      BY <3>1, <3>2, <3>3 DEF DaemonInv
  <2>. QED
    BY <1>1, <1>a, <2>2, <2>3 DEF Start, TmpApart, LiveDataSynced, Since, StoredSinceSync
<1>2. ASSUME NEW d \in Daemon, Change(d)
      PROVE  /\ \A e \in Daemon : DaemonInv(e)'
             /\ TmpApart' /\ LiveDataSynced' /\ Since'
  <2>1. ASSUME NEW e \in Daemon, e # d PROVE DaemonInv(e)'
    <3>1. mem'[e] = mem[e]
      BY <1>0, <1>2, <2>1, ChangesOnlyOwn
    <3>. QED
      BY <1>2, <1>a, <3>1 DEF Change, DaemonInv, LockHeld, Coherent, Writing, NewImage
  <2>2. DaemonInv(d)'
    BY <1>2, <1>a, ChangeCoherent DEF Change, DaemonInv, LockHeld, Writing
  <2>. QED
    BY <1>2, <1>a, <2>1, <2>2 DEF Change, TmpApart, LiveDataSynced, Since, StoredSinceSync
<1>3. ASSUME NEW d \in Daemon, SaveBegin(d)
      PROVE  /\ \A e \in Daemon : DaemonInv(e)'
             /\ TmpApart' /\ LiveDataSynced' /\ Since'
  <2>1. \A e \in Daemon : DaemonInv(e)'
    BY <1>0, <1>3, <1>a
    DEF SaveBegin, Goto, DaemonInv, LockHeld, Coherent, Writing, NewImage, Critical, TypeOK
  <2>. QED
    BY <1>0, <1>3, <1>a, <2>1
    DEF SaveBegin, Goto, TmpApart, LiveDataSynced, Since, StoredSinceSync, TypeOK
<1>4. ASSUME NEW d \in Daemon, SaveStep(d)
      PROVE  /\ \A e \in Daemon : DaemonInv(e)'
             /\ TmpApart' /\ LiveDataSynced' /\ Since'
  BY <1>4, SaveStepInv DEF Inv, DaemonInv, Since
<1>5. ASSUME NEW d \in Daemon, Stop(d)
      PROVE  /\ \A e \in Daemon : DaemonInv(e)'
             /\ TmpApart' /\ LiveDataSynced' /\ Since'
  <2>1. ASSUME NEW e \in Daemon, e # d PROVE DaemonInv(e)'
    <3>1. mem'[e] = mem[e] /\ (e \in up' <=> e \in up)
      BY <1>0, <1>5, <2>1 DEF Stop, TypeOK
    <3>. QED
      BY <1>5, <1>a, <3>1 DEF Stop, DaemonInv, LockHeld, Coherent, Writing, NewImage
  <2>2. DaemonInv(d)'
    BY <1>0, <1>5, <1>a
    DEF Stop, DaemonInv, LockHeld, Coherent, Writing, Loaded, Critical, TypeOK
  <2>. QED
    BY <1>5, <1>a, <2>1, <2>2 DEF Stop, TmpApart, LiveDataSynced, Since, StoredSinceSync
<1>6. ASSUME NEW d \in Daemon, Crash(d)
      PROVE  /\ \A e \in Daemon : DaemonInv(e)'
             /\ TmpApart' /\ LiveDataSynced' /\ Since'
  <2>1. ASSUME NEW e \in Daemon, e # d PROVE DaemonInv(e)'
    <3>1. /\ pc'[e] = pc[e] /\ mem'[e] = mem[e] /\ image'[e] = image[e]
          /\ left'[e] = left[e] /\ fd'[e] = fd[e] /\ (e \in up' <=> e \in up)
      BY <1>0, <1>6, <2>1 DEF Crash, TypeOK
    <3>2. lock = e => lock' = e
      BY <1>6, <2>1 DEF Crash
    <3>. QED
      BY <1>6, <1>a, <3>1, <3>2 DEF Crash, DaemonInv, LockHeld, Coherent, Writing, NewImage
  <2>2. DaemonInv(d)'
    BY <1>0, <1>6
    DEF Crash, DaemonInv, LockHeld, Coherent, Writing, Loaded, Critical, TypeOK
  <2>. QED
    BY <1>0, <1>6, <1>a, <2>1, <2>2
    DEF Crash, TmpApart, LiveDataSynced, Since, StoredSinceSync, TypeOK
<1>7. CASE PowerLoss
  <2>1. \A e \in Daemon : DaemonInv(e)'
    BY <1>7 DEF PowerLoss, DaemonInv, LockHeld, Coherent, Writing, Loaded, Critical
  <2>. QED
    BY <1>0, <1>7, <2>1 DEF PowerLoss, TmpApart, LiveDataSynced, Since, StoredSinceSync, TypeOK
<1>8. CASE Delete
  <2>1. \A e \in Daemon : DaemonInv(e)'
    BY <1>8, <1>a DEF Delete, DaemonInv, LockHeld, Coherent, Writing
  <2>. QED
    BY <1>8, <1>a, <2>1, NoneAssumption
    DEF Delete, TmpApart, LiveDataSynced, Since, StoredSinceSync, TypeOK
<1>9. CASE Writeback
  <2>1. \A e \in Daemon : DaemonInv(e)'
    BY <1>9, <1>a DEF Writeback, DaemonInv, LockHeld, Coherent, Writing, NewImage
  <2>. QED
    BY <1>0, <1>9, <1>a, <2>1
    DEF Writeback, TmpApart, LiveDataSynced, Since, StoredSinceSync, TypeOK
<1>10. CASE UNCHANGED vars
  BY <1>10, <1>a
  DEF vars, DaemonInv, LockHeld, Coherent, Writing, NewImage, TmpApart,
      LiveDataSynced, Since, StoredSinceSync
<1>. QED
  BY <1>1, <1>2, <1>3, <1>4, <1>5, <1>6, <1>7, <1>8, <1>9, <1>10 DEF Next

-----------------------------------------------------------------------------
(* What follows from the invariant.                                        *)

\* The invariant holds in every reachable state.
THEOREM Invariance ==
    ASSUME "eintr" \notin Faults, "read" \notin Faults
    PROVE  Spec => []Inv
BY InitInv, NextInv, PTL DEF Spec

\* The flock keeps two daemons out of each other's read-edit-write cycle.
THEOREM LockExcludes ==
    ASSUME "eintr" \notin Faults, "read" \notin Faults
    PROVE  Spec => []MutualExclusion
<1>1. Inv => MutualExclusion
  BY DEF Inv, LockHeld, MutualExclusion
<1>. QED
  BY <1>1, Invariance, PTL

\* Crashes, power losses and directory syncs that fail included, the live file
\* and the file a power loss brings back are whole on disk, and that one is no
\* older than the last save whose directory sync passed.
THEOREM SavesAreDurable ==
    ASSUME "eintr" \notin Faults, "read" \notin Faults
    PROVE  Spec => [](LiveDataSynced /\ StoredSinceSync)
<1>1. Inv => LiveDataSynced /\ StoredSinceSync
  BY DEF Inv
<1>. QED
  BY <1>1, Invariance, PTL

\* What the file says changes at a rename only, and then to the overlay.
LEMMA SaveStepFile ==
    ASSUME Inv, NEW d \in Daemon, SaveStep(d), Inv'
    PROVE  /\ Rename(d) => d \in up /\ ConfigFile' = NewImage(d)
           /\ SyncDir(d) => ConfigFile' = ConfigFile /\ StoredFile' = ConfigFile
           /\ ~Rename(d) /\ ~SyncDir(d) =>
                ConfigFile' = ConfigFile /\ StoredFile' = StoredFile
<1>. USE DEF disk, names, local
<1>1. CASE Rename(d)
  BY <1>1, NoneAssumption
  DEF Rename, SyncDir, ConfigFile, Inv, TypeOK, Writing, Coherent
<1>2. CASE OpenTmp(d)
  BY <1>2, NoneAssumption
  DEF OpenTmp, InUse, Inv, TypeOK, TmpApart, ConfigFile, StoredFile, Rename, SyncDir
<1>3. CASE Write(d)
  <2>1. fd[d] \in Inode /\ fd[d] \notin {path, dpath}
    BY <1>3 DEF Write, Inv, TypeOK, Writing, TmpApart
  <2>. QED
    BY <1>3, <2>1 DEF Write, Inv, TypeOK, ConfigFile, StoredFile, Rename, SyncDir
<1>4. CASE SyncDir(d)
  BY <1>4 DEF Rename, SyncDir, ConfigFile, StoredFile
<1>5. CASE /\ ~Rename(d) /\ ~SyncDir(d)
           /\ \/ Acquire(d) \/ Read(d) \/ OutOfMemory(d)
              \/ WriteDone(d) \/ Sync(d) \/ DiskFails(d) \/ SyncDirFails(d)
              \/ ClearDirty(d) \/ Unlock(d)
  BY <1>5
  DEF Acquire, Read, OutOfMemory, WriteDone, Sync, DiskFails, SyncDirFails,
      ClearDirty, Unlock, ConfigFile, StoredFile
<1>. QED
  BY <1>1, <1>2, <1>3, <1>4, <1>5 DEF SaveStep

LEMMA PowerLossFile ==
    ASSUME Inv, PowerLoss
    PROVE  ConfigFile' \in {ConfigFile, StoredFile} /\ StoredFile' = ConfigFile'
BY DEF Inv, TypeOK, LiveDataSynced, PowerLoss, ConfigFile, StoredFile

LEMMA NextSavesAreOverlays ==
    ASSUME Inv, [Next]_vars, Inv'
    PROVE  SavesAreOverlays
<1>. SUFFICES ASSUME ConfigFile' # ConfigFile PROVE SavesAreOverlays
  BY DEF SavesAreOverlays
<1>. USE DEF disk, names, local
<1>1. ASSUME NEW d \in Daemon, SaveStep(d) PROVE SavesAreOverlays
  <2>1. d \in up /\ ConfigFile' = NewImage(d)
    BY <1>1, SaveStepFile
  <2>2. path # None => node[path] # NoFile
    BY NoFileAssumption DEF Inv, TypeOK
  <2>. QED
    BY <2>1, <2>2 DEF SavesAreOverlays, NewImage, ConfigFile
<1>2. ASSUME NEW d \in Daemon,
             Start(d) \/ Change(d) \/ SaveBegin(d) \/ Stop(d) \/ Crash(d)
      PROVE  FALSE
  BY <1>2 DEF Start, Change, SaveBegin, Stop, Crash, ConfigFile
<1>3. CASE PowerLoss
  BY <1>3, PowerLossFile DEF PowerLoss, SavesAreOverlays
<1>4. CASE Delete
  BY <1>4 DEF Delete, SavesAreOverlays, ConfigFile
<1>5. CASE Writeback \/ UNCHANGED vars
  BY <1>5 DEF Writeback, vars, ConfigFile
<1>. QED
  BY <1>1, <1>2, <1>3, <1>4, <1>5 DEF Next

\* No save loses what another daemon saved before it, and no reader sees part
\* of a text: whatever crashes and fails, as long as the lock is held.
THEOREM NothingLost ==
    ASSUME "eintr" \notin Faults, "read" \notin Faults
    PROVE  Spec => NoLostUpdate
<1>1. Spec => []Inv
  BY Invariance
<1>2. Inv /\ Inv' /\ [Next]_vars => [SavesAreOverlays]_vars
  BY NextSavesAreOverlays
<1>. QED
  BY <1>1, <1>2, PTL DEF Spec, NoLostUpdate

LEMMA NextSettledIsSaved ==
    ASSUME Inv, [Next]_vars
    PROVE  SettledIsSaved
<1>. SUFFICES ASSUME NEW d \in up \cap up', HasDirty(mem[d]), ~HasDirty(mem'[d])
              PROVE  ConfigFile # NoFile /\ Overlay(ConfigFile, mem[d]) = ConfigFile
  BY DEF SettledIsSaved
<1>. USE DEF Inv, TypeOK
<1>1. ASSUME NEW e \in Daemon, SaveStep(e)
      PROVE  ConfigFile # NoFile /\ Overlay(ConfigFile, mem[d]) = ConfigFile
  <2>1. ClearDirty(e) \/ mem' = mem
    BY <1>1 DEF SaveStep, Acquire, Read, OutOfMemory, OpenTmp, Write, WriteDone,
                Sync, Rename, DiskFails, SyncDir, SyncDirFails, Unlock
  <2>2. ClearDirty(e) /\ e = d
    <3>1. mem' # mem
      OBVIOUS
    <3>2. ClearDirty(e)
      BY <2>1, <3>1
    <3>3. e # d => mem'[d] = mem[d]
      BY <3>2 DEF ClearDirty
    <3>. QED
      BY <3>2, <3>3
  <2>3. Writing(d) /\ pc[d] = "clear"
    BY <2>2 DEF ClearDirty
  <2>4. path # None /\ Overlay(node[path], mem[d]) = node[path]
    BY <2>3 DEF Writing
  <2>5. node[path] # NoFile
    BY <2>4, NoFileAssumption
  <2>. QED
    BY <2>4, <2>5 DEF ConfigFile
<1>2. ASSUME NEW e \in Daemon, Change(e) PROVE FALSE
  <2>1. e = d
    BY <1>2, ChangesOnlyOwn
  <2>2. CASE \E i \in Item, v \in Value : Set(d, i, v)
    <3>1. PICK i \in Item, v \in Value : mem'[d] = SetIn(mem[d], i, v)
      BY <2>2 DEF Set
    <3>2. i \in mem'[d].touched
      BY <3>1 DEF SetIn
    <3>. QED
      BY <3>2 DEF HasDirty
  <2>3. CASE \E i \in Item : Unset(d, i)
    <3>1. PICK i \in Item : mem'[d] = UnsetIn(mem[d], i)
      BY <2>3 DEF Unset
    <3>2. i \in mem'[d].touched
      BY <3>1 DEF UnsetIn
    <3>. QED
      BY <3>2 DEF HasDirty
  <2>4. CASE \E s \in Section : RemoveSection(d, s)
    <3>1. PICK s \in Section : mem'[d] = RemoveIn(mem[d], s)
      BY <2>4 DEF RemoveSection
    <3>2. s \in mem'[d].dropped
      BY <3>1 DEF RemoveIn
    <3>. QED
      BY <3>2 DEF HasDirty
  <2>. QED
    BY <1>2, <2>1, <2>2, <2>3, <2>4 DEF Change
<1>3. ASSUME NEW e \in Daemon, Start(e) \/ SaveBegin(e) \/ Stop(e) \/ Crash(e)
      PROVE  FALSE
  BY <1>3 DEF Start, SaveBegin, Stop, Crash
<1>4. CASE PowerLoss
  BY <1>4 DEF PowerLoss
<1>5. CASE Delete \/ Writeback \/ UNCHANGED vars
  BY <1>5 DEF Delete, Writeback, vars
<1>. QED
  BY <1>1, <1>2, <1>3, <1>4, <1>5 DEF Next

\* A change stops being owed only when the file has it.
THEOREM NothingForgotten ==
    ASSUME "eintr" \notin Faults, "read" \notin Faults
    PROVE  Spec => NoForgottenChange
<1>1. Spec => []Inv
  BY Invariance
<1>2. Inv /\ [Next]_vars => [SettledIsSaved]_vars
  BY NextSettledIsSaved
<1>. QED
  BY <1>1, <1>2, PTL DEF Spec, NoForgottenChange

-----------------------------------------------------------------------------
(* A save step by step implements the atomic save of SharedConfig.         *)

LEMMA RefinesInit == Init => Shared!Init
<1>. SUFFICES ASSUME Init PROVE Shared!Init
  OBVIOUS
<1>1. ConfigFile \in Contents /\ StoredFile = ConfigFile
  BY NoneAssumption DEF Init, ConfigFile, StoredFile
<1>2. SharedMem = [d \in Daemon |-> Loaded(EmptyContents)]
  BY DEF Init, SharedMem
<1>. QED
  BY <1>1, <1>2 DEF Init, Shared!Init, Contents, Shared!Contents, Item, Shared!Item,
     Loaded, Shared!Loaded, EmptyContents, Shared!EmptyContents

\* A step of a save is a Commit (the rename), a Flush, or nothing to see.
LEMMA SaveStepRefines ==
    ASSUME Inv, NEW d \in Daemon, SaveStep(d), Inv'
    PROVE  Shared!Commit(d) \/ Shared!Flush \/ UNCHANGED Shared!vars
<1>. USE DEF Goto, disk, names, local
<1>0. TypeOK
  BY DEF Inv
<1>1. CASE Rename(d)
  <2>1. ConfigFile' = NewImage(d) /\ d \in up /\ UNCHANGED up
    BY <1>1, SaveStepFile DEF Rename
  <2>2. ConfigFile' = IF ConfigFile = NoFile THEN SharedMem[d].view
                      ELSE Overlay(ConfigFile, SharedMem[d])
    <3>1. path # None => node[path] # NoFile
      BY <1>0, NoFileAssumption DEF TypeOK
    <3>2. SharedMem[d] = mem[d]
      BY <1>1 DEF Rename, SharedMem
    <3>. QED
      BY <2>1, <3>1, <3>2 DEF NewImage, ConfigFile
  <2>3. StoredFile' = StoredFile
    BY <1>1 DEF Rename, StoredFile
  <2>4. SharedMem' = [SharedMem EXCEPT ![d] = Settled(SharedMem[d])]
    BY <1>0, <1>1 DEF Rename, SharedMem, TypeOK
  <2>. QED
    BY <2>1, <2>2, <2>3, <2>4 DEF Shared!Commit, Shared!Overlay, Shared!Settled,
       Shared!Item, Overlay, Settled, Item, Loaded, Shared!Loaded
<1>2. CASE SyncDir(d)
  <2>1. ConfigFile' = ConfigFile /\ StoredFile' = ConfigFile /\ UNCHANGED up
    BY <1>2 DEF SyncDir, ConfigFile, StoredFile
  <2>2. SharedMem' = SharedMem
    BY <1>0, <1>2 DEF SyncDir, SharedMem, TypeOK
  <2>. QED
    BY <2>1, <2>2 DEF Shared!Flush
<1>3. CASE ~Rename(d) /\ ~SyncDir(d)
  <2>1. ConfigFile' = ConfigFile /\ StoredFile' = StoredFile
    BY <1>3, SaveStepFile
  <2>2. UNCHANGED up
    BY <1>3 DEF SaveStep, Acquire, Read, OutOfMemory, OpenTmp, Write,
                WriteDone, Sync, DiskFails, SyncDirFails, ClearDirty, Unlock
  <2>3. SharedMem' = SharedMem
    <3>1. CASE ClearDirty(d)
      <4>1. Settled(Settled(mem[d])) = Settled(mem[d])
        BY DEF Settled, Loaded
      <4>. QED
        BY <1>0, <3>1, <4>1 DEF ClearDirty, SharedMem, TypeOK
    <3>2. CASE DiskFails(d)
      BY <1>0, <3>2 DEF DiskFails, SharedMem, TypeOK
    <3>3. CASE Acquire(d) \/ Read(d) \/ OutOfMemory(d) \/ OpenTmp(d)
               \/ WriteDone(d) \/ Sync(d) \/ SyncDirFails(d) \/ Unlock(d)
      BY <1>0, <3>3 DEF Acquire, Read, OutOfMemory, OpenTmp, WriteDone, Sync,
         SyncDirFails, Unlock, SharedMem, TypeOK
    <3>4. CASE Write(d)
      BY <1>0, <3>4 DEF Write, SharedMem, TypeOK
    <3>. QED
      BY <1>3, <3>1, <3>2, <3>3, <3>4 DEF SaveStep
  <2>. QED
    BY <2>1, <2>2, <2>3 DEF Shared!vars
<1>. QED
  BY <1>1, <1>2, <1>3

LEMMA ChangeRefines ==
    ASSUME Inv, NEW d \in Daemon, Change(d)
    PROVE  Shared!Change(d)
<1>1. SharedMem[d] = mem[d] /\ d \in up
  BY DEF Change, SharedMem
<1>2. \A m \in Memory : mem' = [mem EXCEPT ![d] = m]
                        => SharedMem' = [SharedMem EXCEPT ![d] = m]
  BY DEF Change, SharedMem, Inv, TypeOK, local
<1>3. ConfigFile' = ConfigFile /\ StoredFile' = StoredFile /\ UNCHANGED up
  BY DEF Change, ConfigFile, StoredFile, names, disk
<1>. USE DEF Inv, TypeOK
<1>4. CASE \E i \in Item, v \in Value : Set(d, i, v)
  <2>1. PICK i \in Item, v \in Value : Set(d, i, v)
    BY <1>4
  <2>2. SharedMem' = [SharedMem EXCEPT ![d] = SetIn(SharedMem[d], i, v)]
    BY <1>1, <1>2, <2>1, SetInMemory DEF Set
  <2>. QED
    BY <1>1, <1>3, <2>1, <2>2 DEF Set, SetIn, Shared!Change, Shared!SetIn, Item, Shared!Item
<1>5. CASE \E i \in Item : Unset(d, i)
  <2>1. PICK i \in Item : Unset(d, i)
    BY <1>5
  <2>2. SharedMem' = [SharedMem EXCEPT ![d] = UnsetIn(SharedMem[d], i)]
    BY <1>1, <1>2, <2>1, UnsetInMemory DEF Unset
  <2>3. i \in Shared!Item /\ SharedMem[d].view[i] # Missing
    BY <1>1, <2>1 DEF Unset, Item, Shared!Item
  <2>4. UnsetIn(SharedMem[d], i) = Shared!UnsetIn(SharedMem[d], i)
    BY DEF UnsetIn, Shared!UnsetIn
  <2>. QED
    BY <1>1, <1>3, <2>2, <2>3, <2>4 DEF Shared!Change
<1>6. CASE \E s \in Section : RemoveSection(d, s)
  <2>1. PICK s \in Section : RemoveSection(d, s)
    BY <1>6
  <2>2. SharedMem' = [SharedMem EXCEPT ![d] = RemoveIn(SharedMem[d], s)]
    BY <1>1, <1>2, <2>1, RemoveInMemory DEF RemoveSection
  <2>. QED
    BY <1>1, <1>3, <2>1, <2>2
    DEF RemoveSection, RemoveIn, Shared!Change, Shared!RemoveIn, Item, Shared!Item
<1>. QED
  BY <1>4, <1>5, <1>6 DEF Change

LEMMA NextRefines ==
    ASSUME Inv, [Next]_vars, Inv'
    PROVE  [Shared!Next]_Shared!vars
<1>. USE DEF disk, names, local
<1>0. TypeOK
  BY DEF Inv
<1>1. ASSUME NEW d \in Daemon, Start(d) PROVE Shared!Start(d)
  <2>1. pc[d] = "idle"
    BY <1>1 DEF Start, Inv, Coherent
  <2>2. ConfigFile # NoFile /\ Loaded(node[path]) = Loaded(ConfigFile)
    BY <1>0, <1>1, NoFileAssumption DEF Start, TypeOK, ConfigFile
  <2>3. SharedMem' = [SharedMem EXCEPT ![d] = Loaded(ConfigFile)]
    BY <1>0, <1>1, <2>1, <2>2 DEF Start, SharedMem, TypeOK
  <2>. QED
    BY <1>1, <2>2, <2>3
    DEF Start, ConfigFile, StoredFile, Shared!Start, Loaded, Shared!Loaded
<1>2. ASSUME NEW d \in Daemon, SaveBegin(d) PROVE UNCHANGED Shared!vars
  <2>1. SharedMem' = SharedMem
    BY <1>0, <1>2 DEF SaveBegin, Goto, SharedMem, TypeOK
  <2>. QED
    BY <1>2, <2>1 DEF SaveBegin, ConfigFile, StoredFile, Shared!vars
<1>3. ASSUME NEW d \in Daemon, Stop(d) \/ Crash(d) PROVE Shared!Stop(d)
  <2>1. SharedMem' = [SharedMem EXCEPT ![d] = Loaded(EmptyContents)]
    BY <1>0, <1>3 DEF Stop, Crash, SharedMem, TypeOK
  <2>. QED
    BY <1>3, <2>1 DEF Stop, Crash, ConfigFile, StoredFile, Shared!Stop, Loaded,
       Shared!Loaded, EmptyContents, Shared!EmptyContents, Item, Shared!Item
<1>4. CASE PowerLoss
  <2>1. SharedMem' = [d \in Daemon |-> Loaded(EmptyContents)]
    BY <1>4 DEF PowerLoss, SharedMem
  <2>. QED
    BY <1>4, <2>1, PowerLossFile DEF PowerLoss, Shared!Next, Shared!PowerLoss, Loaded,
       Shared!Loaded, EmptyContents, Shared!EmptyContents, Item, Shared!Item
<1>5. CASE Delete
  BY <1>5 DEF Delete, ConfigFile, StoredFile, SharedMem, Shared!Next, Shared!Delete
<1>6. CASE Writeback
  BY <1>6 DEF Writeback, ConfigFile, StoredFile, SharedMem, Shared!Next, Shared!Flush
<1>7. CASE UNCHANGED vars
  BY <1>7 DEF vars, ConfigFile, StoredFile, SharedMem, Shared!vars
<1>. QED
  BY <1>1, <1>2, <1>3, <1>4, <1>5, <1>6, <1>7, SaveStepRefines, ChangeRefines DEF Next, Shared!Next

\* The save protocol implements the atomic save: for any number of daemons,
\* keys and values, with crashes, power losses and failing disks.
THEOREM Refinement ==
    ASSUME "eintr" \notin Faults, "read" \notin Faults
    PROVE  Spec => SharedSpec
<1>1. Spec => []Inv
  BY Invariance
<1>. QED
  BY <1>1, RefinesInit, NextRefines, PTL DEF Spec, SharedSpec, Shared!Spec
=============================================================================
