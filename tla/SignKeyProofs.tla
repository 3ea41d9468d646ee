---------------------------- MODULE SignKeyProofs ----------------------------
(* What the loads of a signing key keep, for any daemons, inodes and keys.  *)
EXTENDS SignKey, TLAPS

Held(p) == Reading(p) /\ Fresh(p) /\ Owned(p) /\ Loaded(p)

\* Before the first load there is no file and no key.
LEMMA InitInv == Init => Inv
BY NoneAssumption, RetriesAssumption
   DEF Init, Inv, TypeOK, Reading, Fresh, Owned, Loaded, KeysAgree, ReportedStays,
       WithdrawnIsGone, Makers, Owners, Steps, InFile

\* Each step keeps the types.
LEMMA NextTypeOK == ASSUME Inv, [Next]_vars PROVE TypeOK'
<1>. USE NoneAssumption, RetriesAssumption
     DEF Inv, TypeOK, files, local, past, Goto, Fails, Again, RetryOrFail, Steps
<1>1. ASSUME NEW p \in Process, Load(p) PROVE TypeOK'
  BY <1>1 DEF Load
<1>2. ASSUME NEW p \in Process, Open(p) PROVE TypeOK'
  BY <1>2 DEF Open, FreshKeys
<1>3. ASSUME NEW p \in Process, Read(p) PROVE TypeOK'
  BY <1>3 DEF Read
<1>4. ASSUME NEW p \in Process, Create(p) PROVE TypeOK'
  BY <1>4 DEF Create, Unused
<1>5. ASSUME NEW p \in Process, Write(p) PROVE TypeOK'
  BY <1>5 DEF Write, Fresh, Makers
<1>6. ASSUME NEW p \in Process, Sync(p) \/ Unlink(p) PROVE TypeOK'
  BY <1>6 DEF Sync, Unlink, Fresh, Makers
<1>7. ASSUME NEW p \in Process, PersistFails(p) \/ MakeFails(p) PROVE TypeOK'
  BY <1>7 DEF PersistFails, MakeFails
<1>8. ASSUME NEW p \in Process, Export(p) PROVE TypeOK'
  BY <1>8 DEF Export, Loaded
<1>9. ASSUME NEW p \in Process, End(p) PROVE TypeOK'
  BY <1>9 DEF End
<1>10. CASE UNCHANGED vars
  BY <1>10 DEF vars
<1>. QED
  BY <1>1, <1>2, <1>3, <1>4, <1>5, <1>6, <1>7, <1>8, <1>9, <1>10 DEF Next, Step

\* A step of p that leaves the files alone, p not becoming their owner.
Aside(p) ==
    /\ UNCHANGED <<node, path, reported, withdrawn>>
    /\ \A q \in Process \ {p} : pc'[q] = pc[q] /\ fd'[q] = fd[q] /\ seed'[q] = seed[q]
    /\ pc'[p] \notin Owners

Agrees(p) ==
    pc[p] \in {"export", "done"} => InFile(seed[p]) \/ seed[p] \in withdrawn

PubAgrees == pub # None => InFile(pub) \/ pub \in withdrawn

\* What daemon p does in its memory alone is nothing to the others, nor to the
\* files: it is enough to look at p itself.
LEMMA Elsewhere ==
    ASSUME Inv, NEW p \in Process, Aside(p), Held(p)', Agrees(p)', PubAgrees'
    PROVE  (\A q \in Process : Held(q)') /\ KeysAgree' /\ ReportedStays' /\ WithdrawnIsGone'
<1>1. ASSUME NEW q \in Process, q # p PROVE Reading(q)' /\ Loaded(q)'
  BY <1>1 DEF Inv, Aside, Reading, Loaded
<1>2. ASSUME NEW q \in Process, q # p PROVE Fresh(q)'
  BY <1>2 DEF Inv, Aside, Held, Fresh
<1>3. ASSUME NEW q \in Process, q # p PROVE Owned(q)'
  BY <1>3 DEF Inv, Aside, Owned
<1>4. KeysAgree'
  BY DEF Inv, Aside, KeysAgree, Agrees, PubAgrees, InFile
<1>5. ReportedStays' /\ WithdrawnIsGone'
  BY DEF Inv, Aside, ReportedStays, WithdrawnIsGone
<1>. QED
  BY <1>1, <1>2, <1>3, <1>4, <1>5 DEF Held

\* The owner of the file, from its creation to its fsync or its unlink.
LEMMA Owner ==
    ASSUME Inv, NEW p \in Process, pc[p] \in Owners
    PROVE  /\ path \in Inode /\ path # None /\ fd[p] = path /\ reported = {}
           /\ seed[p] \in Key \ withdrawn
           /\ \A q \in Process \ {p} : pc[q] \notin Owners
           /\ \A q \in Process \ {p} : pc[q] = "create" => seed[q] # seed[p]
           /\ node[path] \in {Short, seed[p]}
           /\ pc[p] = "write" => node[path] = Short
           /\ pc[p] = "sync" => node[path] = seed[p]
BY DEF Inv, TypeOK, Owned, Fresh, Owners, Makers

\* Every step of rss_sign_key_load, and the end or the crash of a daemon at any
\* place in it, keeps the inductive invariant.
LEMMA NextInv == ASSUME Inv, [Next]_vars PROVE Inv'
<1>0. TypeOK /\ TypeOK' /\ \A p \in Process : Held(p)
  BY NextTypeOK DEF Inv, Held
<1>a. KeysAgree /\ ReportedStays /\ WithdrawnIsGone
  BY DEF Inv
<1>. DEFINE Goal == /\ \A q \in Process : Held(q)'
                    /\ KeysAgree' /\ ReportedStays' /\ WithdrawnIsGone'
<1>. SUFFICES Goal
  BY <1>0 DEF Inv, Held
<1>. USE NoneAssumption
     DEF TypeOK, Held, InFile, Makers, Owners, files, local, past, Goto, Fails
<1>1. ASSUME NEW p \in Process, Load(p) PROVE Goal
  <2>1. Aside(p)
    BY <1>0, <1>1 DEF Load, Aside
  <2>2. Held(p)'
    BY <1>0, <1>1 DEF Load, Reading, Fresh, Owned, Loaded
  <2>3. Agrees(p)' /\ PubAgrees'
    BY <1>0, <1>a, <1>1 DEF Load, Agrees, PubAgrees, Reading, KeysAgree
  <2>. QED
    BY <2>1, <2>2, <2>3, Elsewhere
<1>2. ASSUME NEW p \in Process, Open(p) PROVE Goal
  <2>1. Aside(p)
    BY <1>0, <1>2 DEF Open, FreshKeys, Aside
  <2>2. Held(p)'
    BY <1>0, <1>2 DEF Open, FreshKeys, Reading, Fresh, Owned, Loaded
  <2>3. Agrees(p)' /\ PubAgrees'
    BY <1>0, <1>a, <1>2 DEF Open, FreshKeys, Agrees, PubAgrees, Reading, KeysAgree
  <2>. QED
    BY <2>1, <2>2, <2>3, Elsewhere
<1>3. ASSUME NEW p \in Process, Read(p) PROVE Goal
  <2>1. Aside(p)
    BY <1>0, <1>3 DEF Read, RetryOrFail, Again, Aside
  <2>2. Held(p)'
    BY <1>0, <1>3 DEF Read, RetryOrFail, Again, Reading, Fresh, Owned, Loaded
  <2>3. Agrees(p)' /\ PubAgrees'
    BY <1>0, <1>a, <1>3 DEF Read, RetryOrFail, Again, Agrees, PubAgrees, Reading, KeysAgree
  <2>. QED
    BY <2>1, <2>2, <2>3, Elsewhere
<1>4. ASSUME NEW p \in Process, Create(p) PROVE Goal
  <2>1. ASSUME path = None PROVE Goal
    <3>0. PICK n \in Inode :
            /\ n \notin {fd[q] : q \in Process} /\ path' = n
            /\ node' = [node EXCEPT ![n] = Short] /\ fd' = [fd EXCEPT ![p] = n]
      BY <1>4, <2>1 DEF Create, Unused
    <3>a. /\ pc[p] = "create" /\ pc' = [pc EXCEPT ![p] = "write"]
          /\ seed' = seed /\ pub' = pub /\ withdrawn' = withdrawn
          /\ reported = {} /\ reported' = {}
          /\ \A q \in Process : pc[q] \notin Owners
      BY <1>0, <1>a, <1>4, <2>1 DEF Create, ReportedStays, Owned
    <3>1. ASSUME NEW q \in Process PROVE Reading(q)'
      BY <1>0, <2>1, <3>0, <3>a DEF Reading, Owned, Fresh
    <3>2. ASSUME NEW q \in Process PROVE Loaded(q)'
      BY <1>0, <2>1, <3>0, <3>a DEF Loaded, Fresh
    <3>3. ASSUME NEW q \in Process PROVE Fresh(q)'
      BY <1>0, <2>1, <3>0, <3>a DEF Fresh
    <3>4. ASSUME NEW q \in Process PROVE Owned(q)'
      BY <1>0, <2>1, <3>0, <3>a DEF Fresh, Owned
    <3>5. KeysAgree'
      BY <1>0, <1>a, <2>1, <3>0, <3>a DEF Loaded, Owned, KeysAgree
    <3>6. ReportedStays'
      BY <1>0, <1>a, <2>1, <3>0, <3>a DEF Owned, ReportedStays
    <3>7. WithdrawnIsGone'
      BY <1>0, <1>a, <2>1, <3>0, <3>a DEF Fresh, Owned, WithdrawnIsGone
    <3>. QED
      BY <3>1, <3>2, <3>3, <3>4, <3>5, <3>6, <3>7
  <2>2. ASSUME path # None PROVE Goal
    <3>0. RetryOrFail(p) /\ UNCHANGED <<path, node, pub, past>> /\ pc[p] = "create"
      BY <1>4, <2>2 DEF Create
    <3>1. Aside(p)
      BY <1>0, <2>2, <3>0 DEF RetryOrFail, Again, Aside
    <3>2. Held(p)'
      BY <1>0, <2>2, <3>0 DEF RetryOrFail, Again, Reading, Fresh, Owned, Loaded
    <3>3. Agrees(p)' /\ PubAgrees'
      BY <1>0, <1>a, <2>2, <3>0 DEF RetryOrFail, Again, Agrees, PubAgrees, Reading, KeysAgree
    <3>. QED
      BY <3>1, <3>2, <3>3, Elsewhere
  <2>. QED
    BY <2>1, <2>2
<1>5. ASSUME NEW p \in Process, Write(p) PROVE Goal
  <2>0. pc[p] \in Owners
    BY <1>5 DEF Write
  <2>a. fd[p] = path /\ reported = {}
    BY <2>0, Owner
  <2>b. /\ UNCHANGED <<path, pub, fd, seed, reported, withdrawn>>
        /\ pc'[p] = "sync"
        /\ \A q \in Process \ {p} : pc'[q] = pc[q] /\ fd'[q] = fd[q] /\ seed'[q] = seed[q]
        /\ node' = [node EXCEPT ![path] = seed[p]]
    BY <1>0, <1>5, <2>a DEF Write
  <2>c. pc[p] = "write"
    BY <1>5 DEF Write
  <2>1. ASSUME NEW q \in Process PROVE Reading(q)' /\ Loaded(q)'
    BY <1>0, <2>0, <2>b, <2>c, Owner DEF Reading, Loaded
  <2>2. ASSUME NEW q \in Process PROVE Fresh(q)'
    BY <1>0, <2>0, <2>b, <2>c, Owner DEF Fresh
  <2>3. ASSUME NEW q \in Process PROVE Owned(q)'
    BY <1>0, <2>0, <2>b, <2>c, Owner DEF Owned
  <2>4. \A k \in Key : InFile(k) => InFile(k)' \/ k \in withdrawn'
    BY <2>0, <2>b, <2>c, Owner
  <2>5. KeysAgree'
    BY <1>0, <1>a, <2>0, <2>b, <2>c, <2>4, Owner DEF KeysAgree, Loaded
  <2>6. ReportedStays' /\ WithdrawnIsGone'
    BY <1>0, <1>a, <2>0, <2>b, <2>c, Owner DEF ReportedStays, WithdrawnIsGone
  <2>. QED
    BY <2>1, <2>2, <2>3, <2>5, <2>6
<1>6. ASSUME NEW p \in Process, Sync(p) PROVE Goal
  <2>0. pc[p] \in Owners
    BY <1>6 DEF Sync
  <2>a. fd[p] = path /\ reported = {}
    BY <2>0, Owner
  <2>b. /\ UNCHANGED <<node, path, pub, seed, withdrawn>>
        /\ pc'[p] = "export"
        /\ \A q \in Process \ {p} : pc'[q] = pc[q] /\ fd'[q] = fd[q] /\ seed'[q] = seed[q]
        /\ fd'[p] = None /\ reported' = {seed[p]}
    BY <1>0, <1>6, <2>a DEF Sync
  <2>c. pc[p] = "sync"
    BY <1>6 DEF Sync
  <2>1. ASSUME NEW q \in Process PROVE Reading(q)' /\ Loaded(q)'
    BY <1>0, <2>0, <2>b, <2>c, Owner DEF Reading, Loaded
  <2>2. ASSUME NEW q \in Process PROVE Fresh(q)'
    BY <1>0, <2>0, <2>b, <2>c, Owner DEF Fresh
  <2>3. ASSUME NEW q \in Process PROVE Owned(q)'
    BY <1>0, <2>0, <2>b, <2>c, Owner DEF Owned
  <2>4. \A k \in Key : InFile(k) => InFile(k)' \/ k \in withdrawn'
    BY <2>0, <2>b, <2>c, Owner
  <2>5. KeysAgree'
    BY <1>0, <1>a, <2>0, <2>b, <2>c, <2>4, Owner DEF KeysAgree, Loaded
  <2>6. ReportedStays' /\ WithdrawnIsGone'
    BY <1>0, <1>a, <2>0, <2>b, <2>c, Owner DEF ReportedStays, WithdrawnIsGone
  <2>. QED
    BY <2>1, <2>2, <2>3, <2>5, <2>6
<1>7. ASSUME NEW p \in Process, PersistFails(p) PROVE Goal
  <2>0. pc[p] \in Owners
    BY <1>7 DEF PersistFails
  <2>a. fd[p] = path /\ reported = {}
    BY <2>0, Owner
  <2>b. /\ UNCHANGED <<node, path, pub, fd, seed, reported, withdrawn>>
        /\ pc'[p] = "unlink"
        /\ \A q \in Process \ {p} : pc'[q] = pc[q] /\ fd'[q] = fd[q] /\ seed'[q] = seed[q]
    BY <1>0, <1>7, <2>a DEF PersistFails
  <2>1. ASSUME NEW q \in Process PROVE Reading(q)' /\ Loaded(q)'
    BY <1>0, <2>0, <2>b, Owner DEF Reading, Loaded
  <2>2. ASSUME NEW q \in Process PROVE Fresh(q)'
    BY <1>0, <2>0, <2>b, Owner DEF Fresh
  <2>3. ASSUME NEW q \in Process PROVE Owned(q)'
    BY <1>0, <2>0, <2>b, Owner DEF Owned
  <2>4. \A k \in Key : InFile(k) => InFile(k)' \/ k \in withdrawn'
    BY <2>0, <2>b, Owner
  <2>5. KeysAgree'
    BY <1>0, <1>a, <2>0, <2>b, <2>4, Owner DEF KeysAgree, Loaded
  <2>6. ReportedStays' /\ WithdrawnIsGone'
    BY <1>0, <1>a, <2>0, <2>b, Owner DEF ReportedStays, WithdrawnIsGone
  <2>. QED
    BY <2>1, <2>2, <2>3, <2>5, <2>6
<1>8. ASSUME NEW p \in Process, Unlink(p) PROVE Goal
  <2>0. pc[p] \in Owners
    BY <1>8 DEF Unlink
  <2>a. fd[p] = path /\ reported = {}
    BY <2>0, Owner
  <2>b. /\ UNCHANGED <<node, pub, reported>>
        /\ pc'[p] = "failed"
        /\ \A q \in Process \ {p} : pc'[q] = pc[q] /\ fd'[q] = fd[q] /\ seed'[q] = seed[q]
        /\ \/ path' = None /\ withdrawn' = withdrawn \cup {seed[p]}
           \/ UNCHANGED <<path, withdrawn>>
    BY <1>0, <1>8, <2>a DEF Unlink
  <2>1. ASSUME NEW q \in Process PROVE Reading(q)' /\ Loaded(q)'
    BY <1>0, <2>0, <2>b, Owner DEF Reading, Loaded
  <2>2. ASSUME NEW q \in Process PROVE Fresh(q)'
    BY <1>0, <2>0, <2>b, Owner DEF Fresh
  <2>3. ASSUME NEW q \in Process PROVE Owned(q)'
    BY <1>0, <2>0, <2>b, Owner DEF Owned
  <2>4. \A k \in Key : InFile(k) => InFile(k)' \/ k \in withdrawn'
    BY <2>0, <2>b, Owner
  <2>5. KeysAgree'
    BY <1>0, <1>a, <2>0, <2>b, <2>4, Owner DEF KeysAgree, Loaded
  <2>6. ReportedStays' /\ WithdrawnIsGone'
    BY <1>0, <1>a, <2>0, <2>b, Owner DEF ReportedStays, WithdrawnIsGone
  <2>. QED
    BY <2>1, <2>2, <2>3, <2>5, <2>6
<1>9. ASSUME NEW p \in Process, MakeFails(p) PROVE Goal
  <2>1. Aside(p)
    BY <1>0, <1>9 DEF MakeFails, Aside
  <2>2. Held(p)'
    BY <1>0, <1>9 DEF MakeFails, Reading, Fresh, Owned, Loaded
  <2>3. Agrees(p)' /\ PubAgrees'
    BY <1>0, <1>a, <1>9 DEF MakeFails, Agrees, PubAgrees, Reading, KeysAgree
  <2>. QED
    BY <2>1, <2>2, <2>3, Elsewhere
<1>10. ASSUME NEW p \in Process, Export(p) PROVE Goal
  <2>1. Aside(p)
    BY <1>0, <1>10 DEF Export, Aside
  <2>2. Held(p)'
    BY <1>0, <1>10 DEF Export, Reading, Fresh, Owned, Loaded
  <2>3. Agrees(p)' /\ PubAgrees'
    BY <1>0, <1>a, <1>10 DEF Export, Agrees, PubAgrees, Reading, KeysAgree
  <2>. QED
    BY <2>1, <2>2, <2>3, Elsewhere
<1>11. ASSUME NEW p \in Process, End(p) PROVE Goal
  <2>1. Aside(p)
    BY <1>0, <1>11 DEF End, Aside
  <2>2. Held(p)'
    BY <1>0, <1>11 DEF End, Reading, Fresh, Owned, Loaded
  <2>3. Agrees(p)' /\ PubAgrees'
    BY <1>0, <1>a, <1>11 DEF End, Agrees, PubAgrees, Reading, KeysAgree
  <2>. QED
    BY <2>1, <2>2, <2>3, Elsewhere
<1>12. CASE UNCHANGED vars
  <2>1. ASSUME NEW q \in Process PROVE Reading(q)' /\ Loaded(q)' /\ Fresh(q)'
    BY <1>0, <1>12 DEF vars, Reading, Loaded, Fresh
  <2>2. ASSUME NEW q \in Process PROVE Owned(q)'
    BY <1>0, <1>12 DEF vars, Owned
  <2>3. KeysAgree' /\ ReportedStays' /\ WithdrawnIsGone'
    BY <1>a, <1>12 DEF vars, KeysAgree, ReportedStays, WithdrawnIsGone
  <2>. QED
    BY <2>1, <2>2, <2>3
<1>. QED
  BY <1>1, <1>2, <1>3, <1>4, <1>5, <1>6, <1>7, <1>8, <1>9, <1>10, <1>11, <1>12
     DEF Next, Step

\* rss_sign_key_load keeps its inductive invariant, for any daemons, inodes, keys
\* and number of retries, with crashes and failing disks.
THEOREM Invariance == Spec => []Inv
<1>1. Init => Inv
  BY InitInv
<1>2. Inv /\ [Next]_vars => Inv'
  BY NextInv
<1>. QED
  BY <1>1, <1>2, PTL DEF Spec

\* Daemons that have loaded a key, and key_path.pub, agree with the file, unless
\* the maker of their key has taken it away -- also when its unlink fails.
THEOREM OneKey == Spec => []KeysAgree
<1>1. Inv => KeysAgree
  BY DEF Inv
<1>. QED
  BY <1>1, Invariance, PTL

\* No load overwrites or removes the key another one has returned as made.
THEOREM KeysStay == Spec => []ReportedStays
<1>1. Inv => ReportedStays
  BY DEF Inv
<1>. QED
  BY <1>1, Invariance, PTL
=============================================================================
