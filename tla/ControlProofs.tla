--------------------------- MODULE ControlProofs ---------------------------
(* What the control commands keep of a daemon's configuration over failed   *)
(* saves, restarts and crashes, for any sections, keys, values and CPUs.    *)
EXTENDS Control, ConfigEntriesProofs

TypeOK ==
    /\ up \in BOOLEAN
    /\ cfg \in Config
    /\ file \in [Dirs -> Contents \cup {NoFile}]
    /\ \A d \in Dirs : DOMAIN promised[d] \subseteq Item
    /\ promised = [d \in Dirs |-> promised[d]]
    /\ args.path \in Dirs \cup {Relative}
    /\ cwd \in Dirs /\ home \in Dirs

\* What was changed since the last save that answered "ok" is still dirty.
ChangesAreOwed == owing \subseteq Owed(cfg)

\* A promised key is what the file says, and what a daemon that has loaded it
\* answers.
PromisesKept ==
    /\ \A d \in Dirs : file[d] # NoFile =>
         \A i \in DOMAIN promised[d] : file[d][i] = promised[d][i]
    /\ SavedOutlivesRestart

Inv == TypeOK /\ Agrees(cfg) /\ ChangesAreOwed /\ PromisesKept

LEMMA InitInv == Init => Inv
<1>. SUFFICES ASSUME Init PROVE Inv
  OBVIOUS
<1>1. cfg \in Config /\ Agrees(cfg)
  BY NoConfigAgrees, ConfigIsOf DEF Init
<1>2. /\ promised = [d \in Dirs |-> promised[d]]
      /\ \A d \in Dirs : DOMAIN promised[d] = {}
      /\ owing = {} /\ up = FALSE
  BY DEF Init
<1>3. file \in [Dirs -> Contents \cup {NoFile}]
  BY DEF Init, EmptyContents, Contents
<1>4. args.path \in Dirs \cup {Relative} /\ cwd \in Dirs /\ home \in Dirs
  BY ControlAssumption DEF Init, NoArgs
<1>. QED
  BY <1>1, <1>2, <1>3, <1>4 DEF Inv, TypeOK, ChangesAreOwed, PromisesKept, SavedOutlivesRestart

\* A load and the two getters of a start answer what the file says.
LEMMA StartsFresh ==
    ASSUME Inv, NEW a, a.path \in Dirs \cup {Relative}, NEW dir \in Dirs, NEW inherited,
           Starts(a, dir, inherited)
    PROVE  /\ cfg' \in Config /\ Agrees(cfg') /\ up' = TRUE
           /\ args'.path \in Dirs \cup {Relative} /\ cwd' \in Dirs /\ home' \in Dirs
           /\ file[home'] # NoFile
           /\ \A i \in Item : Lookup(cfg', i) = file[home'][i]
<1>. DEFINE V == Value \cup {Missing}
            from == Meant(a.path, dir)
            loaded == Parsed(file[from])
            logged == Get(loaded, LogLevel, InfoValue)
            pinned == Get(logged, CpuAffinity, AnyCpuValue)
<1>1. from \in Dirs
  BY DEF Meant
<1>2. /\ file[from] \in Contents /\ file[from] # NoFile
      /\ up' = TRUE /\ cfg' = pinned /\ home' = from /\ args' = a
      /\ cwd' \in Dirs
  BY <1>1, ControlAssumption DEF Inv, TypeOK, Starts
<1>3. /\ InfoValue \in V /\ AnyCpuValue \in V /\ Missing \in V
      /\ LogLevel \in Item /\ CpuAffinity \in Item
  BY ControlAssumption
<1>4. loaded \in ConfigOf(V) /\ Agrees(loaded)
  BY <1>2, ParsedAgrees DEF Contents
<1>5. \A i \in Item : Lookup(loaded, i) = file[from][i]
  BY ParsedAnswers
<1>. HIDE DEF V, loaded, from
<1>6. /\ logged \in ConfigOf(V) /\ Agrees(logged)
      /\ MemoryOf(logged) = MemoryOf(loaded)
  BY <1>3, <1>4, GetAgrees, GetMemory
<1>. HIDE DEF logged
<1>7. /\ pinned \in ConfigOf(V) /\ Agrees(pinned)
      /\ MemoryOf(pinned) = MemoryOf(logged)
  BY <1>3, <1>6, GetAgrees, GetMemory
<1>. HIDE DEF pinned
<1>8. \A i \in Item : Lookup(pinned, i) = Lookup(loaded, i)
  <2>1. MemoryOf(pinned).view = MemoryOf(loaded).view
    BY <1>6, <1>7
  <2>. QED
    BY <2>1 DEF MemoryOf
<1>. QED
  BY <1>1, <1>2, <1>5, <1>7, <1>8, ConfigIsOf DEF V

\* Whoever stops being up, or comes up, owes nothing and keeps the promises of
\* the file it loads.
LEMMA LifeInv ==
    ASSUME Inv, owing' = {}, UNCHANGED <<file, promised>>,
           \/ Ends
           \/ \E a \in Lines \cup {args}, dir \in Dirs, inherited \in {None, affinity} :
                Starts(a, dir, inherited)
    PROVE  Inv'
<1>1. CASE Ends
  <2>1. /\ cfg' \in Config /\ Agrees(cfg') /\ up' = FALSE
        /\ args'.path \in Dirs \cup {Relative} /\ cwd' \in Dirs /\ home' \in Dirs
    BY <1>1, NoConfigAgrees, ConfigIsOf, ControlAssumption DEF Ends, NoArgs
  <2>. QED
    BY <2>1 DEF Inv, TypeOK, ChangesAreOwed, PromisesKept, SavedOutlivesRestart
<1>2. CASE \E a \in Lines \cup {args}, dir \in Dirs, inherited \in {None, affinity} :
             Starts(a, dir, inherited)
  <2>1. PICK a \in Lines \cup {args}, dir \in Dirs, inherited \in {None, affinity} :
               Starts(a, dir, inherited)
    BY <1>2
  <2>2. a.path \in Dirs \cup {Relative}
    BY <2>1, ControlAssumption DEF Args, Inv, TypeOK
  <2>3. /\ cfg' \in Config /\ Agrees(cfg') /\ up' = TRUE
        /\ args'.path \in Dirs \cup {Relative} /\ cwd' \in Dirs /\ home' \in Dirs
        /\ file[home'] # NoFile
        /\ \A i \in Item : Lookup(cfg', i) = file[home'][i]
    BY <2>1, <2>2, StartsFresh
  <2>4. TypeOK'
    BY <2>3 DEF Inv, TypeOK
  <2>5. PromisesKept'
    <3>1. \A i \in DOMAIN promised[home'] : file[home'][i] = promised[home'][i] /\ i \in Item
      BY <2>3 DEF Inv, TypeOK, PromisesKept
    <3>. QED
      BY <2>3, <3>1 DEF Inv, PromisesKept, SavedOutlivesRestart
  <2>. QED
    BY <2>3, <2>4, <2>5 DEF Inv, ChangesAreOwed
<1>. QED
  BY <1>1, <1>2

\* A change makes a key dirty that is no longer promised, and no other key's
\* answer is another.
LEMMA ChangedInv ==
    ASSUME Inv, up, NEW items \in SUBSET Item, Changed(items),
           UNCHANGED <<file, up, place>>,
           cfg' \in Config, Agrees(cfg'),
           items \cup Owed(cfg) \subseteq Owed(cfg'),
           \A i \in Item \ items : Lookup(cfg', i) = Lookup(cfg, i)
    PROVE  Inv'
<1>1. /\ home \in Dirs /\ home' = home /\ cwd' = cwd /\ args' = args
      /\ promised' = [promised EXCEPT ![home] = Without(home, items)]
      /\ owing' = owing \cup items
  BY DEF Changed, Inv, TypeOK, place
<1>2. /\ DOMAIN promised'[home] = DOMAIN promised[home] \ items
      /\ \A i \in DOMAIN promised'[home] : promised'[home][i] = promised[home][i]
      /\ \A d \in Dirs \ {home} : promised'[d] = promised[d]
      /\ promised' = [d \in Dirs |-> promised'[d]]
  BY <1>1 DEF Without, Inv, TypeOK
<1>3. \A d \in Dirs : /\ DOMAIN promised'[d] \subseteq DOMAIN promised[d]
                      /\ \A i \in DOMAIN promised'[d] : promised'[d][i] = promised[d][i]
  BY <1>2
<1>4. TypeOK'
  BY <1>1, <1>2, <1>3 DEF Inv, TypeOK
<1>5. \A i \in DOMAIN promised'[home] : Lookup(cfg', i) = promised'[home][i]
  BY <1>1, <1>2 DEF Inv, TypeOK, PromisesKept, SavedOutlivesRestart
<1>6. PromisesKept'
  BY <1>1, <1>3, <1>5 DEF Inv, TypeOK, PromisesKept, SavedOutlivesRestart
<1>. QED
  BY <1>1, <1>4, <1>6 DEF Inv, ChangesAreOwed

LEMMA ChangeInv == ASSUME Inv, Change PROVE Inv'
<1>. DEFINE V == Value \cup {Missing}
<1>0. up /\ cfg \in ConfigOf(V) /\ Agrees(cfg) /\ UNCHANGED <<file, up, place>>
  BY ConfigIsOf DEF Inv, TypeOK, Change
<1>1. PICK p \in Inputs :
        \/ cfg' = SetStr(cfg, p[1], p[2]) /\ Changed({p[1]})
        \/ /\ CanUnset(cfg, p[1]) /\ cfg' = UnsetKey(cfg, p[1])
           /\ Changed({p[1]})
        \/ /\ CanRemove(cfg, p[1][1]) /\ cfg' = DropSection(cfg, p[1][1])
           /\ Changed({i \in Item : i[1] = p[1][1] /\ Lookup(cfg, i) # Missing})
  BY DEF Change
<1>. DEFINE i == p[1]
            m == MemoryOf(cfg)
<1>2. i \in Item /\ i[1] \in Section /\ p[2] \in V /\ p[2] # Missing
  BY ControlAssumption, MissingAssumption DEF Item
<1>3. m = [view |-> m.view, touched |-> Owed(cfg), dropped |-> m.dropped]
      /\ \A j \in Item : m.view[j] = Lookup(cfg, j)
  BY DEF MemoryOf
<1>4. MemoryOf(cfg').touched = Owed(cfg') /\ \A j \in Item : MemoryOf(cfg').view[j] = Lookup(cfg', j)
  BY DEF MemoryOf
<1>. HIDE DEF V, i, m
<1>5. CASE cfg' = SetStr(cfg, i, p[2]) /\ Changed({i})
  <2>1. cfg' \in Config /\ Agrees(cfg')
    BY <1>0, <1>2, <1>5, SetAgrees, ConfigIsOf DEF V
  <2>2. MemoryOf(cfg') = SetIn(m, i, p[2])
    BY <1>0, <1>2, <1>5, SetMemory DEF m
  <2>3. Owed(cfg') = Owed(cfg) \cup {i} /\ \A j \in Item \ {i} : Lookup(cfg', j) = Lookup(cfg, j)
    BY <1>3, <1>4, <2>2 DEF SetIn
  <2>. QED
    BY <1>0, <1>2, <1>5, <2>1, <2>3, ChangedInv
<1>6. CASE CanUnset(cfg, i) /\ cfg' = UnsetKey(cfg, i) /\ Changed({i})
  <2>1. cfg' \in Config /\ Agrees(cfg')
    BY <1>0, <1>2, <1>6, UnsetAgrees, ConfigIsOf DEF V
  <2>2. MemoryOf(cfg') = UnsetIn(m, i)
    BY <1>0, <1>2, <1>6, UnsetMemory DEF m
  <2>3. Owed(cfg') = Owed(cfg) \cup {i} /\ \A j \in Item \ {i} : Lookup(cfg', j) = Lookup(cfg, j)
    BY <1>3, <1>4, <2>2 DEF UnsetIn
  <2>. QED
    BY <1>0, <1>2, <1>6, <2>1, <2>3, ChangedInv
<1>7. CASE /\ CanRemove(cfg, i[1]) /\ cfg' = DropSection(cfg, i[1])
           /\ Changed({j \in Item : j[1] = i[1] /\ Lookup(cfg, j) # Missing})
  <2>. DEFINE items == {j \in Item : j[1] = i[1] /\ Lookup(cfg, j) # Missing}
  <2>1. cfg' \in Config /\ Agrees(cfg')
    BY <1>0, <1>2, <1>7, DropAgrees, ConfigIsOf DEF V
  <2>2. MemoryOf(cfg') = RemoveIn(m, i[1])
    BY <1>0, <1>2, <1>7, DropMemory DEF m
  <2>3. /\ Owed(cfg') = Owed(cfg) \cup {j \in Item : j[1] = i[1] /\ m.view[j] # Missing}
        /\ \A j \in Item : Lookup(cfg', j) = IF j[1] = i[1] THEN Missing ELSE m.view[j]
    BY <1>3, <1>4, <2>2 DEF RemoveIn
  <2>4. Owed(cfg') = Owed(cfg) \cup items /\ \A j \in Item \ items : Lookup(cfg', j) = Lookup(cfg, j)
    BY <1>3, <2>3
  <2>. HIDE DEF items
  <2>5. items \in SUBSET Item /\ Changed(items)
    BY <1>7 DEF items
  <2>. QED
    BY <1>0, <2>1, <2>4, <2>5, ChangedInv
<1>. QED
  BY <1>1, <1>5, <1>6, <1>7 DEF i

\* What a save promises is what it wrote; what was promised before is still
\* in the file, or was written with what it was.
LEMMA SaveInv == ASSUME Inv, ConfigSave PROVE Inv'
<1>. DEFINE V == Value \cup {Missing}
            m == MemoryOf(cfg)
            keys == Saved \cup owing
            old == promised[Here]
<1>1. /\ up /\ up' = up /\ cfg' = Clean(cfg) /\ owing' = {}
      /\ UNCHANGED <<args, cwd, home>>
      /\ file' = [file EXCEPT ![Here] = SavedFile]
      /\ promised' = [promised EXCEPT ![Here] = Promising(keys)]
      /\ cfg \in Config /\ cfg \in ConfigOf(V) /\ Agrees(cfg)
  BY ConfigIsOf DEF Inv, TypeOK, ConfigSave, Answers, place
<1>2. /\ m \in Memory /\ m.touched = Owed(cfg) /\ m.dropped = OwedHeaders(cfg)
      /\ m.view \in Contents /\ \A i \in Item : m.view[i] = Lookup(cfg, i)
  <2>1. m \in Memory
    BY <1>1, MemoryIsMemory
  <2>. QED
    BY <2>1 DEF MemoryOf, Memory
<1>3. /\ cfg' \in Config /\ Agrees(cfg')
      /\ \A i \in Item : Lookup(cfg', i) = Lookup(cfg, i)
  <2>1. cfg' \in ConfigOf(V) /\ Agrees(cfg')
    BY <1>1, CleanAgrees
  <2>2. MemoryOf(cfg').view = m.view
    BY <1>1, CleanMemory DEF Settled, Loaded
  <2>. QED
    BY <1>2, <2>1, <2>2, ConfigIsOf DEF MemoryOf
<1>4. Here \in Dirs /\ file[Here] \in Contents \cup {NoFile}
  BY DEF Here, Meant, Inv, TypeOK
<1>. HIDE DEF m
<1>5. keys \subseteq Item /\ owing \subseteq Owed(cfg)
  BY DEF Inv, ChangesAreOwed, Saved, Owed
<1>6. /\ DOMAIN old \subseteq Item
      /\ \A i \in DOMAIN old : file[Here] # NoFile => file[Here][i] = old[i]
  BY <1>4 DEF Inv, TypeOK, PromisesKept
<1>7. /\ DOMAIN promised'[Here] = keys \cup DOMAIN old
      /\ \A i \in keys : promised'[Here][i] = Lookup(cfg, i)
      /\ \A i \in DOMAIN old \ keys : promised'[Here][i] = old[i]
  <2>1. promised'[Here] = Promising(keys)
    BY <1>1, <1>4 DEF Inv, TypeOK
  <2>. QED
    BY <2>1 DEF Promising
<1>8. /\ \A d \in Dirs \ {Here} : promised'[d] = promised[d] /\ file'[d] = file[d]
      /\ promised' = [d \in Dirs |-> promised'[d]]
      /\ file'[Here] = SavedFile
  BY <1>1, <1>4 DEF Inv, TypeOK
<1>. HIDE DEF keys, old
<1>9. SavedFile \in Contents
  BY <1>1, <1>2, <1>4 DEF SavedFile, Overlay, Contents, m
<1>10. ASSUME NEW i \in keys PROVE SavedFile[i] = Lookup(cfg, i)
  <2>1. CASE file[Here] = NoFile
    BY <1>2, <1>5, <2>1 DEF SavedFile, m
  <2>2. CASE file[Here] # NoFile
    <3>1. i \in m.touched \/ i[1] \in m.dropped
      BY <1>2, <1>5, <2>2 DEF keys, Saved
    <3>2. i[1] \in m.dropped => m.view[i] = Missing
      BY <1>1, <1>5, DroppedIsMissing DEF m
    <3>. QED
      BY <1>1, <1>2, <1>5, <2>2, <3>1, <3>2 DEF SavedFile, Overlay, m
  <2>. QED
    BY <2>1, <2>2
<1>11. ASSUME NEW i \in DOMAIN old \ keys PROVE SavedFile[i] = old[i]
  <2>1. i \in Item /\ file[Here] # NoFile
    BY <1>6 DEF keys, Saved
  <2>2. file[Here][i] = old[i]
    BY <1>6, <2>1
  <2>3. i \notin m.touched /\ i[1] \notin m.dropped
    BY <1>2, <2>1 DEF keys, Saved
  <2>. QED
    BY <2>1, <2>2, <2>3 DEF SavedFile, Overlay, m
<1>12. ASSUME NEW i \in DOMAIN promised'[home] PROVE Lookup(cfg', i) = promised'[home][i]
  <2>0. home \in Dirs /\ home' = home /\ \A j \in DOMAIN promised[home] : j \in Item
        /\ Lookup(cfg, j) = promised[home][j]
    BY <1>1 DEF Inv, TypeOK, PromisesKept, SavedOutlivesRestart
  <2>1. CASE home # Here
    BY <1>3, <1>8, <2>0, <2>1
  <2>2. CASE home = Here /\ i \in keys
    BY <1>3, <1>5, <1>7, <2>2
  <2>3. CASE home = Here /\ i \notin keys
    BY <1>3, <1>7, <2>0, <2>3 DEF old
  <2>. QED
    BY <2>1, <2>2, <2>3
<1>13. \A d \in Dirs : file'[d] # NoFile =>
         \A i \in DOMAIN promised'[d] : file'[d][i] = promised'[d][i]
  <2>1. \A i \in DOMAIN promised'[Here] : file'[Here][i] = promised'[Here][i]
    BY <1>7, <1>8, <1>10, <1>11
  <2>. QED
    BY <1>8, <2>1 DEF Inv, PromisesKept
<1>14. file' \in [Dirs -> Contents \cup {NoFile}]
  BY <1>1, <1>9 DEF Inv, TypeOK
<1>15. \A d \in Dirs : DOMAIN promised'[d] \subseteq Item
  BY <1>5, <1>6, <1>7, <1>8 DEF Inv, TypeOK
<1>16. TypeOK'
  BY <1>1, <1>3, <1>8, <1>14, <1>15 DEF Inv, TypeOK
<1>17. PromisesKept'
  BY <1>1, <1>12, <1>13 DEF PromisesKept, SavedOutlivesRestart
<1>. QED
  BY <1>1, <1>3, <1>16, <1>17 DEF Inv, ChangesAreOwed

\* A file that somebody else edits breaks no promise but of what it changed.
LEMMA EditFileInv == ASSUME Inv, EditFile PROVE Inv'
<1>1. PICK dir \in Dirs :
        \/ /\ file[dir] # NoFile
           /\ \E p \in Edits :
                /\ file' = [file EXCEPT ![dir][p[1]] = p[2]]
                /\ promised' = [promised EXCEPT ![dir] = Without(dir, {p[1]})]
        \/ /\ file' = [file EXCEPT ![dir] = IF @ = NoFile THEN EmptyContents ELSE NoFile]
           /\ promised' = [promised EXCEPT ![dir] = <<>>]
  BY DEF EditFile
<1>2. UNCHANGED <<up, cfg, args, cwd, home, owing>>
  BY DEF EditFile, place
<1>3. /\ file' \in [Dirs -> Contents \cup {NoFile}]
      /\ promised' = [d \in Dirs |-> promised'[d]]
      /\ \A d \in Dirs \ {dir} : promised'[d] = promised[d] /\ file'[d] = file[d]
      /\ DOMAIN promised'[dir] \subseteq DOMAIN promised[dir]
      /\ \A i \in DOMAIN promised'[dir] : promised'[dir][i] = promised[dir][i]
      /\ file'[dir] # NoFile =>
           \A i \in DOMAIN promised'[dir] : file'[dir][i] = promised'[dir][i]
  <2>1. CASE /\ file[dir] # NoFile
             /\ \E p \in Edits :
                  /\ file' = [file EXCEPT ![dir][p[1]] = p[2]]
                  /\ promised' = [promised EXCEPT ![dir] = Without(dir, {p[1]})]
    <3>0. PICK p \in Edits : /\ file' = [file EXCEPT ![dir][p[1]] = p[2]]
                             /\ promised' = [promised EXCEPT ![dir] = Without(dir, {p[1]})]
      BY <2>1
    <3>1. p[1] \in Item /\ p[2] \in Value /\ file[dir] \in Contents
      BY <2>1, ControlAssumption DEF Inv, TypeOK
    <3>2. /\ file'[dir] = [file[dir] EXCEPT ![p[1]] = p[2]]
          /\ file'[dir] \in Contents
          /\ \A i \in Item : i # p[1] => file'[dir][i] = file[dir][i]
      BY <2>1, <3>0, <3>1 DEF Inv, TypeOK, Contents
    <3>3. /\ file' \in [Dirs -> Contents \cup {NoFile}]
          /\ \A d \in Dirs \ {dir} : file'[d] = file[d]
      BY <2>1, <3>0, <3>1, <3>2 DEF Inv, TypeOK
    <3>4. /\ promised'[dir] = Without(dir, {p[1]})
          /\ promised' = [d \in Dirs |-> promised'[d]]
          /\ \A d \in Dirs \ {dir} : promised'[d] = promised[d]
      BY <3>0 DEF Inv, TypeOK
    <3>5. /\ DOMAIN promised'[dir] = DOMAIN promised[dir] \ {p[1]}
          /\ \A i \in DOMAIN promised'[dir] : promised'[dir][i] = promised[dir][i]
      BY <3>4 DEF Without
    <3>6. \A i \in DOMAIN promised'[dir] : file'[dir][i] = promised'[dir][i]
      <4>1. \A i \in DOMAIN promised[dir] : i \in Item /\ file[dir][i] = promised[dir][i]
        BY <2>1 DEF Inv, TypeOK, PromisesKept
      <4>. QED
        BY <3>2, <3>5, <4>1
    <3>. QED
      BY <3>3, <3>4, <3>5, <3>6
  <2>2. CASE /\ file' = [file EXCEPT ![dir] = IF @ = NoFile THEN EmptyContents ELSE NoFile]
             /\ promised' = [promised EXCEPT ![dir] = <<>>]
    <3>1. promised'[dir] = <<>> /\ DOMAIN promised'[dir] = {}
      BY <2>2 DEF Inv, TypeOK
    <3>2. EmptyContents \in Contents
      BY DEF EmptyContents, Contents
    <3>. QED
      BY <2>2, <3>1, <3>2 DEF Inv, TypeOK
  <2>. QED
    BY <1>1, <2>1, <2>2
<1>4. TypeOK'
  BY <1>2, <1>3 DEF Inv, TypeOK
<1>5. \A d \in Dirs : file'[d] # NoFile =>
         \A i \in DOMAIN promised'[d] : file'[d][i] = promised'[d][i]
  BY <1>3 DEF Inv, PromisesKept
<1>6. SavedOutlivesRestart'
  <2>1. \A i \in DOMAIN promised'[home] : /\ i \in DOMAIN promised[home]
                                         /\ promised'[home][i] = promised[home][i]
    BY <1>3 DEF Inv, TypeOK
  <2>. QED
    BY <1>2, <2>1 DEF Inv, PromisesKept, SavedOutlivesRestart
<1>. QED
  BY <1>2, <1>4, <1>5, <1>6 DEF Inv, ChangesAreOwed, PromisesKept

LEMMA NextInv == ASSUME Inv, [Next]_vars PROVE Inv'
<1>1. CASE Launch
  BY <1>1, LifeInv DEF Launch
<1>2. CASE LeaveLoop
  BY <1>2, LifeInv DEF LeaveLoop, Exec, Inv, TypeOK
<1>3. CASE Crash
  BY <1>3, LifeInv DEF Crash
<1>4. CASE Terminate \/ ConfigGet \/ Refuse \/ ConfigSaveFails \/ SetLogLevel
           \/ SetAffinity \/ Restart \/ Shutdown \/ UNCHANGED vars
  <2>1. UNCHANGED <<file, up, cfg, place, owing, promised>>
    BY <1>4 DEF Terminate, ConfigGet, Refuse, ConfigSaveFails, SetLogLevel, SetAffinity,
                Restart, Shutdown, vars, history
  <2>. QED
    BY <2>1 DEF Inv, TypeOK, ChangesAreOwed, PromisesKept, SavedOutlivesRestart, place
<1>5. CASE ConfigSave
  BY <1>5, SaveInv
<1>6. CASE Change
  BY <1>6, ChangeInv
<1>7. CASE EditFile
  BY <1>7, EditFileInv
<1>. QED
  BY <1>1, <1>2, <1>3, <1>4, <1>5, <1>6, <1>7 DEF Next

\* The flags, the file and what was promised stay in step, over failed saves,
\* edits of the file, restarts and crashes.
THEOREM ControlInvariance == Spec => []Inv
<1>1. Init => Inv
  BY InitInv
<1>2. Inv /\ [Next]_vars => Inv'
  BY NextInv
<1>. QED
  BY <1>1, <1>2, PTL DEF Spec

-----------------------------------------------------------------------------

\* Once config-save has answered "ok", every key the daemon changed before is,
\* in every life that loads the file it wrote, what it says until somebody
\* changes that key: rss_config_save, the load of the next life, and the
\* working directory that says which file a relative path means.
THEOREM SaveOutlivesRestart == Spec => []SavedOutlivesRestart
<1>1. Inv => SavedOutlivesRestart
  BY DEF Inv, PromisesKept
<1>. QED
  BY <1>1, ControlInvariance, PTL

\* config-get-section lists what config-get answers, and else only defaults:
\* rss_config_foreach and find_entry read the same flags.
THEOREM SectionShowsWhatIsSet == Spec => []ShowsWhatIsSet
<1>1. Inv => ShowsWhatIsSet
  <2>. SUFFICES ASSUME Inv, NEW i \in Item
                PROVE  /\ Lookup(cfg, i) # Missing => i[2] \in Shown(cfg, i[1])
                       /\ i[2] \in Shown(cfg, i[1]) /\ Lookup(cfg, i) = Missing
                            => cfg.ents[i].defaulted
    BY DEF ShowsWhatIsSet
  <2>1. EntryAgrees(cfg, i) /\ i[2] \in Key /\ <<i[1], i[2]>> = i
    BY DEF Inv, Agrees, Item
  <2>2. i[2] \in Shown(cfg, i[1]) <=> /\ cfg.secs[i[1]].here /\ ~cfg.secs[i[1]].removed
                                      /\ cfg.ents[i].here /\ ~cfg.ents[i].removed
    BY <2>1 DEF Shown
  <2>3. Lookup(cfg, i) # Missing => Configured(cfg.ents[i])
    BY DEF Lookup
  <2>4. Lookup(cfg, i) = Missing /\ cfg.ents[i].here => ~Configured(cfg.ents[i])
    BY <2>1 DEF Lookup, EntryAgrees
  <2>. QED
    BY <2>1, <2>2, <2>3, <2>4 DEF EntryAgrees, Configured
<1>. QED
  BY <1>1, ControlInvariance, PTL
=============================================================================
