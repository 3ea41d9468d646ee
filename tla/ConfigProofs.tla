---------------------------- MODULE ConfigProofs ----------------------------
(* The lines of a config file: for every file and every memory, a save      *)
(* reads back as the map it owes says, keeps every line that is not its     *)
(* own, has nothing to do the second time, adds no line the parser rejects, *)
(* and leaves no trace of a section that comes and goes.  The daemons of    *)
(* one camera on one config file: what their flags keep, for any number of  *)
(* daemons, sections, keys and values, and that flags and lines implement   *)
(* the map of SharedConfig.                                                 *)
EXTENDS Config, ConfigEdit, ConfigEntriesProofs, SequenceTheorems, FiniteSetTheorems, WellFoundedInduction

-----------------------------------------------------------------------------
(* Line numbers.                                                           *)

\* There is a least one in every set of naturals.
LEMMA Least ==
    ASSUME NEW T \in SUBSET Nat, T # {}
    PROVE  \E x \in T : \A y \in T : x <= y
<1>1. PICK R : IsWellFoundedOn(R, Nat) /\ \A x, y \in Nat : <<y, x>> \in R <=> y < x
  <2>. DEFINE R == OpToRel(<, Nat)
  <2>1. IsWellFoundedOn(R, Nat)
    BY NatLessThanWellFounded
  <2>2. \A x, y \in Nat : <<y, x>> \in R <=> y < x
    BY DEF OpToRel
  <2>. HIDE DEF R
  <2>. QED
    BY <2>1, <2>2
<1>2. PICK x \in T : \A y \in T : ~ (<<y, x>> \in R)
  BY <1>1, WFMin
<1>3. ASSUME NEW y \in T PROVE x <= y
  <2>1. x \in Nat /\ y \in Nat
    OBVIOUS
  <2>2. ~ (y < x)
    BY <1>1, <1>2, <2>1, Zenon
  <2>. QED
    BY <2>1, <2>2
<1>. QED
  BY <1>3

\* Max is the greatest element, of a set of line numbers.
LEMMA Greatest ==
    ASSUME NEW N \in Nat, NEW S \in SUBSET (0..N), S # {}
    PROVE  Max(S) \in S /\ \A x \in S : x <= Max(S)
<1>. DEFINE G(m) == m \in S /\ \A x \in S : m >= x
            D == {d \in Nat : N - d \in S}
<1>1. PICK x \in S : TRUE
  OBVIOUS
<1>2. x \in 0..N
  OBVIOUS
<1>3. N - x \in D
  BY <1>2
<1>4. PICK d \in D : \A e \in D : d <= e
  BY <1>3, Least
<1>5. G(N - d)
  <2>1. d \in Nat /\ N - d \in S
    OBVIOUS
  <2>2. ASSUME NEW y \in S PROVE N - d >= y
    <3>1. y \in 0..N /\ N - y \in D
      OBVIOUS
    <3>2. d <= N - y
      BY <1>4, <3>1
    <3>. QED
      BY <2>1, <3>1, <3>2
  <2>. QED
    BY <2>1, <2>2
<1>6. Max(S) = CHOOSE m : G(m)
  BY DEF Max
<1>. HIDE DEF G
<1>7. G(Max(S))
  BY <1>5, <1>6, Zenon
<1>8. Max(S) \in 0..N
  BY <1>7 DEF G
<1>. QED
  BY <1>7, <1>8 DEF G

\* Max, once the greatest is known.
LEMMA GreatestIs ==
    ASSUME NEW N \in Nat, NEW S \in SUBSET (0..N), NEW m \in S, \A x \in S : x <= m
    PROVE  Max(S) = m
<1>1. Max(S) \in S /\ \A x \in S : x <= Max(S)
  BY Greatest
<1>2. Max(S) \in 0..N /\ m \in 0..N /\ m <= Max(S) /\ Max(S) <= m
  BY <1>1
<1>. QED
  BY <1>2

-----------------------------------------------------------------------------
(* What a load says of a text.                                             *)

\* The headers at or above a line.
Above(T, n) == {h \in DOMAIN T : T[h].kind = "head" /\ h <= n}

\* The fields of a scan: the section of a line is the one of the last
\* header at or above it, Global if there is none.
LEMMA ScanFields ==
    ASSUME NEW T \in Seq(Line)
    PROVE  /\ Scan(T).line = T
           /\ \A n \in 1..Len(T) :
                Scan(T).sec[n] = IF Above(T, n) = {} THEN Global ELSE T[Max(Above(T, n))].sec
<1>1. DOMAIN T = 1..Len(T)
  OBVIOUS
<1>2. ASSUME NEW n \in 1..Len(T)
      PROVE  Above(T, n) = {h \in {g \in DOMAIN T : T[g].kind = "head"} : h <= n}
  BY DEF Above
<1>. QED
  BY <1>1, <1>2 DEF Scan

\* What a line can be.
LEMMA LineKinds ==
    ASSUME NEW l \in Line
    PROVE  /\ l.kind \in {"blank", "note", "head", "key"}
           /\ l.kind = "head" => l.sec \in Section
           /\ l.kind = "key" => /\ l.key \in Key /\ l.val \in Value \ DOMAIN Cut
                                /\ l.kw \in Nat /\ l.cw \in Nat
BY DEF Line

\* The section in force is the one of the last header.
LEMMA SectionStep ==
    ASSUME NEW T \in Seq(Line), NEW n \in 1..Len(T)
    PROVE  /\ T[n].kind = "head" => Scan(T).sec[n] = T[n].sec
           /\ T[n].kind # "head" /\ n = 1 => Scan(T).sec[n] = Global
           /\ T[n].kind # "head" /\ n # 1 => Scan(T).sec[n] = Scan(T).sec[n - 1]
<1>. DEFINE A(m) == Above(T, m)
<1>1. Len(T) \in Nat /\ DOMAIN T = 1..Len(T) /\ A(n) \subseteq 0..Len(T)
  BY DEF Above
<1>2. Scan(T).sec[n] = IF A(n) = {} THEN Global ELSE T[Max(A(n))].sec
  BY ScanFields
<1>3. CASE T[n].kind = "head"
  <2>1. n \in A(n) /\ \A x \in A(n) : x <= n
    BY <1>1, <1>3 DEF Above
  <2>2. Max(A(n)) = n
    BY <1>1, <2>1, GreatestIs
  <2>. QED
    BY <1>2, <1>3, <2>1, <2>2
<1>4. CASE T[n].kind # "head" /\ n = 1
  <2>1. A(n) = {}
    BY <1>1, <1>4 DEF Above
  <2>. QED
    BY <1>2, <1>4, <2>1
<1>5. CASE T[n].kind # "head" /\ n # 1
  <2>1. n - 1 \in 1..Len(T) /\ n \in Nat
    BY <1>5, <1>1
  <2>2. A(n) = A(n - 1)
    BY <1>5, <2>1, <1>1 DEF Above
  <2>3. Scan(T).sec[n - 1] = IF A(n - 1) = {} THEN Global ELSE T[Max(A(n - 1))].sec
    BY <2>1, ScanFields
  <2>. QED
    BY <1>2, <1>5, <2>2, <2>3
<1>. QED
  BY <1>3, <1>4, <1>5

\* ... and depends on the lines above only.
LEMMA SectionPrefix ==
    ASSUME NEW T \in Seq(Line), NEW U \in Seq(Line), NEW n \in 1..Len(T), n \in 1..Len(U),
           \A m \in 1..n : T[m] = U[m]
    PROVE  Scan(T).sec[n] = Scan(U).sec[n]
<1>1. Len(T) \in Nat /\ Len(U) \in Nat /\ DOMAIN T = 1..Len(T) /\ DOMAIN U = 1..Len(U)
  OBVIOUS
<1>2. Above(T, n) = Above(U, n)
  BY <1>1 DEF Above
<1>3. Above(T, n) # {} => T[Max(Above(T, n))] = U[Max(Above(T, n))]
  <2>. SUFFICES ASSUME Above(T, n) # {} PROVE T[Max(Above(T, n))] = U[Max(Above(T, n))]
    OBVIOUS
  <2>1. Above(T, n) \subseteq 0..Len(T)
    BY <1>1 DEF Above
  <2>2. Max(Above(T, n)) \in Above(T, n)
    BY <1>1, <2>1, Greatest
  <2>. QED
    BY <1>1, <2>2 DEF Above
<1>. QED
  BY <1>2, <1>3, ScanFields

\* The section in force after a text.
End(T) == IF T = <<>> THEN Global ELSE Scan(T).sec[Len(T)]

\* Every line is in a section.
LEMMA SectionsTyped ==
    ASSUME NEW T \in Seq(Line)
    PROVE  \A n \in 1..Len(T) : Scan(T).sec[n] \in Section
<1>. SUFFICES ASSUME NEW n \in 1..Len(T) PROVE Scan(T).sec[n] \in Section
  OBVIOUS
<1>1. Len(T) \in Nat /\ DOMAIN T = 1..Len(T) /\ Above(T, n) \subseteq 0..Len(T)
  BY DEF Above
<1>2. CASE Above(T, n) # {}
  <2>1. Max(Above(T, n)) \in Above(T, n)
    BY <1>1, <1>2, Greatest
  <2>2. T[Max(Above(T, n))] \in Line /\ T[Max(Above(T, n))].kind = "head"
    BY <1>1, <2>1 DEF Above
  <2>3. T[Max(Above(T, n))].sec \in Section
    BY <2>2, LineKinds
  <2>. QED
    BY <1>2, <2>3, ScanFields
<1>. QED
  BY <1>2, ScanFields, GlobalAssumption

\* The section in force is a section.
LEMMA EndTyped == ASSUME NEW T \in Seq(Line) PROVE End(T) \in Section
<1>1. T # <<>> => Len(T) \in 1..Len(T)
  BY EmptySeq
<1>. QED
  BY <1>1, SectionsTyped, GlobalAssumption DEF End

\* The lines that bind an item.
LEMMA KeyLinesAre ==
    ASSUME NEW T \in Seq(Line), NEW i
    PROVE  KeyLines(Scan(T), i) =
             {n \in 1..Len(T) : /\ T[n].kind = "key" /\ Scan(T).sec[n] = i[1]
                                /\ T[n].key = i[2]}
<1>1. DOMAIN T = 1..Len(T) /\ Scan(T).line = T
  BY ScanFields
<1>. QED
  BY <1>1 DEF KeyLines, LinesOf

\* The last of them is what a load answers.
LEMMA LoadIs ==
    ASSUME NEW T \in Seq(Line), NEW i \in Item
    PROVE  Load(T)[i] = IF KeyLines(Scan(T), i) = {} THEN Missing
                        ELSE T[Max(KeyLines(Scan(T), i))].val
BY DEF Load

\* Nothing says nothing.
LEMMA EmptyLoad == Load(<<>>) = EmptyContents /\ End(<<>>) = Global
<1>1. ASSUME NEW T \in Seq(Line), Len(T) = 0 PROVE Load(T) = EmptyContents
  <2>1. ASSUME NEW i \in Item PROVE Load(T)[i] = Missing
    <3>1. KeyLines(Scan(T), i) \subseteq 1..Len(T)
      BY KeyLinesAre
    <3>2. 1..Len(T) = {}
      BY <1>1
    <3>. QED
      BY <3>1, <3>2, LoadIs
  <2>. QED
    BY <2>1 DEF Load, EmptyContents
<1>2. <<>> \in Seq(Line) /\ Len(<<>>) = 0
  BY EmptySeq
<1>3. Load(<<>>) = EmptyContents
  BY <1>1, <1>2, Zenon
<1>. QED
  BY <1>3 DEF End

\* The lines above the last one are read as if it were not there.
LEMMA AppendKeeps ==
    ASSUME NEW T \in Seq(Line), NEW l \in Line
    PROVE  LET U == Append(T, l) IN
           /\ U \in Seq(Line) /\ Len(U) = Len(T) + 1 /\ U[Len(U)] = l
           /\ \A n \in 1..Len(T) : U[n] = T[n] /\ Scan(U).sec[n] = Scan(T).sec[n]
           /\ Scan(U).sec[Len(U)] = IF l.kind = "head" THEN l.sec ELSE End(T)
<1>. DEFINE U == Append(T, l)
<1>1. /\ U \in Seq(Line) /\ Len(U) = Len(T) + 1 /\ U[Len(U)] = l /\ Len(T) \in Nat
      /\ \A n \in 1..Len(T) : U[n] = T[n]
  BY AppendProperties
<1>. HIDE DEF U
<1>2. ASSUME NEW n \in 1..Len(T) PROVE Scan(U).sec[n] = Scan(T).sec[n]
  <2>1. n \in 1..Len(U) /\ \A m \in 1..n : T[m] = U[m]
    BY <1>1
  <2>. QED
    BY <1>1, <2>1, SectionPrefix
<1>3. Len(U) \in 1..Len(U) /\ (T # <<>> => Len(T) \in 1..Len(T) /\ Len(U) # 1 /\ Len(U) - 1 = Len(T))
      /\ (T = <<>> => Len(U) = 1)
  BY <1>1, EmptySeq
<1>4. Scan(U).sec[Len(U)] = IF l.kind = "head" THEN l.sec ELSE End(T)
  BY <1>1, <1>2, <1>3, SectionStep DEF End
<1>. QED
  BY <1>1, <1>2, <1>4 DEF U

\* A header at the end opens its section, any other line none.
LEMMA AppendEnd ==
    ASSUME NEW T \in Seq(Line), NEW l \in Line
    PROVE  End(Append(T, l)) = IF l.kind = "head" THEN l.sec ELSE End(T)
BY AppendKeeps, AppendProperties DEF End

\* A key line says what its key of the section in force is, any other line
\* nothing.
Said(M, s, l) ==
    IF l.kind = "key" THEN [M EXCEPT ![<<s, l.key>>] = l.val] ELSE M

\* The lines that bind an item once a line has been added at the end.
LEMMA AppendKeyLines ==
    ASSUME NEW T \in Seq(Line), NEW l \in Line, NEW i \in Item
    PROVE  KeyLines(Scan(Append(T, l)), i) =
             KeyLines(Scan(T), i)
             \cup (IF l.kind = "key" /\ <<End(T), l.key>> = i THEN {Len(T) + 1} ELSE {})
<1>. DEFINE U == Append(T, l)
            N == Len(T)
            ends == IF l.kind = "key" /\ <<End(T), l.key>> = i THEN {N + 1} ELSE {}
<1>1. /\ U \in Seq(Line) /\ Len(U) = N + 1 /\ U[N + 1] = l /\ N \in Nat
      /\ \A n \in 1..N : U[n] = T[n] /\ Scan(U).sec[n] = Scan(T).sec[n]
      /\ l.kind = "key" => Scan(U).sec[N + 1] = End(T)
  BY AppendKeeps
<1>2. <<End(T), l.key>> = i <=> End(T) = i[1] /\ l.key = i[2]
  BY DEF Item
<1>. HIDE DEF U, N
<1>3. \A n : n \in 1..(N + 1) <=> n \in 1..N \/ n = N + 1
  BY <1>1
<1>4. KeyLines(Scan(U), i) = {n \in 1..(N + 1) : /\ U[n].kind = "key" /\ Scan(U).sec[n] = i[1]
                                                /\ U[n].key = i[2]}
  BY <1>1, KeyLinesAre
<1>5. KeyLines(Scan(T), i) = {n \in 1..N : /\ T[n].kind = "key" /\ Scan(T).sec[n] = i[1]
                                          /\ T[n].key = i[2]}
  BY KeyLinesAre DEF N
<1>6. ASSUME NEW n PROVE n \in KeyLines(Scan(U), i) <=> n \in KeyLines(Scan(T), i) \cup ends
  <2>1. CASE n \in 1..N
    <3>1. n # N + 1
      BY <1>1, <2>1
    <3>. QED
      BY <1>1, <1>3, <1>4, <1>5, <2>1, <3>1
  <2>2. CASE n = N + 1
    <3>1. n \notin 1..N
      BY <1>1, <2>2
    <3>. QED
      BY <1>1, <1>2, <1>3, <1>4, <1>5, <2>2, <3>1
  <2>. QED
    BY <1>3, <1>4, <1>5, <2>1, <2>2
<1>. QED
  BY <1>6 DEF U, N

\* A load of one more line.
LEMMA AppendLoad ==
    ASSUME NEW T \in Seq(Line), NEW l \in Line
    PROVE  Load(Append(T, l)) = Said(Load(T), End(T), l)
<1>. DEFINE U == Append(T, l)
            N == Len(T)
<1>1. /\ U \in Seq(Line) /\ Len(U) = N + 1 /\ U[N + 1] = l /\ N \in Nat
      /\ \A n \in 1..N : U[n] = T[n]
  BY AppendKeeps
<1>. HIDE DEF U
<1>2. ASSUME NEW i \in Item PROVE Load(U)[i] = Said(Load(T), End(T), l)[i]
  <2>. DEFINE old == KeyLines(Scan(T), i)
              new == KeyLines(Scan(U), i)
              hit == l.kind = "key" /\ <<End(T), l.key>> = i
  <2>1. new = old \cup (IF hit THEN {N + 1} ELSE {})
    BY AppendKeyLines DEF U
  <2>2. old \subseteq 1..N
    BY KeyLinesAre
  <2>3. Load(U)[i] = IF new = {} THEN Missing ELSE U[Max(new)].val
    BY <1>1, LoadIs
  <2>4. Load(T)[i] = IF old = {} THEN Missing ELSE T[Max(old)].val
    BY LoadIs
  <2>5. Said(Load(T), End(T), l)[i] = IF hit THEN l.val ELSE Load(T)[i]
    BY DEF Said, Load
  <2>. HIDE DEF old, new, N
  <2>6. CASE hit
    <3>1. new \in SUBSET (0..(N + 1)) /\ N + 1 \in new /\ \A x \in new : x <= N + 1
      BY <1>1, <2>1, <2>2, <2>6
    <3>2. Max(new) = N + 1
      <4>1. N + 1 \in Nat
        BY <1>1
      <4>. QED
        BY <3>1, <4>1, GreatestIs
    <3>. QED
      BY <1>1, <2>3, <2>5, <2>6, <3>1, <3>2
  <2>7. CASE ~hit
    <3>1. new = old
      BY <2>1, <2>7
    <3>2. CASE old # {}
      <4>1. old \in SUBSET (0..N)
        BY <1>1, <2>2
      <4>2. Max(old) \in 1..N
        BY <1>1, <2>2, <3>2, <4>1, Greatest
      <4>. QED
        BY <1>1, <2>3, <2>4, <2>5, <2>7, <3>1, <3>2, <4>2
    <3>. QED
      BY <2>3, <2>4, <2>5, <2>7, <3>1, <3>2
  <2>. QED
    BY <2>6, <2>7
<1>3. Load(U) = [i \in Item |-> Load(U)[i]]
      /\ Said(Load(T), End(T), l) = [i \in Item |-> Said(Load(T), End(T), l)[i]]
  BY DEF Load, Said
<1>. QED
  BY <1>2, <1>3 DEF U

\* What a file says is a configuration, with values a load can make.
LEMMA LoadTyped ==
    ASSUME NEW T \in Seq(Line)
    PROVE  /\ Load(T) \in Contents
           /\ \A i \in Item : Load(T)[i] \notin DOMAIN Cut \/ Load(T)[i] = Missing
<1>. SUFFICES ASSUME NEW i \in Item
              PROVE  /\ Load(T)[i] \in Value \cup {Missing}
                     /\ Load(T)[i] \notin DOMAIN Cut \/ Load(T)[i] = Missing
  BY DEF Contents, Load
<1>. DEFINE lines == KeyLines(Scan(T), i)
<1>1. lines \in SUBSET (0..Len(T)) /\ Len(T) \in Nat
  BY KeyLinesAre
<1>2. CASE lines # {}
  <2>1. Max(lines) \in lines
    BY <1>1, <1>2, Greatest
  <2>2. T[Max(lines)] \in Line /\ T[Max(lines)].kind = "key"
    BY <2>1, KeyLinesAre
  <2>3. T[Max(lines)].val \in Value \ DOMAIN Cut
    BY <2>2, LineKinds
  <2>. QED
    BY <1>2, <2>3, LoadIs
<1>. QED
  BY <1>2, LoadIs

\* Induction along a text: a set that has 0, and k with k - 1, is 0..N.
LEMMA Upward ==
    ASSUME NEW N \in Nat, NEW G \in SUBSET (0..N), 0 \in G,
           \A k \in 1..N : k - 1 \in G => k \in G
    PROVE  G = 0..N
<1>. DEFINE Rest == (0..N) \ G
<1>. SUFFICES ASSUME Rest # {} PROVE FALSE
  OBVIOUS
<1>1. Rest \in SUBSET Nat
  OBVIOUS
<1>2. PICK x \in Rest : \A y \in Rest : x <= y
  BY <1>1, Least
<1>3. x \in 1..N
  OBVIOUS
<1>4. x - 1 \notin Rest
  BY <1>2, <1>3
<1>. QED
  BY <1>3, <1>4

\* The first n lines are the first n - 1 and line n.
LEMMA PrefixStep ==
    ASSUME NEW S, NEW T \in Seq(S)
    PROVE  /\ SubSeq(T, 1, 0) = <<>> /\ SubSeq(T, 1, Len(T)) = T
           /\ \A n \in 1..Len(T) : /\ SubSeq(T, 1, n - 1) \in Seq(S)
                                   /\ SubSeq(T, 1, n) = Append(SubSeq(T, 1, n - 1), T[n])
<1>1. SubSeq(T, 1, 0) = <<>> /\ SubSeq(T, 1, Len(T)) = T
  BY SubSeqEmpty, SubSeqFull
<1>2. ASSUME NEW n \in 1..Len(T)
      PROVE  /\ SubSeq(T, 1, n - 1) \in Seq(S)
             /\ SubSeq(T, 1, n) = Append(SubSeq(T, 1, n - 1), T[n])
  <2>1. Len(T) \in Nat /\ n \in Nat /\ \A m \in 1..(n - 1) : T[m] \in S
    BY ElementOfSeq
  <2>2. SubSeq(T, 1, n - 1) \in Seq(S) /\ T[n] \in S
    BY <2>1, SubSeqProperties
  <2>3. 1 \in 1..Len(T) /\ n \in 1..Len(T)
    BY <2>1
  <2>4. SubSeq(T, 1, n) = SubSeq(T, 1, n - 1) \o <<T[n]>>
    BY <2>3, SubSeqRecursiveSecond
  <2>. QED
    BY <2>2, <2>4, AppendIsConcat
<1>. QED
  BY <1>1, <1>2

\* The section in force behind n lines is the one of line n.
LEMMA PrefixEnd ==
    ASSUME NEW T \in Seq(Line), NEW n \in 1..Len(T)
    PROVE  End(SubSeq(T, 1, n)) = Scan(T).sec[n]
<1>. DEFINE U == SubSeq(T, 1, n)
<1>1. Len(T) \in Nat /\ n \in Nat /\ \A m \in 1..n : T[m] \in Line
  BY ElementOfSeq
<1>2. U \in Seq(Line) /\ Len(U) = n /\ \A m \in 1..n : U[m] = T[m]
  BY <1>1, SubSeqProperties
<1>. HIDE DEF U
<1>3. Scan(U).sec[n] = Scan(T).sec[n] /\ U # <<>>
  BY <1>2, SectionPrefix, EmptySeq
<1>. QED
  BY <1>2, <1>3 DEF End, U

\* A line added to the second of two texts is added to both.
LEMMA ConcatStep ==
    ASSUME NEW S, NEW T \in Seq(S), NEW U \in Seq(S), NEW l \in S
    PROVE  T \o Append(U, l) = Append(T \o U, l)
<1>1. <<l>> \in Seq(S) /\ T \o U \in Seq(S)
  BY ConcatProperties
<1>. QED
  BY <1>1, AppendIsConcat, ConcatAssociative

\* SetToSeq lists a finite set.
LEMMA Listed ==
    ASSUME NEW S, IsFiniteSet(S)
    PROVE  /\ SetToSeq(S) \in Seq(S)
           /\ \A x \in S : \E n \in 1..Len(SetToSeq(S)) : SetToSeq(S)[n] = x
           /\ \A m, n \in 1..Len(SetToSeq(S)) :
                SetToSeq(S)[m] = SetToSeq(S)[n] => m = n
<1>. DEFINE N == Cardinality(S)
            G(f) == f \in [1..N -> S] /\ IsInjective(f)
<1>1. N \in Nat /\ ExistsBijection(1..N, S)
  BY FS_CardinalityType
<1>2. PICK g \in [1..N -> S] : \A m, n \in 1..N : g[m] = g[n] => m = n
  BY <1>1 DEF ExistsBijection, Bijection, Injection, IsInjective
<1>3. G(g)
  BY <1>2 DEF IsInjective
<1>4. SetToSeq(S) = CHOOSE f : G(f)
  BY DEF SetToSeq
<1>. HIDE DEF G, N
<1>5. PICK f : f = SetToSeq(S) /\ G(f)
  BY <1>3, <1>4, Zenon
<1>6. f \in [1..N -> S] /\ \A m, n \in 1..N : f[m] = f[n] => m = n
  BY <1>5 DEF G, IsInjective
<1>7. f \in Injection(1..N, S)
  BY <1>6 DEF Injection, IsInjective
<1>8. IsFiniteSet(1..N) /\ Cardinality(1..N) = N
  <2>1. 1 \in Int /\ N \in Int /\ (IF 1 > N THEN 0 ELSE N - 1 + 1) = N
    BY <1>1
  <2>2. IsFiniteSet(1..N) /\ Cardinality(1..N) = IF 1 > N THEN 0 ELSE N - 1 + 1
    BY <2>1, FS_Interval
  <2>. QED
    BY <2>1, <2>2
<1>9. f \in Surjection(1..N, S)
  BY <1>7, <1>8, FS_Injection DEF N
<1>10. \A x \in S : \E n \in 1..N : f[n] = x
  BY <1>9 DEF Surjection
<1>11. f \in Seq(S) /\ Len(f) = N
  BY <1>1, <1>6
<1>. QED
  BY <1>5, <1>6, <1>10, <1>11

-----------------------------------------------------------------------------
(* What new lines at the end of a text say.                                *)

\* A line that fits binds its key to the value, as a load will see it.
LEMMA WrittenReads ==
    ASSUME NEW k \in Key, NEW v \in Value, NEW kw \in Nat, NEW cw \in Nat,
           kw + 3 + Width[v] + cw < MaxLine, v = Empty => cw = 0
    PROVE  /\ Written(k, v, kw, cw) \in Line
           /\ Written(k, v, kw, cw).kind = "key"
           /\ Written(k, v, kw, cw).key = k
           /\ Written(k, v, kw, cw).val = AsRead(v)
<1>1. Width[v] \in Nat /\ MaxLine \in Nat /\ ~(kw + 3 + Width[v] + cw >= MaxLine)
  BY WidthAssumption
<1>2. CASE v \in DOMAIN Cut
  <2>1. Cut[v] \in Value \ DOMAIN Cut /\ cw + Width[v] - Width[Cut[v]] \in Nat
    BY <1>1, <1>2, CutAssumption, WidthAssumption
  <2>2. Written(k, v, kw, cw) = KeyLine(k, Cut[v], kw, cw + Width[v] - Width[Cut[v]])
    BY <1>1, <1>2 DEF Written
  <2>. QED
    BY <1>2, <2>1, <2>2 DEF KeyLine, Line, AsRead
<1>3. CASE v \notin DOMAIN Cut
  <2>1. Written(k, v, kw, cw) = KeyLine(k, v, kw, cw)
    BY <1>1, <1>3 DEF Written
  <2>. QED
    BY <1>3, <2>1 DEF KeyLine, Line, AsRead
<1>. QED
  BY <1>2, <1>3

\* New lines are one key line for each item.
LEMMA NewLinesAre ==
    ASSUME NEW m, NEW items, items \subseteq Item, IsFiniteSet(items),
           \A i \in items : m.view[i] \in Value
    PROVE  LET L == NewLines(items, m)
               order == SetToSeq(items) IN
           /\ L \in Seq(Line) /\ Len(L) = Len(order)
           /\ \A n \in 1..Len(L) : /\ L[n].kind = "key" /\ L[n].key = order[n][2]
                                   /\ L[n].val = AsRead(m.view[order[n]])
<1>. DEFINE order == SetToSeq(items)
            L == NewLines(items, m)
            N == Len(order)
<1>1. order \in Seq(items)
  BY Listed
<1>2. DOMAIN order = 1..N /\ N \in Nat /\ \A n \in 1..N : order[n] \in items
  BY <1>1, ElementOfSeq
<1>. HIDE DEF N
<1>3. L = [n \in 1..N |-> Written(order[n][2], m.view[order[n]], KeyWidth, 0)]
  BY <1>2 DEF NewLines
<1>. HIDE DEF order
<1>4. ASSUME NEW n \in 1..N
      PROVE  LET l == Written(order[n][2], m.view[order[n]], KeyWidth, 0) IN
             l \in Line /\ l.kind = "key" /\ l.key = order[n][2] /\ l.val = AsRead(m.view[order[n]])
  <2>1. order[n] \in Item /\ order[n][2] \in Key /\ m.view[order[n]] \in Value
    BY <1>2 DEF Item
  <2>2. KeyWidth \in Nat /\ KeyWidth + 3 + Width[m.view[order[n]]] + 0 < MaxLine
    BY <2>1, WidthAssumption
  <2>. QED
    BY <2>1, <2>2, WrittenReads
<1>. HIDE DEF L
<1>5. L \in [1..N -> Line]
  BY <1>3, <1>4
<1>6. L \in Seq(Line) /\ Len(L) = N
  BY <1>2, <1>5
<1>. QED
  BY <1>3, <1>4, <1>6 DEF L, N, order

\* There are finitely many keys of finitely many sections.
LEMMA ItemsFinite == IsFiniteSet(Item)
BY NamesAssumption, FS_Product DEF Item

\* New lines behind a text bind exactly their keys of the section in force.
LEMMA NewLinesRead ==
    ASSUME NEW T \in Seq(Line), NEW m, NEW items, items \subseteq Item,
           \A i \in items : i[1] = End(T) /\ m.view[i] \in Value
    PROVE  LET U == T \o NewLines(items, m) IN
           /\ U \in Seq(Line) /\ End(U) = End(T)
           /\ \A i \in Item : Load(U)[i] = IF i \in items THEN AsRead(m.view[i]) ELSE Load(T)[i]
<1>. DEFINE order == SetToSeq(items)
            L == NewLines(items, m)
            N == Len(L)
            U(k) == T \o SubSeq(L, 1, k)
            Good(k) ==
                /\ U(k) \in Seq(Line) /\ End(U(k)) = End(T)
                /\ \A i \in Item : Load(U(k))[i] =
                     IF \E j \in 1..k : order[j] = i THEN AsRead(m.view[i]) ELSE Load(T)[i]
<1>1. IsFiniteSet(items)
  BY ItemsFinite, FS_Subset
<1>2. /\ order \in Seq(items) /\ \A i \in items : \E j \in 1..Len(order) : order[j] = i
  BY <1>1, Listed
<1>3. /\ L \in Seq(Line) /\ N = Len(order)
      /\ \A n \in 1..N : /\ L[n].kind = "key" /\ L[n].key = order[n][2]
                         /\ L[n].val = AsRead(m.view[order[n]])
  BY <1>1, NewLinesAre
<1>4. N \in Nat /\ \A j \in 1..N : order[j] \in items /\ L[j] \in Line
  BY <1>2, <1>3, ElementOfSeq
<1>. HIDE DEF order, L, N
<1>5. SubSeq(L, 1, 0) = <<>> /\ SubSeq(L, 1, N) = L
  BY <1>3, PrefixStep DEF N
<1>6. U(0) = T
  BY <1>5, ConcatEmptySeq
<1>7. Good(0)
  <2>1. 1..0 = {}
    OBVIOUS
  <2>. HIDE DEF U
  <2>. QED
    BY <1>6, <2>1
<1>8. ASSUME NEW k \in 1..N, Good(k - 1) PROVE Good(k)
  <2>1. SubSeq(L, 1, k - 1) \in Seq(Line) /\ SubSeq(L, 1, k) = Append(SubSeq(L, 1, k - 1), L[k])
    BY <1>3, PrefixStep DEF N
  <2>2. U(k) = Append(U(k - 1), L[k])
    BY <1>4, <2>1, ConcatStep
  <2>. HIDE DEF U
  <2>3. U(k) \in Seq(Line) /\ End(U(k)) = End(T)
    BY <1>3, <1>4, <1>8, <2>2, AppendKeeps, AppendEnd
  <2>4. Load(U(k)) = Said(Load(U(k - 1)), End(T), L[k])
    BY <1>4, <1>8, <2>2, AppendLoad
  <2>5. order[k] \in Item /\ order[k] = <<End(T), L[k].key>>
    BY <1>3, <1>4 DEF Item
  <2>6. \A i \in Item : Load(U(k))[i] = IF i = order[k] THEN AsRead(m.view[i]) ELSE Load(U(k - 1))[i]
    BY <1>3, <2>4, <2>5 DEF Said, Load
  <2>7. \A j : j \in 1..k <=> j \in 1..(k - 1) \/ j = k
    BY <1>4
  <2>. QED
    BY <1>8, <2>3, <2>6, <2>7
<1>. HIDE DEF Good
<1>9. {k \in 0..N : Good(k)} = 0..N
  <2>. DEFINE G == {k \in 0..N : Good(k)}
  <2>1. 0 \in G
    BY <1>4, <1>7
  <2>2. \A k \in 1..N : k - 1 \in G => k \in G
    BY <1>4, <1>8
  <2>. HIDE DEF G
  <2>3. G \in SUBSET (0..N)
    BY DEF G
  <2>4. G = 0..N
    BY <1>4, <2>1, <2>2, <2>3, Upward
  <2>. QED
    BY <2>4 DEF G
<1>10. Good(N)
  BY <1>4, <1>9
<1>11. U(N) = T \o L
  BY <1>5
<1>. HIDE DEF U
<1>12. /\ U(N) \in Seq(Line) /\ End(U(N)) = End(T)
       /\ \A i \in Item : Load(U(N))[i] =
            IF i \in items THEN AsRead(m.view[i]) ELSE Load(T)[i]
  BY <1>2, <1>3, <1>4, <1>10 DEF Good
<1>. QED
  BY <1>11, <1>12 DEF L

\* The lines of a text, and a text of one line.
LEMMA Elements ==
    ASSUME NEW S, NEW s \in Seq(S)
    PROVE  Len(s) \in Nat /\ \A n \in 1..Len(s) : s[n] \in S
BY ElementOfSeq

\* f starts at b and takes the steps of h.
Iterates(f, N, S, b, h) ==
    f \in [0..N -> S] /\ f[0] = b /\ \A n \in 1..N : f[n] = h[n][f[n - 1]]

\* A recursion along 0..N has its function.
LEMMA Iterated ==
    ASSUME NEW N \in Nat, NEW S, NEW b \in S, NEW h \in [1..N -> [S -> S]]
    PROVE  \E f : Iterates(f, N, S, b, h)
<1>. DEFINE Upto(k, f) == /\ f \in [0..k -> S] /\ f[0] = b
                          /\ \A n \in 1..k : f[n] = h[n][f[n - 1]]
            G == {k \in 0..N : \E f : Upto(k, f)}
<1>1. 0 \in G
  <2>1. 1..0 = {} /\ 0 \in 0..0
    OBVIOUS
  <2>2. Upto(0, [n \in 0..0 |-> b])
    BY <2>1
  <2>3. 0 \in 0..N
    OBVIOUS
  <2>. HIDE DEF Upto
  <2>. QED
    BY <2>2, <2>3
<1>2. ASSUME NEW k \in 1..N, k - 1 \in G PROVE k \in G
  <2>1. PICK f : Upto(k - 1, f)
    BY <1>2
  <2>2. k \in Nat /\ k - 1 \in 0..(k - 1) /\ f[k - 1] \in S
    BY <2>1
  <2>. DEFINE g == [n \in 0..k |-> IF n = k THEN h[k][f[k - 1]] ELSE f[n]]
  <2>3. h[k][f[k - 1]] \in S
    BY <2>2
  <2>4. \A n \in 0..k : n # k => n \in 0..(k - 1) /\ f[n] \in S /\ g[n] = f[n]
    BY <2>1, <2>2
  <2>5. g \in [0..k -> S]
    BY <2>3, <2>4
  <2>6. g[0] = b /\ g[k] = h[k][f[k - 1]] /\ g[k - 1] = f[k - 1]
    BY <2>1, <2>2
  <2>7. ASSUME NEW n \in 1..k PROVE g[n] = h[n][g[n - 1]]
    <3>1. CASE n = k
      BY <2>6, <3>1
    <3>2. CASE n # k
      <4>1. n \in 1..(k - 1) /\ n \in 0..k /\ n - 1 \in 0..k /\ n - 1 # k
        BY <2>2, <3>2
      <4>2. g[n] = f[n] /\ g[n - 1] = f[n - 1]
        BY <2>4, <3>2, <4>1
      <4>. QED
        BY <2>1, <4>1, <4>2
    <3>. QED
      BY <3>1, <3>2
  <2>. HIDE DEF g
  <2>. QED
    BY <2>5, <2>6, <2>7
<1>. HIDE DEF Upto
<1>3. G \in SUBSET (0..N)
  OBVIOUS
<1>. HIDE DEF G
<1>4. G = 0..N
  BY <1>1, <1>2, <1>3, Upward
<1>. QED
  BY <1>4 DEF G, Upto, Iterates

\* A separating blank line says nothing.
LEMMA BlankRead ==
    ASSUME NEW T \in Seq(Line)
    PROVE  /\ Separated(T) \in Seq(Line)
           /\ Load(Separated(T)) = Load(T)
<1>1. Blank \in Line /\ Blank.kind = "blank"
  BY DEF Blank, Line
<1>2. Append(T, Blank) \in Seq(Line) /\ Load(Append(T, Blank)) = Load(T)
  BY <1>1, AppendKeeps, AppendLoad DEF Said
<1>. QED
  BY <1>2 DEF Separated

\* What is added for a section is lines.
LEMMA SectionTyped ==
    ASSUME NEW T \in Seq(Line), NEW s \in Section, NEW m, NEW items, items \subseteq Item,
           \A i \in items : m.view[i] \in Value
    PROVE  AddedSection(T, s, items, m) \in Seq(Line)
<1>. DEFINE own == {i \in items : i[1] = s}
<1>1. IsFiniteSet(own) /\ own \subseteq Item /\ \A i \in own : m.view[i] \in Value
  BY ItemsFinite, FS_Subset
<1>2. NewLines(own, m) \in Seq(Line)
  BY <1>1, NewLinesAre
<1>3. Separated(T) \in Seq(Line) /\ <<Header(s)>> \in Seq(Line)
  <2>1. Header(s) \in Line
    BY DEF Header, Line
  <2>. QED
    BY <2>1, BlankRead
<1>. QED
  BY <1>2, <1>3, ConcatProperties DEF AddedSection

\* The new lines of a section, under a header if it has a name.
LEMMA SectionRead ==
    ASSUME NEW T \in Seq(Line), NEW s \in Section, NEW m, NEW items, items \subseteq Item,
           \A i \in items : m.view[i] \in Value,
           s = Global => End(T) = Global \/ \A i \in items : i[1] # Global
    PROVE  LET U == AddedSection(T, s, items, m) IN
           \A i \in Item : Load(U)[i] =
                IF i \in items /\ i[1] = s THEN AsRead(m.view[i]) ELSE Load(T)[i]
<1>. DEFINE own == {i \in items : i[1] = s}
            X == IF s = Global THEN T ELSE Append(Separated(T), Header(s))
<1>1. CASE own = {}
  BY <1>1 DEF AddedSection
<1>2. CASE own # {}
  <2>1. Separated(T) \in Seq(Line) /\ Load(Separated(T)) = Load(T)
    BY BlankRead
  <2>2. Header(s) \in Line /\ Header(s).kind = "head" /\ Header(s).sec = s
    BY DEF Header, Line
  <2>3. X \in Seq(Line) /\ End(X) = s /\ Load(X) = Load(T)
    <3>1. CASE s = Global
      BY <1>2, <3>1
    <3>2. CASE s # Global
      BY <2>1, <2>2, <3>2, AppendKeeps, AppendEnd, AppendLoad DEF Said
    <3>. QED
      BY <3>1, <3>2
  <2>4. Separated(T) \o <<Header(s)>> = Append(Separated(T), Header(s))
    BY <2>1, <2>2, AppendIsConcat
  <2>5. AddedSection(T, s, items, m) = X \o NewLines(own, m)
    BY <1>2, <2>4 DEF AddedSection
  <2>. HIDE DEF X
  <2>6. own \subseteq Item /\ \A i \in own : i[1] = End(X) /\ m.view[i] \in Value
    BY <2>3
  <2>7. \A i \in Item : Load(X \o NewLines(own, m))[i] =
          IF i \in own THEN AsRead(m.view[i]) ELSE Load(X)[i]
    BY <2>3, <2>6, NewLinesRead
  <2>. QED
    BY <2>3, <2>5, <2>7
<1>. QED
  BY <1>1, <1>2

\* New sections are listed once each.
LEMMA SectionsListed ==
    ASSUME NEW items, items \subseteq Item, NEW order, order = SetToSeq(SectionsOf(items))
    PROVE  /\ order \in Seq(Section)
           /\ \A n \in 1..Len(order) : order[n] \in SectionsOf(items)
           /\ \A i \in items : \E n \in 1..Len(order) : order[n] = i[1]
<1>. DEFINE S == SectionsOf(items)
<1>1. S \subseteq Section /\ \A i \in items : i[1] \in S
  BY DEF Item, SectionsOf
<1>. HIDE DEF S
<1>2. IsFiniteSet(S)
  BY <1>1, NamesAssumption, FS_Subset
<1>3. order \in Seq(S) /\ \A s \in S : \E n \in 1..Len(order) : order[n] = s
  BY <1>2, Listed DEF S
<1>5. Len(order) \in Nat /\ \A n \in 1..Len(order) : order[n] \in S
  BY <1>3, Elements
<1>6. order \in Seq(Section)
  BY <1>1, <1>3
<1>. QED
  BY <1>1, <1>3, <1>5, <1>6 DEF S

\* f writes one section of order after the other, behind T.
Writes(f, T, order, items, m) ==
    /\ f \in [0..Len(order) -> Seq(Line)] /\ f[0] = T
    /\ \A n \in 1..Len(order) : f[n] = AddedSection(f[n - 1], order[n], items, m)
    /\ WithSections(T, order, items, m) = f[Len(order)]

\* What has been written after each new section.
LEMMA SectionsOut ==
    ASSUME NEW T \in Seq(Line), NEW m, NEW items, items \subseteq Item,
           \A i \in items : m.view[i] \in Value,
           NEW order \in Seq(Section)
    PROVE  \E f : Writes(f, T, order, items, m)
<1>. DEFINE N == Len(order)
            G(f) == f = [n \in 0..N |->
                IF n = 0 THEN T ELSE AddedSection(f[n - 1], order[n], items, m)]
            h == [n \in 1..N |-> [out \in Seq(Line) |-> AddedSection(out, order[n], items, m)]]
<1>1. N \in Nat /\ \A n \in 1..N : order[n] \in Section
  BY Elements
<1>2. WithSections(T, order, items, m) = (CHOOSE f : G(f))[N]
  BY DEF WithSections
<1>. HIDE DEF N
<1>3. h \in [1..N -> [Seq(Line) -> Seq(Line)]]
  BY <1>1, SectionTyped
<1>4. PICK f \in [0..N -> Seq(Line)] :
        f[0] = T /\ \A n \in 1..N : f[n] = h[n][f[n - 1]]
  <2>. HIDE DEF h
  <2>1. PICK f : Iterates(f, N, Seq(Line), T, h)
    BY <1>1, <1>3, Iterated
  <2>. QED
    BY <2>1 DEF Iterates
<1>5. \A n \in 1..N : f[n] = AddedSection(f[n - 1], order[n], items, m)
  <2>1. \A n \in 1..N : n - 1 \in 0..N
    BY <1>1
  <2>. QED
    BY <1>4, <2>1
<1>. HIDE DEF h
<1>6. G(f)
  <2>1. \A n \in 0..N : n = 0 \/ n \in 1..N
    BY <1>1
  <2>2. f = [n \in 0..N |-> f[n]]
    BY <1>4
  <2>. QED
    BY <1>4, <1>5, <2>1, <2>2
<1>. HIDE DEF G
<1>7. PICK g : G(g) /\ g = CHOOSE f_1 : G(f_1)
  BY <1>6, Zenon
<1>8. g = f
  <2>. DEFINE H == {k \in 0..N : g[k] = f[k]}
  <2>0. 0 \in 0..N
    BY <1>1
  <2>1. g = [n \in 0..N |-> IF n = 0 THEN T ELSE AddedSection(g[n - 1], order[n], items, m)]
    BY <1>7, Zenon DEF G
  <2>2. g[0] = T /\ g = [n \in 0..N |-> g[n]]
    BY <2>0, <2>1
  <2>3. ASSUME NEW k \in 1..N, g[k - 1] = f[k - 1] PROVE g[k] = f[k]
    <3>1. k \in 0..N /\ k # 0
      BY <1>1
    <3>2. g[k] = AddedSection(g[k - 1], order[k], items, m)
      BY <2>1, <3>1
    <3>. QED
      BY <1>5, <2>3, <3>2
  <2>4. 0 \in H /\ \A k \in 1..N : k - 1 \in H => k \in H
    <3>1. \A k \in 1..N : k \in 0..N
      BY <1>1
    <3>. QED
      BY <1>4, <2>0, <2>2, <2>3, <3>1
  <2>5. H \in SUBSET (0..N)
    OBVIOUS
  <2>6. H = 0..N
    <3>. HIDE DEF H
    <3>. QED
      BY <1>1, <2>4, <2>5, Upward
  <2>7. f = [n \in 0..N |-> f[n]]
    BY <1>4
  <2>. QED
    BY <2>2, <2>6, <2>7
<1>. QED
  BY <1>2, <1>4, <1>5, <1>7, <1>8 DEF N, Writes

\* A list has the sections of the items; the one without a name, if it has
\* any, goes where its keys are read back as such.
InOrder(T, order, items) ==
    /\ order \in Seq(Section)
    /\ \A i \in items : \E n \in 1..Len(order) : order[n] = i[1]
    /\ \A n \in 1..Len(order) : order[n] = Global =>
         \/ n = 1 /\ End(T) = Global
         \/ \A i \in items : i[1] # Global

\* U says what T does, but for the items.
Binds(U, T, items, m) ==
    /\ U \in Seq(Line)
    /\ \A i \in Item : Load(U)[i] = IF i \in items THEN AsRead(m.view[i]) ELSE Load(T)[i]

\* New sections at the end of a text bind their items, and nothing else.
LEMMA SectionsRead ==
    ASSUME NEW T \in Seq(Line), NEW m, NEW items, items \subseteq Item,
           \A i \in items : m.view[i] \in Value,
           NEW order, InOrder(T, order, items)
    PROVE  Binds(WithSections(T, order, items, m), T, items, m)
<1>. DEFINE N == Len(order)
<1>1. order \in Seq(Section)
  BY DEF InOrder
<1>2. /\ N \in Nat /\ \A n \in 1..N : order[n] \in Section
      /\ \A i \in items : \E n \in 1..N : order[n] = i[1]
  BY <1>1, Elements DEF InOrder
<1>3. PICK f : Writes(f, T, order, items, m)
  BY <1>1, SectionsOut
<1>4. /\ f \in [0..N -> Seq(Line)] /\ f[0] = T /\ WithSections(T, order, items, m) = f[N]
      /\ \A n \in 1..N : f[n] = AddedSection(f[n - 1], order[n], items, m)
  BY <1>3 DEF Writes
<1>9. \A n \in 1..N : order[n] = Global =>
        \/ n = 1 /\ End(T) = Global
        \/ \A i \in items : i[1] # Global
  BY DEF InOrder
<1>. HIDE DEF N
<1>. DEFINE Good(k) == \A i \in Item : Load(f[k])[i] =
               IF i \in items /\ \E n \in 1..k : order[n] = i[1]
               THEN AsRead(m.view[i]) ELSE Load(T)[i]
            G == {k \in 0..N : Good(k)}
<1>5. Good(0)
  <2>1. 1..0 = {}
    OBVIOUS
  <2>. QED
    BY <1>4, <2>1
<1>6. ASSUME NEW k \in 1..N, Good(k - 1) PROVE Good(k)
  <2>1. k \in Nat /\ k - 1 \in 0..N /\ f[k - 1] \in Seq(Line) /\ order[k] \in Section
    BY <1>2, <1>4
  <2>2. \A i \in Item : Load(f[k])[i] =
          IF i \in items /\ i[1] = order[k] THEN AsRead(m.view[i]) ELSE Load(f[k - 1])[i]
    <3>0. f[k] = AddedSection(f[k - 1], order[k], items, m)
      BY <1>4
    <3>1. order[k] = Global => End(f[k - 1]) = Global \/ \A i \in items : i[1] # Global
      <4>1. CASE k = 1
        BY <1>4, <1>9, <4>1
      <4>2. CASE k # 1
        BY <1>9, <4>2
      <4>. QED
        BY <4>1, <4>2
    <3>2. \A i \in Item : Load(AddedSection(f[k - 1], order[k], items, m))[i] =
            IF i \in items /\ i[1] = order[k] THEN AsRead(m.view[i]) ELSE Load(f[k - 1])[i]
      BY <2>1, <3>1, SectionRead
    <3>. QED
      BY <3>0, <3>2
  <2>3. \A n : n \in 1..k <=> n \in 1..(k - 1) \/ n = k
    BY <2>1
  <2>. QED
    BY <1>6, <2>2, <2>3
<1>. HIDE DEF Good
<1>7. G = 0..N
  <2>1. 0 \in G
    BY <1>2, <1>5
  <2>2. \A k \in 1..N : k - 1 \in G => k \in G
    BY <1>2, <1>6
  <2>3. G \in SUBSET (0..N)
    OBVIOUS
  <2>. HIDE DEF G
  <2>. QED
    BY <1>2, <2>1, <2>2, <2>3, Upward
<1>8. Good(N) /\ f[N] \in Seq(Line)
  <2>1. N \in 0..N
    BY <1>2
  <2>2. N \in G
    BY <1>7, <2>1
  <2>. QED
    BY <1>4, <2>1, <2>2
<1>. QED
  BY <1>2, <1>4, <1>8 DEF Good, Binds

-----------------------------------------------------------------------------
(* What an edit says: the first n lines of a file T and what has been      *)
(* written for them say the same of every key the save does not owe.       *)

\* What a save can be asked for: no value for a key of a removed section, and
\* none that is "".
Puttable(m) ==
    /\ m \in Memory
    /\ \A i \in ToPut(m) : m.view[i] # Empty /\ i[1] \notin m.dropped

\* What is put and what is taken are the two halves of what is touched.
LEMMA PutsTyped ==
    ASSUME NEW m, Puttable(m)
    PROVE  /\ ToPut(m) \subseteq Item /\ ToTake(m) \subseteq Item
           /\ \A i \in ToPut(m) : /\ m.view[i] \in Value /\ m.view[i] # Empty
                                  /\ i[1] \notin m.dropped /\ i \in m.touched
           /\ \A i \in ToTake(m) : i \in m.touched /\ m.view[i] = Missing
           /\ m.touched = ToPut(m) \cup ToTake(m)
BY DEF Puttable, Memory, Contents, ToPut, ToTake

\* What the first n lines of T say.
SectionAt(T, n) == End(SubSeq(T, 1, n))
SaysAt(T, n) == Load(SubSeq(T, 1, n))

\* What line n adds to what the lines above it say.
LEMMA SaysStep ==
    ASSUME NEW T \in Seq(Line), NEW n \in 1..Len(T)
    PROVE  /\ SaysAt(T, n) = Said(SaysAt(T, n - 1), SectionAt(T, n - 1), T[n])
           /\ SectionAt(T, n) = IF T[n].kind = "head" THEN T[n].sec ELSE SectionAt(T, n - 1)
           /\ SectionAt(T, n) = Scan(T).sec[n]
           /\ T[n] \in Line
<1>1. /\ SubSeq(T, 1, n - 1) \in Seq(Line) /\ T[n] \in Line
      /\ SubSeq(T, 1, n) = Append(SubSeq(T, 1, n - 1), T[n])
  BY PrefixStep, Elements
<1>. QED
  BY <1>1, AppendEnd, AppendLoad, PrefixEnd DEF SaysAt, SectionAt

\* A key line binds the key it names in its own section, and no other item.
LEMMA KeyLineOf ==
    ASSUME NEW T \in Seq(Line), NEW n \in 1..Len(T)
    PROVE  LET j == <<Scan(T).sec[n], T[n].key>> IN
           /\ T[n].kind = "key" => j \in Item /\ n \in KeyLines(Scan(T), j)
           /\ \A i \in Item : n \in KeyLines(Scan(T), i) => T[n].kind = "key" /\ i = j
<1>1. T[n] \in Line /\ Scan(T).sec[n] \in Section
  BY Elements, SectionsTyped
<1>2. T[n].kind = "key" => T[n].key \in Key
  BY <1>1, LineKinds
<1>. QED
  BY <1>1, <1>2, KeyLinesAre DEF Item

\* A line goes for a key that is taken out, for its removed section, or
\* because it is blank.
LEMMA DroppedLines ==
    ASSUME NEW T \in Seq(Line), NEW m, NEW n \in 1..Len(T)
    PROVE  /\ n \in Dropped(Scan(T), m) =>
                \/ T[n].kind = "blank"
                \/ Scan(T).sec[n] \in m.dropped
                \/ \E i \in ToTake(m) : n \in KeyLines(Scan(T), i)
           /\ n \notin Dropped(Scan(T), m) =>
                /\ T[n].kind # "blank" => Scan(T).sec[n] \notin m.dropped
                /\ \A i \in ToTake(m) : n \notin KeyLines(Scan(T), i)
<1>1. DOMAIN T = 1..Len(T) /\ Scan(T).line = T
  BY ScanFields
<1>. QED
  BY <1>1 DEF Dropped, TakenLines, RemovedSpan

\* The line of a key that has one is a line of it, and the last.
LEMMA OwnLineIs ==
    ASSUME NEW T \in Seq(Line), NEW i, KeyLines(Scan(T), i) # {}
    PROVE  /\ OwnLine(Scan(T), i) \in KeyLines(Scan(T), i)
           /\ OwnLine(Scan(T), i) \in 1..Len(T)
           /\ \A n \in KeyLines(Scan(T), i) : n <= OwnLine(Scan(T), i)
<1>1. KeyLines(Scan(T), i) \in SUBSET (0..Len(T)) /\ Len(T) \in Nat
      /\ KeyLines(Scan(T), i) \subseteq 1..Len(T)
  BY KeyLinesAre
<1>. QED
  BY <1>1, Greatest DEF OwnLine

\* The item a line is replaced for.
LEMMA OwnerIs ==
    ASSUME NEW T \in Seq(Line), NEW m, Puttable(m), NEW n \in 1..Len(T)
    PROVE  \A i \in Owner(Scan(T), m, n) :
             /\ Owner(Scan(T), m, n) = {i} /\ i \in Item /\ i \in ToPut(m)
             /\ i = <<Scan(T).sec[n], T[n].key>> /\ T[n].kind = "key"
             /\ n \in KeyLines(Scan(T), i) /\ n \notin Dropped(Scan(T), m)
<1>. DEFINE t == Scan(T)
            j == <<t.sec[n], T[n].key>>
<1>1. ASSUME NEW i \in Owner(t, m, n)
      PROVE  /\ i \in Item /\ i \in ToPut(m) /\ i \notin ToTake(m) /\ i[1] \notin m.dropped
             /\ n \in KeyLines(t, i) /\ i = j /\ T[n].kind = "key"
  <2>1. i \in ToPut(m) /\ KeyLines(t, i) # {} /\ OwnLine(t, i) = n
    BY DEF Owner, Fresh
  <2>2. i \in Item /\ i \notin ToTake(m) /\ i[1] \notin m.dropped
    BY <2>1, PutsTyped DEF ToTake
  <2>3. n \in KeyLines(t, i)
    BY <2>1, OwnLineIs
  <2>. QED
    BY <2>1, <2>2, <2>3, KeyLineOf
<1>. HIDE DEF t
<1>2. ASSUME NEW i \in Owner(t, m, n) PROVE n \notin Dropped(t, m)
  <2>1. ASSUME NEW k \in ToTake(m), n \in KeyLines(t, k) PROVE FALSE
    <3>1. k \in Item
      BY PutsTyped
    <3>2. k = <<t.sec[n], T[n].key>>
      BY <2>1, <3>1, KeyLineOf DEF t
    <3>. QED
      BY <1>1, <3>2
  <2>2. t.sec[n] \notin m.dropped
    BY <1>1
  <2>. QED
    BY <1>1, <2>1, <2>2, DroppedLines DEF t
<1>. QED
  BY <1>1, <1>2 DEF t

\* A replaced line binds its key to the new value.
LEMMA RebuiltReads ==
    ASSUME NEW l \in Line, l.kind = "key", NEW v \in Value, v # Empty
    PROVE  /\ Rebuilt(l, v) \in Line /\ Rebuilt(l, v).kind = "key"
           /\ Rebuilt(l, v).key = l.key /\ Rebuilt(l, v).val = AsRead(v)
<1>. DEFINE kw == IF l.kw + 3 + Width[v] >= MaxLine THEN KeyWidth ELSE l.kw
            cw == IF l.kw + 3 + Width[v] + l.cw >= MaxLine THEN 0 ELSE l.cw
<1>1. l.key \in Key /\ l.kw \in Nat /\ l.cw \in Nat
  BY LineKinds
<1>2. Width[v] \in Nat /\ KeyWidth \in Nat /\ MaxLine \in Nat /\ KeyWidth + 3 + Width[v] < MaxLine
  BY WidthAssumption
<1>3. kw \in Nat /\ cw \in Nat /\ kw + 3 + Width[v] + cw < MaxLine
  BY <1>1, <1>2
<1>4. Rebuilt(l, v) = Written(l.key, v, kw, cw)
  BY DEF Rebuilt
<1>. HIDE DEF kw, cw
<1>. QED
  BY <1>1, <1>3, <1>4, WrittenReads

\* Keys a save takes out of a file: removed ones, and those of sections it
\* removes.
TakenOut(m, i) == i \in ToTake(m) \/ (i \notin m.touched /\ i[1] \in m.dropped)

Untouched(m, i) == i \notin m.touched /\ i[1] \notin m.dropped

\* Behind n lines of T, B has put the items of P, and says of the untouched
\* ones what T says.
Follows(B, T, m, n, P) ==
    /\ B \in Seq(Line)
    /\ SectionAt(T, n) \notin m.dropped => End(B) = SectionAt(T, n)
    /\ \A i \in Item :
         /\ i \in P => Load(B)[i] = AsRead(m.view[i])
         /\ TakenOut(m, i) => Load(B)[i] = Missing
         /\ Untouched(m, i) => Load(B)[i] = SaysAt(T, n)[i]

\* What a line says of one item.
LEMMA SaidItem ==
    ASSUME NEW M, M = [i \in Item |-> M[i]], NEW s, NEW l, NEW i \in Item
    PROVE  Said(M, s, l)[i] = IF l.kind = "key" /\ i = <<s, l.key>> THEN l.val ELSE M[i]
BY DEF Said

\* What one more line makes a load say of an item.
LEMMA LoadItem ==
    ASSUME NEW B \in Seq(Line), NEW l \in Line, NEW i \in Item
    PROVE  Load(Append(B, l))[i] = IF l.kind = "key" /\ i = <<End(B), l.key>>
                                   THEN l.val ELSE Load(B)[i]
<1>1. Load(Append(B, l)) = Said(Load(B), End(B), l)
  BY AppendLoad
<1>2. Load(B) = [j \in Item |-> Load(B)[j]]
  BY DEF Load
<1>. QED
  BY <1>1, <1>2, SaidItem

\* What line n of T adds to what the lines above it say.
LEMMA SaysItem ==
    ASSUME NEW T \in Seq(Line), NEW n \in 1..Len(T), NEW i \in Item
    PROVE  SaysAt(T, n)[i] = IF n \in KeyLines(Scan(T), i) THEN T[n].val ELSE SaysAt(T, n - 1)[i]
<1>1. SaysAt(T, n) = Said(SaysAt(T, n - 1), SectionAt(T, n - 1), T[n])
  BY SaysStep
<1>2. SaysAt(T, n - 1) = [j \in Item |-> SaysAt(T, n - 1)[j]]
  BY DEF SaysAt, Load
<1>3. SaysAt(T, n)[i] = IF T[n].kind = "key" /\ i = <<SectionAt(T, n - 1), T[n].key>>
                        THEN T[n].val ELSE SaysAt(T, n - 1)[i]
  BY <1>1, <1>2, SaidItem
<1>4. T[n].kind = "key" => SectionAt(T, n - 1) = Scan(T).sec[n]
  BY SaysStep
<1>. QED
  BY <1>3, <1>4, KeyLineOf

\* An item is put, taken out or left alone.
LEMMA TakenFacts ==
    ASSUME NEW m, Puttable(m), NEW i \in Item
    PROVE  /\ TakenOut(m, i) => ~Untouched(m, i) /\ i \notin ToPut(m)
           /\ Untouched(m, i) => i \notin ToPut(m) /\ i \notin ToTake(m)
           /\ i \in ToPut(m) \/ TakenOut(m, i) \/ Untouched(m, i)
BY PutsTyped DEF TakenOut, Untouched, ToTake

\* A line that goes.
LEMMA GoneFollows ==
    ASSUME NEW T \in Seq(Line), NEW m, Puttable(m), NEW n \in 1..Len(T), NEW B, NEW P,
           Follows(B, T, m, n - 1, P), n \in Dropped(Scan(T), m)
    PROVE  Follows(B, T, m, n, P)
<1>1. /\ SectionAt(T, n) = IF T[n].kind = "head" THEN T[n].sec ELSE SectionAt(T, n - 1)
      /\ SectionAt(T, n) = Scan(T).sec[n]
  BY SaysStep
<1>2. \/ T[n].kind = "blank"
      \/ Scan(T).sec[n] \in m.dropped
      \/ \E i \in ToTake(m) : n \in KeyLines(Scan(T), i)
  BY DroppedLines
<1>3. \A i \in ToTake(m) : i \in Item /\ i \in m.touched
  BY PutsTyped
<1>4. SectionAt(T, n) \notin m.dropped => T[n].kind # "head"
  BY <1>1, <1>2, <1>3, KeyLineOf
<1>5. ASSUME NEW i \in Item, Untouched(m, i) PROVE n \notin KeyLines(Scan(T), i)
  <2>. SUFFICES ASSUME n \in KeyLines(Scan(T), i) PROVE FALSE
    OBVIOUS
  <2>1. T[n].kind = "key" /\ i = <<Scan(T).sec[n], T[n].key>>
        /\ \A j \in Item : n \in KeyLines(Scan(T), j) => j = i
    BY KeyLineOf
  <2>. QED
    BY <1>2, <1>3, <1>5, <2>1 DEF Untouched
<1>6. \A i \in Item : Untouched(m, i) => SaysAt(T, n)[i] = SaysAt(T, n - 1)[i]
  BY <1>5, SaysItem
<1>. QED
  BY <1>1, <1>4, <1>6 DEF Follows

\* A line that is replaced.
LEMMA RebuiltFollows ==
    ASSUME NEW T \in Seq(Line), NEW m, Puttable(m), NEW n \in 1..Len(T), NEW B, NEW P,
           Follows(B, T, m, n - 1, P), NEW i \in Owner(Scan(T), m, n)
    PROVE  Follows(Append(B, Rebuilt(T[n], m.view[i])), T, m, n, P \cup {i})
<1>. DEFINE l == Rebuilt(T[n], m.view[i])
            C == Append(B, l)
<1>1. /\ i \in Item /\ i \in ToPut(m) /\ i = <<Scan(T).sec[n], T[n].key>>
      /\ T[n].kind = "key" /\ n \in KeyLines(Scan(T), i)
  BY OwnerIs
<1>2. m.view[i] \in Value /\ m.view[i] # Empty /\ i[1] \notin m.dropped
  BY <1>1, PutsTyped
<1>3. /\ SectionAt(T, n) = SectionAt(T, n - 1) /\ SectionAt(T, n) = Scan(T).sec[n]
      /\ T[n] \in Line
  BY <1>1, SaysStep
<1>4. l \in Line /\ l.kind = "key" /\ l.key = T[n].key /\ l.val = AsRead(m.view[i])
  BY <1>1, <1>2, <1>3, RebuiltReads
<1>. HIDE DEF l
<1>5. B \in Seq(Line) /\ End(B) = Scan(T).sec[n]
  BY <1>1, <1>2, <1>3 DEF Follows
<1>6. C \in Seq(Line) /\ End(C) = SectionAt(T, n)
  BY <1>3, <1>4, <1>5, AppendKeeps, AppendEnd
<1>7. ASSUME NEW j \in Item
      PROVE  Load(C)[j] = IF j = i THEN AsRead(m.view[i]) ELSE Load(B)[j]
  BY <1>1, <1>4, <1>5, LoadItem
<1>8. ASSUME NEW j \in Item, j # i PROVE SaysAt(T, n)[j] = SaysAt(T, n - 1)[j]
  BY <1>1, <1>8, KeyLineOf, SaysItem
<1>9. ~TakenOut(m, i) /\ ~Untouched(m, i)
  BY <1>1, TakenFacts
<1>. HIDE DEF C
<1>10. \A j \in Item :
         /\ j \in P \cup {i} => Load(C)[j] = AsRead(m.view[j])
         /\ TakenOut(m, j) => Load(C)[j] = Missing
         /\ Untouched(m, j) => Load(C)[j] = SaysAt(T, n)[j]
  BY <1>7, <1>8, <1>9 DEF Follows
<1>11. Follows(C, T, m, n, P \cup {i})
  BY <1>6, <1>10 DEF Follows
<1>. QED
  BY <1>11 DEF C, l

\* A line that stays, when none of P is put on it.
LEMMA KeptFollows ==
    ASSUME NEW T \in Seq(Line), NEW m, Puttable(m), NEW n \in 1..Len(T), NEW B, NEW P,
           Follows(B, T, m, n - 1, P), n \notin Dropped(Scan(T), m),
           \A i \in P : i \in ToPut(m) /\ n \notin KeyLines(Scan(T), i)
    PROVE  Follows(Append(B, T[n]), T, m, n, P)
<1>. DEFINE C == Append(B, T[n])
<1>1. /\ SectionAt(T, n) = IF T[n].kind = "head" THEN T[n].sec ELSE SectionAt(T, n - 1)
      /\ SectionAt(T, n) = Scan(T).sec[n] /\ T[n] \in Line
  BY SaysStep
<1>2. /\ T[n].kind # "blank" => Scan(T).sec[n] \notin m.dropped
      /\ \A i \in ToTake(m) : n \notin KeyLines(Scan(T), i)
  BY DroppedLines
<1>3. B \in Seq(Line)
  BY DEF Follows
<1>4. C \in Seq(Line) /\ (SectionAt(T, n) \notin m.dropped => End(C) = SectionAt(T, n))
  BY <1>1, <1>3, AppendKeeps, AppendEnd DEF Follows
<1>5. ASSUME NEW j \in Item
      PROVE  Load(C)[j] = IF n \in KeyLines(Scan(T), j) THEN T[n].val ELSE Load(B)[j]
  <2>1. T[n].kind = "key" => End(B) = Scan(T).sec[n]
    BY <1>1, <1>2 DEF Follows
  <2>2. n \in KeyLines(Scan(T), j) <=> T[n].kind = "key" /\ j = <<Scan(T).sec[n], T[n].key>>
    BY KeyLineOf
  <2>. QED
    BY <1>1, <1>3, <2>1, <2>2, LoadItem
<1>6. ASSUME NEW j \in Item, n \in KeyLines(Scan(T), j)
      PROVE  ~TakenOut(m, j) /\ j \notin P
  <2>1. T[n].kind = "key" /\ j = <<Scan(T).sec[n], T[n].key>>
    BY <1>6, KeyLineOf
  <2>2. j[1] \notin m.dropped
    BY <1>2, <2>1
  <2>3. j \notin ToTake(m) /\ j \notin P
    BY <1>2, <1>6
  <2>. QED
    BY <2>2, <2>3 DEF TakenOut
<1>. HIDE DEF C
<1>7. \A j \in Item :
         /\ j \in P => Load(C)[j] = AsRead(m.view[j])
         /\ TakenOut(m, j) => Load(C)[j] = Missing
         /\ Untouched(m, j) => Load(C)[j] = SaysAt(T, n)[j]
  BY <1>5, <1>6, SaysItem DEF Follows
<1>8. Follows(C, T, m, n, P)
  BY <1>4, <1>7 DEF Follows
<1>. QED
  BY <1>8 DEF C

\* New keys of a section the file has go below a line of that section.
LEMMA AnchorIs ==
    ASSUME NEW T \in Seq(Line), NEW s \in Section, s \notin Lacking(Scan(T))
    PROVE  /\ Anchor(Scan(T), s) \in 0..Len(T)
           /\ SectionAt(T, Anchor(Scan(T), s)) = s
<1>. DEFINE t == Scan(T)
            lines == {n \in LinesOf(t, s) : t.line[n].kind # "blank"}
            N == Len(T)
<1>1. N \in Nat /\ DOMAIN T = 1..N /\ t.line = T
  BY ScanFields
<1>. HIDE DEF t, N
<1>2. /\ LinesOf(t, s) = {n \in 1..N : t.sec[n] = s}
      /\ lines = {n \in 1..N : t.sec[n] = s /\ T[n].kind # "blank"}
  BY <1>1 DEF LinesOf
<1>3. Anchor(t, s) = IF lines = {} THEN 0 ELSE Max(lines)
  BY DEF Anchor
<1>. HIDE DEF lines
<1>4. CASE lines # {}
  <2>1. lines \in SUBSET (0..N)
    BY <1>1, <1>2
  <2>2. Max(lines) \in lines
    BY <1>1, <1>4, <2>1, Greatest
  <2>3. Max(lines) \in 1..N /\ t.sec[Max(lines)] = s
    BY <1>2, <2>2
  <2>4. SectionAt(T, Max(lines)) = s
    BY <2>3, PrefixEnd DEF SectionAt, t, N
  <2>. QED
    BY <1>1, <1>3, <1>4, <2>3, <2>4 DEF t, N
<1>5. CASE lines = {}
  <2>1. s = Global
    <3>. SUFFICES ASSUME s # Global PROVE FALSE
      OBVIOUS
    <3>1. PICK n \in 1..N : t.sec[n] = s
      BY <1>2 DEF Lacking, t
    <3>2. Above(T, n) # {} /\ T[Max(Above(T, n))].sec = s
      BY <3>1, ScanFields DEF t, N
    <3>3. Above(T, n) \in SUBSET (0..N)
      BY <1>1 DEF Above
    <3>4. Max(Above(T, n)) \in Above(T, n)
      BY <1>1, <3>2, <3>3, Greatest
    <3>5. Max(Above(T, n)) \in 1..N /\ T[Max(Above(T, n))].kind = "head"
      BY <1>1, <3>4 DEF Above
    <3>6. t.sec[Max(Above(T, n))] = s
      BY <3>2, <3>5, SectionStep DEF t, N
    <3>. QED
      BY <1>2, <1>5, <3>5, <3>6
  <2>2. SubSeq(T, 1, 0) = <<>>
    BY PrefixStep
  <2>3. SectionAt(T, 0) = Global
    BY <2>2, EmptyLoad DEF SectionAt
  <2>. QED
    BY <1>1, <1>3, <1>5, <2>1, <2>3 DEF t, N
<1>. QED
  BY <1>4, <1>5

\* The new keys that go below line n.
Below(t, m, n) == {i \in Fresh(t, m) : i[1] \notin Lacking(t) /\ Anchor(t, i[1]) = n}

\* A new key below line n, and the section it is in.
LEMMA BelowIs ==
    ASSUME NEW T \in Seq(Line), NEW m, Puttable(m), NEW n, NEW i \in Below(Scan(T), m, n)
    PROVE  /\ i \in Item /\ i \in ToPut(m) /\ m.view[i] \in Value /\ i[1] \notin m.dropped
           /\ SectionAt(T, n) = i[1] /\ KeyLines(Scan(T), i) = {}
<1>1. /\ i \in ToPut(m) /\ KeyLines(Scan(T), i) = {}
      /\ i[1] \notin Lacking(Scan(T)) /\ Anchor(Scan(T), i[1]) = n
  BY DEF Below, Fresh
<1>2. i \in Item /\ m.view[i] \in Value /\ i[1] \notin m.dropped
  BY <1>1, PutsTyped
<1>3. i[1] \in Section
  BY <1>2 DEF Item
<1>4. SectionAt(T, n) = i[1]
  BY <1>1, <1>3, AnchorIs
<1>. QED
  BY <1>1, <1>2, <1>4

\* New keys below line n are put, and disturb nothing else.
LEMMA AppendedFollows ==
    ASSUME NEW T \in Seq(Line), NEW m, Puttable(m), NEW n \in 0..Len(T), NEW B, NEW P,
           Follows(B, T, m, n, P)
    PROVE  Follows(B \o Appended(Scan(T), m, n), T, m, n, P \cup Below(Scan(T), m, n))
<1>. DEFINE Q == Below(Scan(T), m, n)
            C == B \o NewLines(Q, m)
<1>1. C = B \o Appended(Scan(T), m, n)
  BY DEF Appended, Below
<1>2. B \in Seq(Line)
  BY DEF Follows
<1>3. ASSUME NEW i \in Q
      PROVE  i \in Item /\ i \in ToPut(m) /\ m.view[i] \in Value /\ i[1] = End(B)
  BY BelowIs DEF Follows
<1>. HIDE DEF Q
<1>4. Q \subseteq Item
  BY <1>3
<1>5. /\ C \in Seq(Line) /\ End(C) = End(B)
      /\ \A i \in Item : Load(C)[i] = IF i \in Q THEN AsRead(m.view[i]) ELSE Load(B)[i]
  BY <1>2, <1>3, <1>4, NewLinesRead
<1>. HIDE DEF C
<1>6. \A i \in Item : i \in Q => ~TakenOut(m, i) /\ ~Untouched(m, i)
  BY <1>3, TakenFacts
<1>7. Follows(C, T, m, n, P \cup Q)
  BY <1>5, <1>6 DEF Follows
<1>. QED
  BY <1>1, <1>7 DEF Q

\* The keys that are put once n lines are done.
Placed(t, m, n) ==
    {i \in ToPut(m) : IF KeyLines(t, i) # {} THEN OwnLine(t, i) <= n
                      ELSE i[1] \notin Lacking(t) /\ Anchor(t, i[1]) <= n}

\* Line n adds the key it is replaced for and the new ones below it.
LEMMA PlacedStep ==
    ASSUME NEW T \in Seq(Line), NEW m, Puttable(m)
    PROVE  /\ Placed(Scan(T), m, 0) \subseteq Below(Scan(T), m, 0)
           /\ \A n \in 1..Len(T) :
                Placed(Scan(T), m, n) \subseteq
                  Placed(Scan(T), m, n - 1) \cup Owner(Scan(T), m, n) \cup Below(Scan(T), m, n)
<1>. DEFINE t == Scan(T)
<1>1. ASSUME NEW i \in ToPut(m)
      PROVE  /\ KeyLines(t, i) # {} => OwnLine(t, i) \in 1..Len(T)
             /\ i[1] \notin Lacking(t) => Anchor(t, i[1]) \in 0..Len(T)
  <2>1. i \in Item /\ i[1] \in Section
    BY PutsTyped DEF Item
  <2>. QED
    BY <2>1, OwnLineIs, AnchorIs
<1>2. Len(T) \in Nat
  OBVIOUS
<1>. HIDE DEF t
<1>3. Placed(t, m, 0) \subseteq Below(t, m, 0)
  BY <1>1, <1>2 DEF Placed, Below, Fresh
<1>4. ASSUME NEW n \in 1..Len(T), NEW i \in Placed(t, m, n)
      PROVE  i \in Placed(t, m, n - 1) \cup Owner(t, m, n) \cup Below(t, m, n)
  <2>1. i \in ToPut(m)
    BY DEF Placed
  <2>2. CASE KeyLines(t, i) # {}
    <3>1. OwnLine(t, i) \in 1..Len(T) /\ OwnLine(t, i) <= n
      BY <1>1, <2>1, <2>2 DEF Placed
    <3>2. OwnLine(t, i) <= n - 1 \/ OwnLine(t, i) = n
      BY <1>2, <3>1
    <3>. QED
      BY <2>1, <2>2, <3>2 DEF Placed, Owner, Fresh
  <2>3. CASE KeyLines(t, i) = {}
    <3>1. i[1] \notin Lacking(t) /\ Anchor(t, i[1]) \in 0..Len(T) /\ Anchor(t, i[1]) <= n
      BY <1>1, <2>1, <2>3 DEF Placed
    <3>2. Anchor(t, i[1]) <= n - 1 \/ Anchor(t, i[1]) = n
      BY <1>2, <3>1
    <3>. QED
      BY <2>1, <2>3, <3>1, <3>2 DEF Placed, Below, Fresh
  <2>. QED
    BY <2>2, <2>3
<1>. QED
  BY <1>3, <1>4 DEF t

\* Whatever becomes of line n, the lines out of it and above it follow T.
LEMMA EditedFollows ==
    ASSUME NEW T \in Seq(Line), NEW m, Puttable(m), NEW n \in 1..Len(T), NEW B,
           Follows(B, T, m, n - 1, Placed(Scan(T), m, n - 1))
    PROVE  Follows(B \o Edited(Scan(T), m, n), T, m, n,
                   Placed(Scan(T), m, n - 1) \cup Owner(Scan(T), m, n))
<1>. DEFINE t == Scan(T)
            P == Placed(t, m, n - 1)
            O == Owner(t, m, n)
<1>1. T[n] \in Line /\ t.line[n] = T[n] /\ B \in Seq(Line)
  BY ScanFields, Elements DEF Follows
<1>2. \A i \in P : i \in ToPut(m) /\ n \notin KeyLines(t, i)
  <2>. SUFFICES ASSUME NEW i \in P, n \in KeyLines(t, i) PROVE FALSE
    BY DEF Placed
  <2>1. OwnLine(t, i) \in 1..Len(T) /\ n <= OwnLine(t, i)
    BY OwnLineIs
  <2>2. OwnLine(t, i) <= n - 1
    BY DEF Placed
  <2>. QED
    BY <2>1, <2>2
<1>. HIDE DEF t, P, O
<1>3. CASE n \in Dropped(t, m)
  <2>1. O = {}
    BY <1>3, OwnerIs DEF O, t
  <2>2. Edited(t, m, n) = <<>> /\ B \o <<>> = B
    BY <1>1, <1>3, ConcatEmptySeq DEF Edited
  <2>. QED
    BY <1>3, <2>1, <2>2, GoneFollows DEF O, P, t
<1>4. CASE n \notin Dropped(t, m) /\ O = {}
  <2>1. Edited(t, m, n) = <<T[n]>>
    BY <1>1, <1>4 DEF Edited, O
  <2>2. B \o <<T[n]>> = Append(B, T[n])
    BY <1>1, AppendIsConcat
  <2>3. Follows(Append(B, T[n]), T, m, n, P)
    BY <1>2, <1>4, KeptFollows DEF P, t
  <2>. QED
    BY <1>4, <2>1, <2>2, <2>3 DEF O, P, t
<1>5. CASE n \notin Dropped(t, m) /\ O # {}
  <2>1. PICK i : i \in O /\ i = CHOOSE j \in O : TRUE
    BY <1>5
  <2>2. O = {i} /\ i \in ToPut(m) /\ T[n].kind = "key"
    BY <2>1, OwnerIs DEF O, t
  <2>3. Edited(t, m, n) = <<Rebuilt(T[n], m.view[i])>>
    BY <1>1, <1>5, <2>1 DEF Edited, O
  <2>4. Rebuilt(T[n], m.view[i]) \in Line
    BY <1>1, <2>2, PutsTyped, RebuiltReads
  <2>5. B \o <<Rebuilt(T[n], m.view[i])>> = Append(B, Rebuilt(T[n], m.view[i]))
    BY <1>1, <2>4, AppendIsConcat
  <2>6. Follows(Append(B, Rebuilt(T[n], m.view[i])), T, m, n, P \cup {i})
    BY <2>1, RebuiltFollows DEF O, P, t
  <2>. QED
    BY <2>2, <2>3, <2>5, <2>6 DEF O, P, t
<1>. QED
  BY <1>3, <1>4, <1>5

\* A line becomes no line or one line.
LEMMA EditedTyped ==
    ASSUME NEW T \in Seq(Line), NEW m, Puttable(m), NEW n \in 1..Len(T)
    PROVE  Edited(Scan(T), m, n) \in Seq(Line)
<1>. DEFINE t == Scan(T)
            O == Owner(t, m, n)
<1>1. T[n] \in Line /\ t.line[n] = T[n] /\ <<>> \in Seq(Line)
  BY ScanFields, Elements, EmptySeq
<1>. HIDE DEF t
<1>2. ASSUME NEW i \in O PROVE Rebuilt(T[n], m.view[i]) \in Line
  <2>1. i \in ToPut(m) /\ T[n].kind = "key"
    BY OwnerIs DEF t
  <2>. QED
    BY <1>1, <2>1, PutsTyped, RebuiltReads
<1>3. \A l \in Line : <<l>> \in Seq(Line)
  OBVIOUS
<1>4. O # {} => (CHOOSE i \in O : TRUE) \in O
  OBVIOUS
<1>. HIDE DEF O
<1>5. O # {} => <<Rebuilt(T[n], m.view[CHOOSE i \in O : TRUE])>> \in Seq(Line)
  BY <1>2, <1>3, <1>4
<1>. QED
  BY <1>1, <1>3, <1>5 DEF Edited, t, O

\* New keys are lines.
LEMMA AppendedTyped ==
    ASSUME NEW T \in Seq(Line), NEW m, Puttable(m), NEW n
    PROVE  Appended(Scan(T), m, n) \in Seq(Line)
<1>. DEFINE Q == {i \in Fresh(Scan(T), m) : i[1] \notin Lacking(Scan(T)) /\ Anchor(Scan(T), i[1]) = n}
<1>1. \A i \in Q : i \in Item /\ m.view[i] \in Value
  BY PutsTyped DEF Fresh
<1>2. Appended(Scan(T), m, n) = NewLines(Q, m)
  BY DEF Appended
<1>. HIDE DEF Q
<1>3. Q \in SUBSET Item
  BY <1>1
<1>4. IsFiniteSet(Q)
  BY <1>3, ItemsFinite, FS_Subset
<1>. QED
  BY <1>1, <1>2, <1>3, <1>4, NewLinesAre

\* What one line of T becomes, with what goes below it.
Step(T, m, n, out) == out \o Edited(Scan(T), m, n) \o Appended(Scan(T), m, n)

\* The new keys of sections the file does not have.
Homeless(t, m) == {i \in Fresh(t, m) : i[1] \in Lacking(t)}

\* ... in new sections behind the rest.
WithNew(B, items, m) == WithSections(B, SetToSeq(SectionsOf(items)), items, m)

\* None of them is the section without a name.
LEMMA HomelessAreNamed ==
    ASSUME NEW t, NEW m, NEW i \in Homeless(t, m)
    PROVE  i[1] # Global
BY DEF Homeless, Lacking

EditsTo(f, T, m) ==
    /\ f \in [0..Len(T) -> Seq(Line)] /\ f[0] = Appended(Scan(T), m, 0)
    /\ \A n \in 1..Len(T) : f[n] = Step(T, m, n, f[n - 1])
    /\ Surgical(T, m) = WithNew(f[Len(T)], Homeless(Scan(T), m), m)

\* The recursion of Surgical, as a function.
LEMMA BodyEdits ==
    ASSUME NEW T \in Seq(Line), NEW m, Puttable(m)
    PROVE  \E f : EditsTo(f, T, m)
<1>. DEFINE N == Len(T)
            b == Appended(Scan(T), m, 0)
            G(f) == f = [n \in 0..N |-> IF n = 0 THEN b ELSE Step(T, m, n, f[n - 1])]
            h == [n \in 1..N |-> [out \in Seq(Line) |-> Step(T, m, n, out)]]
<1>1. N \in Nat /\ b \in Seq(Line)
  BY AppendedTyped
<1>2. Surgical(T, m) = WithNew((CHOOSE f : G(f))[N], Homeless(Scan(T), m), m)
  BY DEF Surgical, Homeless, Step, WithNew
<1>. HIDE DEF N, b
<1>3. h \in [1..N -> [Seq(Line) -> Seq(Line)]]
  <2>. SUFFICES ASSUME NEW n \in 1..N, NEW out \in Seq(Line) PROVE Step(T, m, n, out) \in Seq(Line)
    OBVIOUS
  <2>1. Edited(Scan(T), m, n) \in Seq(Line) /\ Appended(Scan(T), m, n) \in Seq(Line)
    BY EditedTyped, AppendedTyped DEF N
  <2>. QED
    BY <2>1, ConcatProperties DEF Step
<1>4. PICK f \in [0..N -> Seq(Line)] :
        f[0] = b /\ \A n \in 1..N : f[n] = h[n][f[n - 1]]
  <2>. HIDE DEF h
  <2>1. PICK f : Iterates(f, N, Seq(Line), b, h)
    BY <1>1, <1>3, Iterated
  <2>. QED
    BY <2>1 DEF Iterates
<1>5. \A n \in 1..N : f[n] = Step(T, m, n, f[n - 1])
  <2>1. \A n \in 1..N : n - 1 \in 0..N
    BY <1>1
  <2>. QED
    BY <1>4, <2>1
<1>. HIDE DEF h
<1>6. G(f)
  <2>1. \A n \in 0..N : n = 0 \/ n \in 1..N
    BY <1>1
  <2>2. f = [n \in 0..N |-> f[n]]
    BY <1>4
  <2>. QED
    BY <1>4, <1>5, <2>1, <2>2
<1>. HIDE DEF G
<1>7. PICK g : G(g) /\ g = CHOOSE f_1 : G(f_1)
  BY <1>6, Zenon
<1>8. g = f
  <2>. DEFINE H == {k \in 0..N : g[k] = f[k]}
  <2>0. 0 \in 0..N
    BY <1>1
  <2>1. g = [n \in 0..N |-> IF n = 0 THEN b ELSE Step(T, m, n, g[n - 1])]
    BY <1>7, Zenon DEF G
  <2>2. g[0] = b /\ g = [n \in 0..N |-> g[n]]
    BY <2>0, <2>1
  <2>3. ASSUME NEW k \in 1..N, g[k - 1] = f[k - 1] PROVE g[k] = f[k]
    <3>1. k \in 0..N /\ k # 0
      BY <1>1
    <3>2. g[k] = Step(T, m, k, g[k - 1])
      BY <2>1, <3>1
    <3>. QED
      BY <1>5, <2>3, <3>2
  <2>4. 0 \in H /\ \A k \in 1..N : k - 1 \in H => k \in H
    <3>1. \A k \in 1..N : k \in 0..N
      BY <1>1
    <3>. QED
      BY <1>4, <2>0, <2>2, <2>3, <3>1
  <2>5. H \in SUBSET (0..N)
    OBVIOUS
  <2>6. H = 0..N
    <3>. HIDE DEF H
    <3>. QED
      BY <1>1, <2>4, <2>5, Upward
  <2>7. f = [n \in 0..N |-> f[n]]
    BY <1>4
  <2>. QED
    BY <2>2, <2>6, <2>7
<1>. QED
  BY <1>2, <1>4, <1>5, <1>7, <1>8 DEF N, b, EditsTo

\* Fewer items are put, too.
LEMMA MoreFollows ==
    ASSUME NEW B, NEW T, NEW m, NEW n, NEW P, NEW Q, Q \subseteq P, Follows(B, T, m, n, P)
    PROVE  Follows(B, T, m, n, Q)
BY DEF Follows

\* Nothing is said yet, and nothing is put.
LEMMA NothingFollows ==
    ASSUME NEW T \in Seq(Line), NEW m
    PROVE  Follows(<<>>, T, m, 0, {})
<1>1. SubSeq(T, 1, 0) = <<>> /\ <<>> \in Seq(Line)
  BY PrefixStep, EmptySeq
<1>2. Load(<<>>) = EmptyContents /\ End(<<>>) = Global
  BY EmptyLoad
<1>3. SectionAt(T, 0) = Global /\ SaysAt(T, 0) = EmptyContents
  BY <1>1, <1>2, Zenon DEF SectionAt, SaysAt
<1>. QED
  BY <1>1, <1>2, <1>3 DEF Follows, EmptyContents

\* Every line's worth of the edited lines follows T.
AllFollow(f, T, m) == \A n \in 0..Len(T) : Follows(f[n], T, m, n, Placed(Scan(T), m, n))

\* By induction on the lines.
LEMMA BodySteps ==
    ASSUME NEW T \in Seq(Line), NEW m, Puttable(m), NEW f, EditsTo(f, T, m)
    PROVE  AllFollow(f, T, m)
<1>. DEFINE N == Len(T)
            t == Scan(T)
            Good(k) == Follows(f[k], T, m, k, Placed(t, m, k))
<1>2. /\ f[0] = Appended(t, m, 0) /\ \A n \in 1..N : f[n] = Step(T, m, n, f[n - 1])
      /\ f \in [0..N -> Seq(Line)]
      /\ Surgical(T, m) = WithNew(f[N], Homeless(t, m), m)
  BY DEF EditsTo
<1>3. N \in Nat
  OBVIOUS
<1>4. Good(0)
  <2>0. PICK E : E = <<>>
    OBVIOUS
  <2>1. Follows(E \o Appended(t, m, 0), T, m, 0, {} \cup Below(t, m, 0))
    <3>1. Follows(E, T, m, 0, {})
      BY <2>0, NothingFollows
    <3>2. 0 \in 0..Len(T)
      BY <1>3
    <3>. QED
      BY <3>1, <3>2, AppendedFollows
  <2>2. Appended(t, m, 0) \in Seq(Line)
    BY AppendedTyped
  <2>3. E \o Appended(t, m, 0) = f[0]
    BY <1>2, <2>0, <2>2, ConcatEmptySeq
  <2>4. Placed(t, m, 0) \subseteq {} \cup Below(t, m, 0)
    BY PlacedStep
  <2>. QED
    BY <2>1, <2>3, <2>4, MoreFollows
<1>5. ASSUME NEW k \in 1..N, Good(k - 1) PROVE Good(k)
  <2>. DEFINE X == f[k - 1] \o Edited(t, m, k)
              P == Placed(t, m, k - 1) \cup Owner(t, m, k)
  <2>1. Follows(X, T, m, k, P)
    BY <1>5, EditedFollows
  <2>2. k \in 0..N
    BY <1>3
  <2>. HIDE DEF X, P
  <2>3. Follows(X \o Appended(t, m, k), T, m, k, P \cup Below(t, m, k))
    BY <2>1, <2>2, AppendedFollows
  <2>4. f[k] = X \o Appended(t, m, k)
    BY <1>2 DEF X, Step
  <2>5. Placed(t, m, k) \subseteq P \cup Below(t, m, k)
    BY PlacedStep DEF P
  <2>. QED
    BY <2>3, <2>4, <2>5, MoreFollows
<1>. HIDE DEF Good
<1>6. \A n \in 0..N : Good(n)
  <2>. DEFINE G == {k \in 0..N : Good(k)}
  <2>1. 0 \in G /\ \A k \in 1..N : k - 1 \in G => k \in G
    BY <1>3, <1>4, <1>5
  <2>2. G \in SUBSET (0..N)
    OBVIOUS
  <2>3. G = 0..N
    <3>. HIDE DEF G
    <3>. QED
      BY <1>3, <2>1, <2>2, Upward
  <2>. QED
    BY <2>3
<1>. QED
  BY <1>6 DEF Good, AllFollow

\* The edited lines have every key that is put, new sections excepted.
LEMMA BodyFollows ==
    ASSUME NEW T \in Seq(Line), NEW m, Puttable(m)
    PROVE  \E B : /\ Surgical(T, m) = WithNew(B, Homeless(Scan(T), m), m)
                  /\ Follows(B, T, m, Len(T), Placed(Scan(T), m, Len(T)))
<1>1. PICK f : EditsTo(f, T, m)
  BY BodyEdits
<1>2. AllFollow(f, T, m)
  BY <1>1, BodySteps
<1>3. Len(T) \in 0..Len(T)
  OBVIOUS
<1>4. Follows(f[Len(T)], T, m, Len(T), Placed(Scan(T), m, Len(T)))
  BY <1>2, <1>3 DEF AllFollow
<1>. QED
  BY <1>1, <1>4 DEF EditsTo

\* The memory, with its values as a load of the file will see them.
Read(m) == [m EXCEPT !.view = [i \in Item |-> AsRead(m.view[i])]]

\* Whatever a file looks like, and whatever a save owes it.
THEOREM SurgicalReadsBack ==
    ASSUME NEW T \in Seq(Line), NEW m, Puttable(m)
    PROVE  /\ Surgical(T, m) \in Seq(Line)
           /\ Load(Surgical(T, m)) = Overlay(Load(T), Read(m))
<1>. DEFINE U == Surgical(T, m)
            t == Scan(T)
            Q == Homeless(t, m)
            N == Len(T)
<1>1. PICK B : U = WithNew(B, Q, m) /\ Follows(B, T, m, N, Placed(t, m, N))
  BY BodyFollows
<1>2. \A i \in Q : i \in Item /\ i \in ToPut(m) /\ m.view[i] \in Value
  BY PutsTyped DEF Homeless, Fresh
<1>3. /\ U \in Seq(Line)
      /\ \A i \in Item : Load(U)[i] = IF i \in Q THEN AsRead(m.view[i]) ELSE Load(B)[i]
  <2>. DEFINE order == SetToSeq(SectionsOf(Q))
  <2>1. Q \subseteq Item /\ \A i \in Q : i[1] # Global /\ m.view[i] \in Value
    BY <1>2, HomelessAreNamed
  <2>. HIDE DEF Q
  <2>2. /\ order \in Seq(Section)
        /\ \A i \in Q : \E n \in 1..Len(order) : order[n] = i[1]
    BY <2>1, SectionsListed
  <2>3. U = WithSections(B, order, Q, m) /\ B \in Seq(Line)
    BY <1>1 DEF WithNew, Follows
  <2>. HIDE DEF order, U
  <2>4. Q \subseteq Item /\ (\A i \in Q : m.view[i] \in Value) /\ \A i \in Q : i[1] # Global
    BY <2>1
  <2>5. InOrder(B, order, Q)
    BY <2>2, <2>4 DEF InOrder
  <2>6. Binds(U, B, Q, m)
    BY <2>3, <2>4, <2>5, SectionsRead
  <2>. QED
    BY <2>6 DEF Binds
<1>4. ASSUME NEW i \in Item, i \in ToPut(m) PROVE Load(U)[i] = AsRead(m.view[i])
  <2>1. CASE i \in Q
    BY <1>3, <2>1
  <2>2. CASE i \notin Q /\ KeyLines(t, i) # {}
    <3>1. OwnLine(t, i) \in 1..N
      BY <2>2, OwnLineIs
    <3>2. i \in Placed(t, m, N)
      BY <1>4, <2>2, <3>1 DEF Placed
    <3>. QED
      BY <1>1, <1>3, <2>2, <3>2 DEF Follows
  <2>3. CASE i \notin Q /\ KeyLines(t, i) = {}
    <3>1. i[1] \notin Lacking(t) /\ i[1] \in Section
      BY <1>4, <2>3 DEF Homeless, Fresh, Item
    <3>2. Anchor(t, i[1]) \in 0..N
      BY <3>1, AnchorIs
    <3>3. i \in Placed(t, m, N)
      BY <1>4, <2>3, <3>1, <3>2 DEF Placed
    <3>. QED
      BY <1>1, <1>3, <2>3, <3>3 DEF Follows
  <2>. QED
    BY <2>1, <2>2, <2>3
<1>5. SaysAt(T, N) = Load(T)
  BY PrefixStep DEF SaysAt
<1>6. ASSUME NEW i \in Item, i \notin ToPut(m)
      PROVE  /\ TakenOut(m, i) => Load(U)[i] = Missing
             /\ Untouched(m, i) => Load(U)[i] = Load(T)[i]
  BY <1>1, <1>2, <1>3, <1>5, <1>6 DEF Follows
<1>. HIDE DEF U
<1>7. AsRead(Missing) = Missing
  BY CutAssumption, MissingAssumption DEF AsRead
<1>8. /\ Read(m).touched = m.touched /\ Read(m).dropped = m.dropped
      /\ \A i \in Item : Read(m).view[i] = AsRead(m.view[i])
  BY DEF Read, Puttable, Memory
<1>9. ASSUME NEW i \in Item PROVE Load(U)[i] = Overlay(Load(T), Read(m))[i]
  <2>1. Overlay(Load(T), Read(m))[i] =
          IF i \in m.touched THEN AsRead(m.view[i])
          ELSE IF i[1] \in m.dropped THEN Missing ELSE Load(T)[i]
    BY <1>8 DEF Overlay
  <2>2. i \in m.touched /\ i \notin ToPut(m) => m.view[i] = Missing /\ i \in ToTake(m)
    BY PutsTyped DEF ToTake
  <2>3. i \in ToPut(m) => i \in m.touched
    BY PutsTyped
  <2>. QED
    BY <1>4, <1>6, <1>7, <2>1, <2>2, <2>3 DEF TakenOut, Untouched
<1>10. Load(U) = [i \in Item |-> Load(U)[i]]
  BY DEF Load
<1>11. Overlay(Load(T), Read(m)) = [i \in Item |-> Overlay(Load(T), Read(m))[i]]
  BY DEF Overlay
<1>12. Load(U) = Overlay(Load(T), Read(m))
  BY <1>9, <1>10, <1>11
<1>. QED
  BY <1>3, <1>12 DEF U

\* A list has the sections of all configured keys, and if the one without a
\* name is among these it comes first.
Writable(m, order) ==
    /\ order \in Seq(Section)
    /\ \A i \in Item : m.view[i] # Missing => \E n \in 1..Len(order) : order[n] = i[1]
    /\ \A n \in 2..Len(order) : order[n] = Global =>
         \A i \in Item : i[1] = Global => m.view[i] = Missing

\* config_write of a memory: the file says what the memory says, if the keys
\* without a section were the first to be read.
THEOREM WholeReadsBack ==
    ASSUME NEW m \in Memory, NEW order, Writable(m, order)
    PROVE  /\ Whole(m, order) \in Seq(Line)
           /\ Load(Whole(m, order)) = Read(m).view
<1>. DEFINE known == {i \in Item : m.view[i] # Missing}
            U == Whole(m, order)
<1>0. PICK E : E = <<>>
  OBVIOUS
<1>1. U = WithSections(E, order, known, m) /\ E \in Seq(Line) /\ End(E) = Global
  BY <1>0, EmptySeq, EmptyLoad DEF Whole
<1>2. known \subseteq Item /\ \A i \in known : m.view[i] \in Value
  BY DEF Memory, Contents
<1>3. /\ order \in Seq(Section)
      /\ \A i \in known : \E n \in 1..Len(order) : order[n] = i[1]
  BY DEF Writable
<1>4. ASSUME NEW n \in 1..Len(order), order[n] = Global
      PROVE  n = 1 \/ \A i \in known : i[1] # Global
  <2>1. n # 1 => n \in 2..Len(order)
    BY <1>3, Elements
  <2>. QED
    BY <1>4, <2>1 DEF Writable
<1>. HIDE DEF known, U
<1>5. /\ U \in Seq(Line)
      /\ \A i \in Item : Load(U)[i] = IF i \in known THEN AsRead(m.view[i]) ELSE Load(E)[i]
  <2>1. InOrder(E, order, known)
    BY <1>1, <1>3, <1>4 DEF InOrder
  <2>2. Binds(U, E, known, m)
    BY <1>1, <1>2, <2>1, SectionsRead
  <2>. QED
    BY <2>2 DEF Binds
<1>6. AsRead(Missing) = Missing
  BY CutAssumption, MissingAssumption DEF AsRead
<1>7. \A i \in Item : Load(E)[i] = Missing
  BY <1>0, EmptyLoad DEF EmptyContents
<1>8. \A i \in Item : Load(U)[i] = AsRead(m.view[i])
  BY <1>5, <1>6, <1>7 DEF known
<1>9. Load(U) = [i \in Item |-> Load(U)[i]]
  BY DEF Load
<1>10. Read(m).view = [i \in Item |-> AsRead(m.view[i])]
  BY DEF Read, Memory
<1>. QED
  BY <1>5, <1>8, <1>9, <1>10 DEF U

-----------------------------------------------------------------------------
(* What an edit leaves: a set of pairs of a written text and a number of   *)
(* lines read that no step of an edit leaves has the edited file in it.     *)

\* The line a new key gets.
NewLine(i, m) == Written(i[2], m.view[i], KeyWidth, 0)

\* New lines behind a text are written one by one.
LEMMA NewLinesCarried ==
    ASSUME NEW Q, NEW T \in Seq(Line), T \in Q, NEW m, NEW items, items \subseteq Item,
           \A i \in items : i[1] = End(T) /\ m.view[i] \in Value,
           \A B \in Seq(Line), i \in items :
             B \in Q /\ End(B) = i[1] => Append(B, NewLine(i, m)) \in Q
    PROVE  T \o NewLines(items, m) \in Q
<1>. DEFINE order == SetToSeq(items)
            L == NewLines(items, m)
            N == Len(L)
            U(k) == T \o SubSeq(L, 1, k)
            Good(k) == U(k) \in Seq(Line) /\ U(k) \in Q /\ End(U(k)) = End(T)
<1>1. IsFiniteSet(items)
  BY ItemsFinite, FS_Subset
<1>2. order \in Seq(items)
  BY <1>1, Listed
<1>3. /\ L \in Seq(Line) /\ N = Len(order)
      /\ \A n \in 1..N : L[n].kind = "key"
  BY <1>1, NewLinesAre
<1>4. N \in Nat /\ \A j \in 1..N : order[j] \in items /\ L[j] \in Line
  BY <1>2, <1>3, ElementOfSeq
<1>5. \A j \in 1..N : L[j] = NewLine(order[j], m)
  <2>1. DOMAIN order = 1..N
    BY <1>2, <1>3
  <2>. QED
    BY <2>1 DEF NewLines, NewLine
<1>. HIDE DEF order, L, N
<1>6. SubSeq(L, 1, 0) = <<>> /\ SubSeq(L, 1, N) = L
  BY <1>3, PrefixStep DEF N
<1>7. U(0) = T
  BY <1>6, ConcatEmptySeq
<1>8. Good(0)
  <2>. HIDE DEF U
  <2>. QED
    BY <1>7
<1>9. ASSUME NEW k \in 1..N, Good(k - 1) PROVE Good(k)
  <2>1. SubSeq(L, 1, k - 1) \in Seq(Line) /\ SubSeq(L, 1, k) = Append(SubSeq(L, 1, k - 1), L[k])
    BY <1>3, PrefixStep DEF N
  <2>2. U(k) = Append(U(k - 1), L[k])
    BY <1>4, <2>1, ConcatStep
  <2>. HIDE DEF U
  <2>3. U(k) \in Seq(Line) /\ End(U(k)) = End(T)
    BY <1>3, <1>4, <1>9, <2>2, AppendKeeps, AppendEnd
  <2>4. order[k] \in items /\ order[k][1] = End(U(k - 1)) /\ L[k] = NewLine(order[k], m)
    BY <1>4, <1>5, <1>9
  <2>5. Append(U(k - 1), L[k]) \in Q
    BY <1>9, <2>4
  <2>. QED
    BY <2>2, <2>3, <2>5
<1>. HIDE DEF Good
<1>10. {k \in 0..N : Good(k)} = 0..N
  <2>. DEFINE G == {k \in 0..N : Good(k)}
  <2>1. 0 \in G
    BY <1>4, <1>8
  <2>2. \A k \in 1..N : k - 1 \in G => k \in G
    BY <1>4, <1>9
  <2>. HIDE DEF G
  <2>3. G \in SUBSET (0..N)
    BY DEF G
  <2>4. G = 0..N
    BY <1>4, <2>1, <2>2, <2>3, Upward
  <2>. QED
    BY <2>4 DEF G
<1>11. Good(N)
  BY <1>4, <1>10
<1>. QED
  BY <1>6, <1>11 DEF Good, L

\* New sections at the end of a text are written one by one.
LEMMA SectionsCarried ==
    ASSUME NEW Q, NEW T \in Seq(Line), T \in Q, NEW m, NEW items, items \subseteq Item,
           \A i \in items : m.view[i] \in Value /\ i[1] # Global,
           \A B \in Seq(Line), i \in items :
             B \in Q => /\ Append(Separated(B), Header(i[1])) \in Q
                        /\ End(B) = i[1] => Append(B, NewLine(i, m)) \in Q
    PROVE  WithNew(T, items, m) \in Q
<1>1. PICK order : order = SetToSeq(SectionsOf(items))
  OBVIOUS
<1>. DEFINE N == Len(order)
<1>2. /\ N \in Nat /\ order \in Seq(Section) /\ \A n \in 1..N : order[n] \in Section
      /\ \A n \in 1..N : \E i \in items : order[n] = i[1]
  <2>1. order \in Seq(Section) /\ \A n \in 1..N : order[n] \in SectionsOf(items)
    BY <1>1, SectionsListed
  <2>2. N \in Nat /\ \A n \in 1..N : order[n] \in Section
    BY <2>1, Elements
  <2>3. \A n \in 1..N : \E i \in items : order[n] = i[1]
    BY <2>1 DEF SectionsOf
  <2>. QED
    BY <2>1, <2>2, <2>3
<1>3. PICK f : Writes(f, T, order, items, m)
  BY <1>2, SectionsOut
<1>4. /\ f \in [0..N -> Seq(Line)] /\ f[0] = T /\ WithNew(T, items, m) = f[N]
      /\ \A n \in 1..N : f[n] = AddedSection(f[n - 1], order[n], items, m)
  BY <1>1, <1>3 DEF Writes, WithNew
<1>. HIDE DEF N
<1>5. ASSUME NEW k \in 1..N, f[k - 1] \in Q PROVE f[k] \in Q
  <2>. DEFINE B == f[k - 1]
              s == order[k]
              own == {i \in items : i[1] = s}
              X == Append(Separated(B), Header(s))
  <2>1. B \in Seq(Line) /\ s \in Section
    BY <1>2, <1>4
  <2>2. X \in Q
    BY <1>2, <1>5, <2>1
  <2>3. Separated(B) \in Seq(Line)
    BY <2>1, BlankRead
  <2>4. Header(s) \in Line /\ Header(s).kind = "head" /\ Header(s).sec = s
    BY <2>1 DEF Header, Line
  <2>5. X \in Seq(Line) /\ End(X) = s
    BY <2>3, <2>4, AppendKeeps, AppendEnd
  <2>6. Separated(B) \o <<Header(s)>> = X
    BY <2>3, <2>4, AppendIsConcat
  <2>7. f[k] = X \o NewLines(own, m)
    <3>1. own # {} /\ s # Global
      BY <1>2
    <3>. QED
      BY <1>4, <2>6, <3>1 DEF AddedSection
  <2>. HIDE DEF X
  <2>8. own \subseteq Item /\ \A i \in own : i[1] = End(X) /\ m.view[i] \in Value
    BY <2>5
  <2>9. \A C \in Seq(Line), i \in own : C \in Q /\ End(C) = i[1] => Append(C, NewLine(i, m)) \in Q
    OBVIOUS
  <2>. HIDE DEF own
  <2>10. X \o NewLines(own, m) \in Q
    BY <2>2, <2>5, <2>8, <2>9, NewLinesCarried
  <2>. QED
    BY <2>7, <2>10
<1>6. {k \in 0..N : f[k] \in Q} = 0..N
  <2>. DEFINE G == {k \in 0..N : f[k] \in Q}
  <2>1. 0 \in G /\ \A k \in 1..N : k - 1 \in G => k \in G
    BY <1>2, <1>4, <1>5
  <2>2. G \in SUBSET (0..N)
    OBVIOUS
  <2>. HIDE DEF G
  <2>3. G = 0..N
    BY <1>2, <2>1, <2>2, Upward
  <2>. QED
    BY <2>3 DEF G
<1>7. N \in 0..N
  BY <1>2
<1>. QED
  BY <1>4, <1>6, <1>7

\* B is in the section that line n of T is in, if a save leaves that one.
Aligned(B, T, m, n) ==
    B \in Seq(Line) /\ (SectionAt(T, n) \notin m.dropped => End(B) = SectionAt(T, n))

\* What becomes of the lines of T one by one, new keys and new sections: no
\* step of an edit leaves R.
Carried(R, T, m) ==
    LET t == Scan(T) IN
    /\ <<<<>>, 0>> \in R
    /\ \A n \in 1..Len(T), B \in Seq(Line) :
         <<B, n - 1>> \in R /\ Aligned(B, T, m, n - 1) =>
           /\ n \in Dropped(t, m) => <<B, n>> \in R
           /\ n \notin Dropped(t, m) /\ Owner(t, m, n) = {} => <<Append(B, T[n]), n>> \in R
           /\ \A i \in Owner(t, m, n) : <<Append(B, Rebuilt(T[n], m.view[i])), n>> \in R
    /\ \A n \in 0..Len(T) : \A B \in Seq(Line), i \in Below(t, m, n) :
         <<B, n>> \in R /\ End(B) = i[1] => <<Append(B, NewLine(i, m)), n>> \in R
    /\ \A B \in Seq(Line), i \in Homeless(t, m) :
         <<B, Len(T)>> \in R =>
           /\ <<Append(Separated(B), Header(i[1])), Len(T)>> \in R
           /\ End(B) = i[1] => <<Append(B, NewLine(i, m)), Len(T)>> \in R

\* Line n of T is written, rewritten or left out.
LEMMA EditedCarried ==
    ASSUME NEW T \in Seq(Line), NEW m, Puttable(m), NEW R, Carried(R, T, m),
           NEW n \in 1..Len(T), NEW B \in Seq(Line), <<B, n - 1>> \in R, Aligned(B, T, m, n - 1)
    PROVE  <<B \o Edited(Scan(T), m, n), n>> \in R
<1>. DEFINE t == Scan(T)
            O == Owner(t, m, n)
<1>1. T[n] \in Line /\ t.line[n] = T[n]
  BY ScanFields, Elements
<1>2. /\ n \in Dropped(t, m) => <<B, n>> \in R
      /\ n \notin Dropped(t, m) /\ O = {} => <<Append(B, T[n]), n>> \in R
      /\ \A i \in O : <<Append(B, Rebuilt(T[n], m.view[i])), n>> \in R
  BY DEF Carried
<1>. HIDE DEF t, O
<1>3. CASE n \in Dropped(t, m)
  <2>1. Edited(t, m, n) = <<>> /\ B \o <<>> = B
    BY <1>1, <1>3, ConcatEmptySeq DEF Edited
  <2>. QED
    BY <1>2, <1>3, <2>1 DEF t
<1>4. CASE n \notin Dropped(t, m) /\ O = {}
  <2>1. Edited(t, m, n) = <<T[n]>>
    BY <1>1, <1>4 DEF Edited, O
  <2>2. B \o <<T[n]>> = Append(B, T[n])
    BY <1>1, AppendIsConcat
  <2>. QED
    BY <1>2, <1>4, <2>1, <2>2 DEF t
<1>5. CASE n \notin Dropped(t, m) /\ O # {}
  <2>1. PICK i : i \in O /\ i = CHOOSE j \in O : TRUE
    BY <1>5
  <2>2. i \in ToPut(m) /\ T[n].kind = "key"
    BY <2>1, OwnerIs DEF O, t
  <2>3. Edited(t, m, n) = <<Rebuilt(T[n], m.view[i])>>
    BY <1>1, <1>5, <2>1 DEF Edited, O
  <2>4. Rebuilt(T[n], m.view[i]) \in Line
    BY <1>1, <2>2, PutsTyped, RebuiltReads
  <2>5. B \o <<Rebuilt(T[n], m.view[i])>> = Append(B, Rebuilt(T[n], m.view[i]))
    BY <1>1, <2>4, AppendIsConcat
  <2>. QED
    BY <1>2, <2>1, <2>3, <2>5 DEF t
<1>. QED
  BY <1>3, <1>4, <1>5

\* New keys below line n are written one by one.
LEMMA AppendedCarried ==
    ASSUME NEW T \in Seq(Line), NEW m, Puttable(m), NEW R, Carried(R, T, m),
           NEW n \in 0..Len(T), NEW B \in Seq(Line), <<B, n>> \in R, Aligned(B, T, m, n)
    PROVE  <<B \o Appended(Scan(T), m, n), n>> \in R
<1>. DEFINE items == Below(Scan(T), m, n)
            Q == {C \in Seq(Line) : <<C, n>> \in R}
<1>1. Appended(Scan(T), m, n) = NewLines(items, m)
  BY DEF Appended, Below
<1>2. \A i \in items : i \in Item /\ i[1] = End(B) /\ m.view[i] \in Value
  BY BelowIs DEF Aligned
<1>3. \A C \in Seq(Line), i \in items :
        C \in Q /\ End(C) = i[1] => Append(C, NewLine(i, m)) \in Q
  <2>. SUFFICES ASSUME NEW C \in Seq(Line), NEW i \in items, <<C, n>> \in R, End(C) = i[1]
                PROVE  Append(C, NewLine(i, m)) \in Q
    OBVIOUS
  <2>1. <<Append(C, NewLine(i, m)), n>> \in R
    BY DEF Carried
  <2>2. i \in Item /\ i[2] \in Key /\ m.view[i] \in Value
    BY <1>2 DEF Item
  <2>3. KeyWidth \in Nat /\ KeyWidth + 3 + Width[m.view[i]] + 0 < MaxLine
    BY <2>2, WidthAssumption
  <2>4. NewLine(i, m) \in Line
    BY <2>2, <2>3, WrittenReads DEF NewLine
  <2>. QED
    BY <2>1, <2>4, AppendProperties
<1>4. B \in Q
  OBVIOUS
<1>. HIDE DEF items, Q
<1>5. items \subseteq Item
  BY <1>2
<1>6. B \o NewLines(items, m) \in Q
  BY <1>2, <1>3, <1>4, <1>5, NewLinesCarried
<1>. QED
  BY <1>1, <1>6 DEF Q

\* What no step of an edit leaves holds of the edited file.
LEMMA EditCarried ==
    ASSUME NEW T \in Seq(Line), NEW m, Puttable(m), NEW R, Carried(R, T, m)
    PROVE  <<Surgical(T, m), Len(T)>> \in R
<1>. DEFINE N == Len(T)
            t == Scan(T)
<1>1. PICK f : EditsTo(f, T, m)
  BY BodyEdits
<1>2. /\ f \in [0..N -> Seq(Line)] /\ f[0] = Appended(t, m, 0)
      /\ \A n \in 1..N : f[n] = Step(T, m, n, f[n - 1])
      /\ Surgical(T, m) = WithNew(f[N], Homeless(t, m), m)
  BY <1>1 DEF EditsTo
<1>3. \A n \in 0..N : Follows(f[n], T, m, n, Placed(t, m, n))
  BY <1>1, BodySteps DEF AllFollow
<1>4. N \in Nat /\ 0 \in 0..N /\ N \in 0..N
  OBVIOUS
<1>5. <<f[0], 0>> \in R
  <2>0. PICK E : E = <<>>
    OBVIOUS
  <2>1. E \in Seq(Line) /\ <<E, 0>> \in R
    BY <2>0, EmptySeq DEF Carried
  <2>2. Aligned(E, T, m, 0)
    BY <2>0, NothingFollows DEF Aligned, Follows
  <2>3. <<E \o Appended(t, m, 0), 0>> \in R
    BY <1>4, <2>1, <2>2, AppendedCarried
  <2>4. Appended(t, m, 0) \in Seq(Line)
    BY AppendedTyped
  <2>5. E \o Appended(t, m, 0) = f[0]
    BY <1>2, <2>0, <2>4, ConcatEmptySeq
  <2>. QED
    BY <2>3, <2>5
<1>6. ASSUME NEW k \in 1..N, <<f[k - 1], k - 1>> \in R PROVE <<f[k], k>> \in R
  <2>. DEFINE X == f[k - 1] \o Edited(t, m, k)
  <2>1. k - 1 \in 0..N /\ k \in 0..N /\ f[k - 1] \in Seq(Line)
    BY <1>2, <1>4
  <2>2. Follows(f[k - 1], T, m, k - 1, Placed(t, m, k - 1))
    BY <1>3, <2>1
  <2>3. Aligned(f[k - 1], T, m, k - 1)
    BY <2>2 DEF Follows, Aligned
  <2>4. <<X, k>> \in R
    BY <1>6, <2>1, <2>3, EditedCarried
  <2>5. Follows(X, T, m, k, Placed(t, m, k - 1) \cup Owner(t, m, k))
    BY <2>2, EditedFollows
  <2>. HIDE DEF X
  <2>6. X \in Seq(Line) /\ Aligned(X, T, m, k)
    BY <2>5 DEF Follows, Aligned
  <2>7. <<X \o Appended(t, m, k), k>> \in R
    BY <2>1, <2>4, <2>6, AppendedCarried
  <2>8. f[k] = X \o Appended(t, m, k)
    BY <1>2 DEF X, Step
  <2>. QED
    BY <2>7, <2>8
<1>7. <<f[N], N>> \in R
  <2>. DEFINE G == {k \in 0..N : <<f[k], k>> \in R}
  <2>1. 0 \in G /\ \A k \in 1..N : k - 1 \in G => k \in G
    BY <1>4, <1>5, <1>6
  <2>2. G \in SUBSET (0..N)
    OBVIOUS
  <2>3. G = 0..N
    <3>. HIDE DEF G
    <3>. QED
      BY <1>4, <2>1, <2>2, Upward
  <2>. QED
    BY <1>4, <2>3
<1>. DEFINE items == Homeless(t, m)
            Q == {C \in Seq(Line) : <<C, N>> \in R}
<1>8. \A i \in items : i \in Item /\ m.view[i] \in Value /\ i[1] # Global
  BY PutsTyped, HomelessAreNamed DEF Homeless, Fresh
<1>9. \A C \in Seq(Line), i \in items :
        C \in Q => /\ Append(Separated(C), Header(i[1])) \in Q
                   /\ End(C) = i[1] => Append(C, NewLine(i, m)) \in Q
  <2>. SUFFICES ASSUME NEW C \in Seq(Line), NEW i \in items, <<C, N>> \in R
                PROVE  /\ Append(Separated(C), Header(i[1])) \in Q
                       /\ End(C) = i[1] => Append(C, NewLine(i, m)) \in Q
    OBVIOUS
  <2>1. /\ <<Append(Separated(C), Header(i[1])), N>> \in R
        /\ End(C) = i[1] => <<Append(C, NewLine(i, m)), N>> \in R
    BY DEF Carried
  <2>2. i \in Item /\ i[1] \in Section /\ i[2] \in Key /\ m.view[i] \in Value
    BY <1>8 DEF Item
  <2>3. KeyWidth \in Nat /\ KeyWidth + 3 + Width[m.view[i]] + 0 < MaxLine
    BY <2>2, WidthAssumption
  <2>4. NewLine(i, m) \in Line
    BY <2>2, <2>3, WrittenReads DEF NewLine
  <2>5. Header(i[1]) \in Line
    BY <2>2 DEF Header, Line
  <2>6. Separated(C) \in Seq(Line)
    BY BlankRead
  <2>. QED
    BY <2>1, <2>4, <2>5, <2>6, AppendProperties
<1>10. f[N] \in Q
  BY <1>2, <1>4, <1>7
<1>. HIDE DEF items, Q, t, N
<1>11. items \subseteq Item /\ f[N] \in Seq(Line)
  BY <1>8, <1>2, <1>4
<1>12. WithNew(f[N], items, m) \in Q
  BY <1>8, <1>9, <1>10, <1>11, SectionsCarried
<1>. QED
  BY <1>2, <1>12 DEF Q, items, N

-----------------------------------------------------------------------------
(* The lines a save does not own.                                          *)

\* Two functions that start alike and stay alike are the same.
LEMMA SameAlong ==
    ASSUME NEW N \in Nat, NEW f, f = [n \in 0..N |-> f[n]], NEW g, g = [n \in 0..N |-> g[n]],
           g[0] = f[0], \A k \in 1..N : g[k - 1] = f[k - 1] => g[k] = f[k]
    PROVE  g = f
<1>. DEFINE H == {k \in 0..N : g[k] = f[k]}
<1>1. 0 \in H /\ \A k \in 1..N : k - 1 \in H => k \in H
  <2>1. 0 \in 0..N /\ \A k \in 1..N : k \in 0..N
    OBVIOUS
  <2>. QED
    BY <2>1
<1>2. H \in SUBSET (0..N)
  OBVIOUS
<1>3. H = 0..N
  <2>. HIDE DEF H
  <2>. QED
    BY <1>1, <1>2, Upward
<1>. QED
  BY <1>3

\* Line n of T joins the foreign lines above it, if it is one.
Joins(T, m, K, n, r) ==
    IF Foreign(Scan(T).sec[n], T[n], m, K) THEN Append(r, <<Scan(T).sec[n], T[n]>>) ELSE r

OthersBy(f, T, m, K) ==
    /\ f = [n \in 0..Len(T) |-> f[n]] /\ f[0] = <<>>
    /\ \A n \in 1..Len(T) : f[n] = Joins(T, m, K, n, f[n - 1])
    /\ Others(T, m, K) = f[Len(T)]

\* The recursion of Others, as a function.
LEMMA OthersAre ==
    ASSUME NEW T \in Seq(Line), NEW m, NEW K
    PROVE  \E f : OthersBy(f, T, m, K)
<1>. DEFINE N == Len(T)
            S == Seq(Section \X Line)
            G(f) == f = [n \in 0..N |-> IF n = 0 THEN <<>> ELSE Joins(T, m, K, n, f[n - 1])]
            h == [n \in 1..N |-> [r \in S |-> Joins(T, m, K, n, r)]]
<1>1. N \in Nat
  OBVIOUS
<1>2. Others(T, m, K) = (CHOOSE f : G(f))[N]
  BY DEF Others, Joins
<1>3. h \in [1..N -> [S -> S]]
  <2>. SUFFICES ASSUME NEW n \in 1..N, NEW r \in S PROVE Joins(T, m, K, n, r) \in S
    OBVIOUS
  <2>1. <<Scan(T).sec[n], T[n]>> \in Section \X Line
    BY SectionsTyped, Elements
  <2>. QED
    BY <2>1, AppendProperties DEF Joins
<1>4. <<>> \in S
  BY EmptySeq
<1>. HIDE DEF S
<1>5. PICK f \in [0..N -> S] : f[0] = <<>> /\ \A n \in 1..N : f[n] = h[n][f[n - 1]]
  <2>. HIDE DEF h, N
  <2>1. PICK f : Iterates(f, N, S, <<>>, h)
    BY <1>1, <1>3, <1>4, Iterated
  <2>. QED
    BY <2>1 DEF Iterates
<1>. HIDE DEF N
<1>6. \A n \in 1..N : f[n] = Joins(T, m, K, n, f[n - 1])
  <2>1. \A n \in 1..N : n - 1 \in 0..N
    BY <1>1
  <2>. QED
    BY <1>5, <2>1
<1>. HIDE DEF h
<1>7. f = [n \in 0..N |-> f[n]]
  BY <1>5
<1>8. G(f)
  <2>1. \A n \in 0..N : n = 0 \/ n \in 1..N
    BY <1>1
  <2>. QED
    BY <1>5, <1>6, <1>7, <2>1
<1>. HIDE DEF G
<1>9. PICK g : G(g) /\ g = CHOOSE f_1 : G(f_1)
  BY <1>8, Zenon
<1>10. g = [n \in 0..N |-> IF n = 0 THEN <<>> ELSE Joins(T, m, K, n, g[n - 1])]
  BY <1>9, Zenon DEF G
<1>11. g[0] = <<>> /\ g = [n \in 0..N |-> g[n]]
  <2>1. 0 \in 0..N
    BY <1>1
  <2>. QED
    BY <1>10, <2>1
<1>12. \A k \in 1..N : g[k] = Joins(T, m, K, k, g[k - 1])
  <2>1. \A k \in 1..N : k \in 0..N /\ k # 0
    BY <1>1
  <2>. QED
    BY <1>10, <2>1
<1>13. g = f
  <2>1. g[0] = f[0] /\ \A k \in 1..N : g[k - 1] = f[k - 1] => g[k] = f[k]
    BY <1>5, <1>6, <1>11, <1>12
  <2>. QED
    BY <1>1, <1>7, <1>11, <2>1, SameAlong
<1>. QED
  BY <1>2, <1>5, <1>6, <1>7, <1>9, <1>13 DEF N, OthersBy

\* No line, no foreign one.
LEMMA OthersNone ==
    ASSUME NEW m, NEW K
    PROVE  Others(<<>>, m, K) = <<>>
<1>0. PICK E : E = <<>>
  OBVIOUS
<1>1. PICK f : OthersBy(f, E, m, K)
  BY <1>0, OthersAre, EmptySeq
<1>2. Len(E) = 0
  BY <1>0
<1>. QED
  BY <1>0, <1>1, <1>2 DEF OthersBy

\* A line more: the foreign lines of a text, and the line if it is one.
LEMMA OthersAppend ==
    ASSUME NEW T \in Seq(Line), NEW l \in Line, NEW m, NEW K
    PROVE  /\ Foreign(End(Append(T, l)), l, m, K) =>
                Others(Append(T, l), m, K) = Append(Others(T, m, K), <<End(Append(T, l)), l>>)
           /\ ~Foreign(End(Append(T, l)), l, m, K) =>
                Others(Append(T, l), m, K) = Others(T, m, K)
<1>. DEFINE U == Append(T, l)
            N == Len(T)
<1>1. /\ U \in Seq(Line) /\ Len(U) = N + 1 /\ U[N + 1] = l
      /\ \A n \in 1..N : U[n] = T[n] /\ Scan(U).sec[n] = Scan(T).sec[n]
      /\ Scan(U).sec[N + 1] = End(U)
  BY AppendKeeps, AppendEnd
<1>2. N \in Nat
  OBVIOUS
<1>. HIDE DEF U, N
<1>3. PICK f : OthersBy(f, T, m, K)
  BY OthersAre
<1>4. PICK g : OthersBy(g, U, m, K)
  BY <1>1, OthersAre
<1>5. /\ f = [n \in 0..N |-> f[n]] /\ f[0] = <<>> /\ Others(T, m, K) = f[N]
      /\ \A n \in 1..N : f[n] = Joins(T, m, K, n, f[n - 1])
  BY <1>3 DEF OthersBy, N
<1>6. /\ g[0] = <<>> /\ Others(U, m, K) = g[N + 1]
      /\ \A n \in 1..(N + 1) : g[n] = Joins(U, m, K, n, g[n - 1])
  BY <1>1, <1>4 DEF OthersBy
<1>7. \A r : \A n \in 1..N : Joins(U, m, K, n, r) = Joins(T, m, K, n, r)
  BY <1>1 DEF Joins
<1>8. \A n \in 1..N : g[n - 1] = f[n - 1] => g[n] = f[n]
  <2>1. \A n \in 1..N : n \in 1..(N + 1)
    BY <1>2
  <2>. QED
    BY <1>5, <1>6, <1>7, <2>1
<1>9. g[N] = f[N]
  <2>. DEFINE H == {k \in 0..N : g[k] = f[k]}
  <2>1. 0 \in H /\ \A k \in 1..N : k - 1 \in H => k \in H
    <3>1. 0 \in 0..N /\ \A k \in 1..N : k \in 0..N
      BY <1>2
    <3>. QED
      BY <1>5, <1>6, <1>8, <3>1
  <2>2. H \in SUBSET (0..N)
    OBVIOUS
  <2>3. H = 0..N
    <3>. HIDE DEF H
    <3>. QED
      BY <1>2, <2>1, <2>2, Upward
  <2>4. N \in 0..N
    BY <1>2
  <2>. QED
    BY <2>3, <2>4
<1>10. g[N + 1] = Joins(U, m, K, N + 1, g[N])
  <2>1. N + 1 \in 1..(N + 1) /\ (N + 1) - 1 = N
    BY <1>2
  <2>. QED
    BY <1>6, <2>1
<1>. QED
  BY <1>1, <1>5, <1>6, <1>9, <1>10 DEF Joins, U

\* A new key's line is one, and binds it.
LEMMA NewLineReads ==
    ASSUME NEW m, NEW i \in Item, m.view[i] \in Value
    PROVE  /\ NewLine(i, m) \in Line /\ NewLine(i, m).kind = "key"
           /\ NewLine(i, m).key = i[2] /\ NewLine(i, m).val = AsRead(m.view[i])
<1>1. i[2] \in Key
  BY DEF Item
<1>2. KeyWidth \in Nat /\ KeyWidth + 3 + Width[m.view[i]] + 0 < MaxLine
  BY WidthAssumption
<1>. QED
  BY <1>1, <1>2, WrittenReads DEF NewLine

\* The line of a key that is put is not foreign.
LEMMA PutIsOwned ==
    ASSUME NEW B \in Seq(Line), NEW l \in Line, NEW m, NEW K, NEW i \in Item, i \in m.touched,
           l.kind = "key", i[1] = End(B), i[2] = l.key
    PROVE  Others(Append(B, l), m, K) = Others(B, m, K)
<1>1. End(Append(B, l)) = End(B) /\ i = <<End(B), l.key>>
  BY AppendEnd DEF Item
<1>2. ~Foreign(End(Append(B, l)), l, m, K)
  BY <1>1 DEF Foreign
<1>. QED
  BY <1>2, OthersAppend

\* The blank line above a new section is not foreign.
LEMMA SeparatedKeeps ==
    ASSUME NEW B \in Seq(Line), NEW m, NEW K
    PROVE  Others(Separated(B), m, K) = Others(B, m, K)
<1>1. Blank \in Line /\ Blank.kind = "blank"
  BY DEF Blank, Line
<1>2. ~Foreign(End(Append(B, Blank)), Blank, m, K)
  BY <1>1 DEF Foreign
<1>3. Others(Append(B, Blank), m, K) = Others(B, m, K)
  BY <1>1, <1>2, OthersAppend
<1>. QED
  BY <1>3 DEF Separated

\* What line n of T adds to the foreign lines above it.
LEMMA OthersStep ==
    ASSUME NEW T \in Seq(Line), NEW m, NEW K, NEW n \in 1..Len(T)
    PROVE  Others(SubSeq(T, 1, n), m, K) =
             IF Foreign(Scan(T).sec[n], T[n], m, K)
             THEN Append(Others(SubSeq(T, 1, n - 1), m, K), <<Scan(T).sec[n], T[n]>>)
             ELSE Others(SubSeq(T, 1, n - 1), m, K)
<1>1. /\ SubSeq(T, 1, n - 1) \in Seq(Line) /\ T[n] \in Line
      /\ SubSeq(T, 1, n) = Append(SubSeq(T, 1, n - 1), T[n])
  BY PrefixStep, Elements
<1>2. End(SubSeq(T, 1, n)) = Scan(T).sec[n]
  BY PrefixEnd
<1>. DEFINE P == SubSeq(T, 1, n - 1)
            l == T[n]
            s == Scan(T).sec[n]
<1>3. End(Append(P, l)) = s
  BY <1>1, <1>2
<1>4. P \in Seq(Line) /\ l \in Line
  BY <1>1
<1>. HIDE DEF P, l, s
<1>5. /\ Foreign(s, l, m, K) => Others(Append(P, l), m, K) = Append(Others(P, m, K), <<s, l>>)
      /\ ~Foreign(s, l, m, K) => Others(Append(P, l), m, K) = Others(P, m, K)
  BY <1>3, <1>4, OthersAppend
<1>. QED
  BY <1>1, <1>5 DEF P, l, s

\* An edit owns no foreign line, and every line it touches.
LEMMA OthersCarried ==
    ASSUME NEW T \in Seq(Line), NEW m, Puttable(m), NEW R,
           R = {p \in Seq(Line) \X (0..Len(T)) :
                  Others(p[1], m, Known(T)) = Others(SubSeq(T, 1, p[2]), m, Known(T))}
    PROVE  Carried(R, T, m)
<1>. DEFINE N == Len(T)
            t == Scan(T)
            K == Known(T)
            S(n) == Others(SubSeq(T, 1, n), m, K)
            O(B) == Others(B, m, K)
<1>1. N \in Nat /\ \A n \in 1..N : n \in 0..N /\ n - 1 \in 0..N
  OBVIOUS
<1>2. ASSUME NEW B \in Seq(Line), NEW n \in 0..N
      PROVE  <<B, n>> \in R <=> O(B) = S(n)
  OBVIOUS
<1>3. \A n \in 1..N : t.sec[n] \in K
  BY ScanFields DEF Known
<1>4. ASSUME NEW n \in 1..N
      PROVE  /\ T[n] \in Line
             /\ SectionAt(T, n) = IF T[n].kind = "head" THEN T[n].sec ELSE SectionAt(T, n - 1)
             /\ SectionAt(T, n) = t.sec[n]
             /\ S(n) = IF Foreign(t.sec[n], T[n], m, K)
                       THEN Append(S(n - 1), <<t.sec[n], T[n]>>) ELSE S(n - 1)
  BY SaysStep, OthersStep
<1>. HIDE DEF S, O, K, t
<1>5. <<<<>>, 0>> \in R
  <2>1. SubSeq(T, 1, 0) = <<>>
    BY PrefixStep
  <2>2. <<>> \in Seq(Line) /\ 0 \in 0..N
    BY <1>1, EmptySeq
  <2>3. O(<<>>) = S(0)
    BY <2>1 DEF O, S
  <2>. QED
    BY <1>2, <2>2, <2>3
<1>6. ASSUME NEW n \in 1..N, NEW B \in Seq(Line), <<B, n - 1>> \in R, Aligned(B, T, m, n - 1)
      PROVE  /\ n \in Dropped(t, m) => <<B, n>> \in R
             /\ n \notin Dropped(t, m) => <<Append(B, T[n]), n>> \in R
             /\ \A i \in Owner(t, m, n) : <<Append(B, Rebuilt(T[n], m.view[i])), n>> \in R
  <2>1. O(B) = S(n - 1) /\ n \in 0..N
    BY <1>1, <1>2, <1>6
  <2>2. ASSUME n \in Dropped(t, m) PROVE <<B, n>> \in R
    <3>1. \/ T[n].kind = "blank"
          \/ t.sec[n] \in m.dropped
          \/ \E i \in ToTake(m) : n \in KeyLines(t, i)
      BY <2>2, DroppedLines DEF t
    <3>2. ASSUME NEW i \in ToTake(m), n \in KeyLines(t, i) PROVE ~Foreign(t.sec[n], T[n], m, K)
      <4>1. i \in Item /\ i \in m.touched
        BY PutsTyped
      <4>2. T[n].kind = "key" /\ i = <<t.sec[n], T[n].key>>
        BY <3>2, <4>1, KeyLineOf DEF t
      <4>. QED
        BY <4>1, <4>2 DEF Foreign
    <3>3. ~Foreign(t.sec[n], T[n], m, K)
      BY <3>1, <3>2 DEF Foreign
    <3>. QED
      BY <1>2, <1>4, <2>1, <3>3
  <2>3. ASSUME n \notin Dropped(t, m) PROVE <<Append(B, T[n]), n>> \in R
    <3>1. T[n].kind # "blank" => t.sec[n] \notin m.dropped
      BY <2>3, DroppedLines DEF t
    <3>2. End(Append(B, T[n])) = IF T[n].kind = "head" THEN T[n].sec ELSE End(B)
      BY <1>4, AppendEnd
    <3>3. T[n].kind # "blank" => End(Append(B, T[n])) = t.sec[n]
      BY <1>4, <1>6, <3>1, <3>2 DEF Aligned
    <3>4. /\ Foreign(End(Append(B, T[n])), T[n], m, K) =>
               O(Append(B, T[n])) = Append(O(B), <<End(Append(B, T[n])), T[n]>>)
          /\ ~Foreign(End(Append(B, T[n])), T[n], m, K) => O(Append(B, T[n])) = O(B)
      BY <1>4, OthersAppend DEF O
    <3>5. O(Append(B, T[n])) = S(n)
      <4>1. CASE T[n].kind = "blank"
        BY <1>4, <2>1, <3>4, <4>1 DEF Foreign
      <4>2. CASE T[n].kind # "blank"
        BY <1>4, <2>1, <3>3, <3>4, <4>2
      <4>. QED
        BY <4>1, <4>2
    <3>6. Append(B, T[n]) \in Seq(Line)
      BY <1>4, AppendProperties
    <3>. QED
      BY <1>2, <2>1, <3>5, <3>6
  <2>4. ASSUME NEW i \in Owner(t, m, n) PROVE <<Append(B, Rebuilt(T[n], m.view[i])), n>> \in R
    <3>. DEFINE l == Rebuilt(T[n], m.view[i])
    <3>1. /\ i \in Item /\ i \in ToPut(m) /\ i = <<t.sec[n], T[n].key>> /\ T[n].kind = "key"
      BY OwnerIs DEF t
    <3>2. /\ m.view[i] \in Value /\ m.view[i] # Empty /\ i[1] \notin m.dropped
          /\ i \in m.touched /\ i \in Item
      BY <3>1, PutsTyped
    <3>3. l \in Line /\ l.kind = "key" /\ l.key = T[n].key
      BY <1>4, <3>1, <3>2, RebuiltReads
    <3>. HIDE DEF l
    <3>4. i[1] = End(B) /\ i[2] = l.key
      BY <1>4, <1>6, <3>1, <3>2, <3>3 DEF Aligned
    <3>5. O(Append(B, l)) = O(B)
      BY <3>2, <3>3, <3>4, PutIsOwned DEF O
    <3>6. ~Foreign(t.sec[n], T[n], m, K)
      BY <3>1, <3>2 DEF Foreign
    <3>7. Append(B, l) \in Seq(Line)
      BY <3>3, AppendProperties
    <3>8. O(Append(B, l)) = S(n) /\ n \in 0..N
      BY <1>1, <1>4, <2>1, <3>5, <3>6
    <3>9. <<Append(B, l), n>> \in R
      BY <1>2, <3>7, <3>8
    <3>. QED
      BY <3>9 DEF l
  <2>. QED
    BY <2>2, <2>3, <2>4
<1>7. ASSUME NEW n \in 0..N, NEW B \in Seq(Line), NEW i \in ToPut(m), <<B, n>> \in R, End(B) = i[1]
      PROVE  <<Append(B, NewLine(i, m)), n>> \in R
  <2>1. i \in Item /\ m.view[i] \in Value /\ i \in m.touched
    BY PutsTyped
  <2>3. /\ NewLine(i, m) \in Line /\ NewLine(i, m).kind = "key"
        /\ i[1] = End(B) /\ i[2] = NewLine(i, m).key
    BY <1>7, <2>1, NewLineReads
  <2>4. O(Append(B, NewLine(i, m))) = O(B)
    BY <2>1, <2>3, PutIsOwned DEF O
  <2>5. Append(B, NewLine(i, m)) \in Seq(Line)
    BY <2>3, AppendProperties
  <2>6. O(Append(B, NewLine(i, m))) = S(n)
    BY <1>2, <1>7, <2>4
  <2>. QED
    BY <1>2, <2>5, <2>6
<1>8. ASSUME NEW B \in Seq(Line), NEW i \in Homeless(t, m), <<B, N>> \in R
      PROVE  /\ <<Append(Separated(B), Header(i[1])), N>> \in R
             /\ i \in ToPut(m)
  <2>1. i \in ToPut(m) /\ i[1] \in Lacking(t)
    BY DEF Homeless, Fresh
  <2>2. i[1] \in Section
    BY <2>1, PutsTyped DEF Item
  <2>3. i[1] \notin K
    BY <2>1, ScanFields DEF Lacking, LinesOf, K, Known, t
  <2>4. Header(i[1]) \in Line /\ Header(i[1]).kind = "head" /\ Header(i[1]).sec = i[1]
    BY <2>2 DEF Header, Line
  <2>5. Separated(B) \in Seq(Line)
    BY BlankRead
  <2>6. End(Append(Separated(B), Header(i[1]))) = i[1]
    BY <2>4, <2>5, AppendEnd
  <2>7. O(Append(Separated(B), Header(i[1]))) = O(Separated(B))
    <3>1. ~Foreign(i[1], Header(i[1]), m, K)
      BY <2>3, <2>4 DEF Foreign
    <3>. QED
      BY <2>4, <2>5, <2>6, <3>1, OthersAppend DEF O
  <2>8. O(Separated(B)) = O(B)
    BY SeparatedKeeps DEF O
  <2>9. Append(Separated(B), Header(i[1])) \in Seq(Line) /\ N \in 0..N
    BY <1>1, <2>4, <2>5, AppendProperties
  <2>. DEFINE X == Append(Separated(B), Header(i[1]))
  <2>10. X \in Seq(Line) /\ O(X) = S(N)
    BY <1>2, <1>8, <2>7, <2>8, <2>9
  <2>. HIDE DEF X
  <2>11. <<X, N>> \in R
    BY <1>2, <2>9, <2>10
  <2>. QED
    BY <2>1, <2>11 DEF X
<1>9. \A i : \A n \in 0..N : i \in Below(t, m, n) => i \in ToPut(m)
  BY DEF Below, Fresh
<1>10. N \in 0..N
  BY <1>1
<1>. QED
  BY <1>5, <1>6, <1>7, <1>8, <1>9, <1>10 DEF Carried, t

\* An edit keeps every line it does not own, in its section and its place.
LEMMA EditKeepsOthers ==
    ASSUME NEW T \in Seq(Line), NEW m, Puttable(m)
    PROVE  Others(Surgical(T, m), m, Known(T)) = Others(T, m, Known(T))
<1>1. PICK R : R = {p \in Seq(Line) \X (0..Len(T)) :
                      Others(p[1], m, Known(T)) = Others(SubSeq(T, 1, p[2]), m, Known(T))}
  OBVIOUS
<1>2. Carried(R, T, m)
  BY <1>1, OthersCarried
<1>3. <<Surgical(T, m), Len(T)>> \in R
  BY <1>2, EditCarried
<1>4. SubSeq(T, 1, Len(T)) = T
  BY PrefixStep
<1>. QED
  BY <1>1, <1>3, <1>4

-----------------------------------------------------------------------------
(* A save that has been done has nothing more to do.                       *)

\* A line that stays is in the section it was in, and no save removes that.
LEMMA KeptSection ==
    ASSUME NEW T \in Seq(Line), NEW m, NEW n \in 1..Len(T), n \notin Dropped(Scan(T), m),
           NEW k, k = n - 1, NEW B, Aligned(B, T, m, k), T[n].kind # "blank"
    PROVE  /\ T[n] \in Line /\ Scan(T).sec[n] \notin m.dropped
           /\ End(Append(B, T[n])) = Scan(T).sec[n]
           /\ T[n].kind # "head" => End(B) = Scan(T).sec[n]
<1>1. Scan(T).sec[n] \notin m.dropped
  BY DroppedLines
<1>2. /\ SectionAt(T, n) = IF T[n].kind = "head" THEN T[n].sec ELSE SectionAt(T, n - 1)
      /\ SectionAt(T, n) = Scan(T).sec[n] /\ T[n] \in Line
  BY SaysStep
<1>3. End(Append(B, T[n])) = IF T[n].kind = "head" THEN T[n].sec ELSE End(B)
  BY <1>2, AppendEnd DEF Aligned
<1>. QED
  BY <1>1, <1>2, <1>3 DEF Aligned

\* l is a key line of the key i, which is put, in the section that is open.
Replaces(l, i, B, m) ==
    /\ l \in Line /\ l.kind = "key" /\ i[2] = l.key /\ i[1] = End(B)
    /\ i \in Item /\ i \in ToPut(m) /\ i[1] \notin m.dropped

\* A replaced line is a key line of its key, where that was.
LEMMA OwnerSection ==
    ASSUME NEW T \in Seq(Line), NEW m, Puttable(m), NEW n \in 1..Len(T),
           NEW i \in Owner(Scan(T), m, n), NEW k, k = n - 1, NEW B, Aligned(B, T, m, k)
    PROVE  Replaces(Rebuilt(T[n], m.view[i]), i, B, m)
<1>1. i \in Item /\ i \in ToPut(m) /\ i = <<Scan(T).sec[n], T[n].key>> /\ T[n].kind = "key"
  BY OwnerIs
<1>2. m.view[i] \in Value /\ m.view[i] # Empty /\ i[1] \notin m.dropped
  BY <1>1, PutsTyped
<1>3. /\ SectionAt(T, n) = SectionAt(T, n - 1) /\ SectionAt(T, n) = Scan(T).sec[n]
      /\ T[n] \in Line
  BY <1>1, SaysStep
<1>4. i[1] = End(B)
  BY <1>1, <1>2, <1>3 DEF Aligned
<1>5. i[2] = T[n].key
  BY <1>1
<1>. QED
  BY <1>1, <1>2, <1>3, <1>4, <1>5, RebuiltReads DEF Replaces

\* The line a load of B takes the value of i from is the one a save would
\* write for it.
Settles(B, i, m) ==
    KeyLines(Scan(B), i) # {} =>
        Rebuilt(B[OwnLine(Scan(B), i)], m.view[i]) = B[OwnLine(Scan(B), i)]

\* A line that has been replaced is not replaced for another.
LEMMA RebuiltStays ==
    ASSUME NEW l \in Line, l.kind = "key", NEW v \in Value \ DOMAIN Cut, v # Empty
    PROVE  Rebuilt(Rebuilt(l, v), v) = Rebuilt(l, v)
<1>. DEFINE kw == IF l.kw + 3 + Width[v] >= MaxLine THEN KeyWidth ELSE l.kw
            cw == IF l.kw + 3 + Width[v] + l.cw >= MaxLine THEN 0 ELSE l.cw
            r == KeyLine(l.key, v, kw, cw)
<1>1. l.kw \in Nat /\ l.cw \in Nat
  BY LineKinds
<1>2. Width[v] \in Nat /\ KeyWidth \in Nat /\ MaxLine \in Nat /\ KeyWidth + 3 + Width[v] < MaxLine
  BY WidthAssumption
<1>3. /\ kw \in Nat /\ cw \in Nat
      /\ ~(kw + 3 + Width[v] >= MaxLine) /\ ~(kw + 3 + Width[v] + cw >= MaxLine)
  BY <1>1, <1>2
<1>4. Rebuilt(l, v) = Written(l.key, v, kw, cw)
  BY DEF Rebuilt
<1>. HIDE DEF kw, cw
<1>5. Written(l.key, v, kw, cw) = r
  BY <1>3 DEF Written
<1>6. r.key = l.key /\ r.kw = kw /\ r.cw = cw
  BY DEF KeyLine
<1>7. Rebuilt(r, v) = Written(l.key, v, kw, cw)
  BY <1>3, <1>6 DEF Rebuilt
<1>. QED
  BY <1>4, <1>5, <1>7

\* ... nor is a new one.
LEMMA NewLineStays ==
    ASSUME NEW m, NEW i \in Item, m.view[i] \in Value \ DOMAIN Cut
    PROVE  Rebuilt(NewLine(i, m), m.view[i]) = NewLine(i, m)
<1>. DEFINE v == m.view[i]
            r == KeyLine(i[2], v, KeyWidth, 0)
<1>1. Width[v] \in Nat /\ KeyWidth \in Nat /\ MaxLine \in Nat /\ KeyWidth + 3 + Width[v] < MaxLine
  BY WidthAssumption
<1>2. ~(KeyWidth + 3 + Width[v] >= MaxLine) /\ ~(KeyWidth + 3 + Width[v] + 0 >= MaxLine)
      /\ ~(0 > 0)
  BY <1>1
<1>. HIDE DEF v
<1>3. Written(i[2], v, KeyWidth, 0) = r
  BY <1>2 DEF Written, v
<1>4. r.key = i[2] /\ r.kw = KeyWidth /\ r.cw = 0
  BY DEF KeyLine
<1>5. Rebuilt(r, v) = Written(i[2], v, KeyWidth, 0)
  BY <1>2, <1>4 DEF Rebuilt
<1>. QED
  BY <1>3, <1>5 DEF NewLine, v

\* Only a line that binds the key can unsettle it.
LEMMA SettlesAppend ==
    ASSUME NEW B \in Seq(Line), NEW l \in Line, NEW m, NEW i \in Item
    PROVE  /\ ~(l.kind = "key" /\ i[1] = End(B) /\ i[2] = l.key) =>
                (Settles(B, i, m) => Settles(Append(B, l), i, m))
           /\ l.kind = "key" /\ i[1] = End(B) /\ i[2] = l.key /\ Rebuilt(l, m.view[i]) = l =>
                Settles(Append(B, l), i, m)
<1>. DEFINE U == Append(B, l)
            N == Len(B)
            old == KeyLines(Scan(B), i)
            new == KeyLines(Scan(U), i)
            hit == l.kind = "key" /\ i[1] = End(B) /\ i[2] = l.key
<1>1. /\ U \in Seq(Line) /\ Len(U) = N + 1 /\ U[N + 1] = l /\ N \in Nat
      /\ \A n \in 1..N : U[n] = B[n]
  BY AppendKeeps
<1>2. new = old \cup (IF hit THEN {N + 1} ELSE {})
  <2>1. <<End(B), l.key>> = i <=> i[1] = End(B) /\ i[2] = l.key
    BY DEF Item
  <2>. QED
    BY <2>1, AppendKeyLines
<1>3. old \subseteq 1..N
  BY KeyLinesAre
<1>. HIDE DEF U, N, old, new, hit
<1>4. Settles(B, i, m) <=> (old # {} => Rebuilt(B[Max(old)], m.view[i]) = B[Max(old)])
  BY DEF Settles, OwnLine, old
<1>5. Settles(U, i, m) <=> (new # {} => Rebuilt(U[Max(new)], m.view[i]) = U[Max(new)])
  BY DEF Settles, OwnLine, new
<1>6. CASE ~hit
  <2>1. new = old
    BY <1>2, <1>6
  <2>2. old # {} => Max(old) \in 1..N
    <3>1. old \in SUBSET (0..N)
      BY <1>1, <1>3
    <3>. QED
      BY <1>1, <1>3, <3>1, Greatest
  <2>3. Settles(B, i, m) => Settles(U, i, m)
    BY <1>1, <1>4, <1>5, <2>1, <2>2
  <2>. QED
    BY <1>6, <2>3 DEF U, hit
<1>7. CASE hit
  <2>1. Max(new) = N + 1
    <3>1. new \in SUBSET (0..(N + 1)) /\ N + 1 \in new /\ \A x \in new : x <= N + 1
      BY <1>1, <1>2, <1>3, <1>7
    <3>2. N + 1 \in Nat
      BY <1>1
    <3>. QED
      BY <3>1, <3>2, GreatestIs
  <2>2. Rebuilt(l, m.view[i]) = l => Settles(U, i, m)
    BY <1>1, <1>5, <2>1
  <2>. QED
    BY <1>7, <2>2 DEF U, hit
<1>. QED
  BY <1>6, <1>7

\* A new header and the blank line above it bind no key.
LEMMA SettlesSeparated ==
    ASSUME NEW B \in Seq(Line), NEW m, NEW i \in Item, NEW s \in Section, Settles(B, i, m)
    PROVE  Settles(Append(Separated(B), Header(s)), i, m)
<1>1. Blank \in Line /\ Blank.kind = "blank"
  BY DEF Blank, Line
<1>2. Settles(Separated(B), i, m) /\ Separated(B) \in Seq(Line)
  BY <1>1, SettlesAppend, BlankRead DEF Separated
<1>3. Header(s) \in Line /\ Header(s).kind = "head"
  BY DEF Header, Line
<1>. QED
  BY <1>2, <1>3, SettlesAppend

\* Every key that is put settles on its line, which comes last.
LEMMA SettledCarried ==
    ASSUME NEW T \in Seq(Line), NEW m, Puttable(m), \A i \in ToPut(m) : m.view[i] \notin DOMAIN Cut,
           NEW R,
           R = {p \in Seq(Line) \X (0..Len(T)) :
                  \A i \in ToPut(m) :
                    KeyLines(Scan(T), i) = {} \/ OwnLine(Scan(T), i) <= p[2] => Settles(p[1], i, m)}
    PROVE  Carried(R, T, m)
<1>. DEFINE N == Len(T)
            t == Scan(T)
            Due(i, n) == KeyLines(t, i) = {} \/ OwnLine(t, i) <= n
<1>1. N \in Nat /\ \A n \in 1..N : n \in 0..N /\ n - 1 \in 0..N
  OBVIOUS
<1>2. ASSUME NEW B \in Seq(Line), NEW n \in 0..N
      PROVE  <<B, n>> \in R <=> \A i \in ToPut(m) : Due(i, n) => Settles(B, i, m)
  OBVIOUS
<1>3. ASSUME NEW i \in ToPut(m)
      PROVE  /\ i \in Item /\ i \in m.touched /\ i[1] \in Section
             /\ m.view[i] \in Value \ DOMAIN Cut /\ m.view[i] # Empty
             /\ KeyLines(t, i) # {} => OwnLine(t, i) \in 1..N
             /\ \A n \in KeyLines(t, i) : n <= OwnLine(t, i)
  BY PutsTyped, OwnLineIs DEF Item
<1>4. ASSUME NEW i \in ToPut(m), NEW n \in 1..N, Due(i, n), i \notin Owner(t, m, n)
      PROVE  Due(i, n - 1) /\ n \notin KeyLines(t, i)
  <2>1. CASE KeyLines(t, i) = {}
    BY <2>1
  <2>2. CASE KeyLines(t, i) # {}
    <3>1. OwnLine(t, i) # n
      BY <1>4, <2>2 DEF Owner, Fresh
    <3>2. OwnLine(t, i) \in 1..N /\ OwnLine(t, i) <= n - 1
      BY <1>1, <1>3, <1>4, <2>2, <3>1
    <3>. QED
      BY <1>1, <1>3, <3>2
  <2>. QED
    BY <2>1, <2>2
<1>. HIDE DEF Due, t
<1>5. <<<<>>, 0>> \in R
  <2>1. <<>> \in Seq(Line) /\ 0 \in 0..N
    BY <1>1, EmptySeq
  <2>2. \A i \in ToPut(m) : Settles(<<>>, i, m)
    <3>0. PICK E : E = <<>>
      OBVIOUS
    <3>1. Len(E) = 0 /\ E \in Seq(Line) /\ 1..0 = {}
      BY <3>0, EmptySeq
    <3>2. ASSUME NEW i \in ToPut(m) PROVE KeyLines(Scan(E), i) = {}
      <4>1. KeyLines(Scan(E), i) \subseteq 1..Len(E)
        BY <1>3, <3>1, KeyLinesAre
      <4>. QED
        BY <3>1, <4>1
    <3>. QED
      BY <3>0, <3>2 DEF Settles
  <2>. QED
    BY <1>2, <2>1, <2>2
<1>6. ASSUME NEW n \in 1..N, NEW B \in Seq(Line), <<B, n - 1>> \in R, Aligned(B, T, m, n - 1)
      PROVE  /\ n \in Dropped(t, m) => <<B, n>> \in R
             /\ n \notin Dropped(t, m) /\ Owner(t, m, n) = {} => <<Append(B, T[n]), n>> \in R
             /\ \A i \in Owner(t, m, n) : <<Append(B, Rebuilt(T[n], m.view[i])), n>> \in R
  <2>1. \A i \in ToPut(m) : Due(i, n) /\ i \notin Owner(t, m, n) =>
          Settles(B, i, m) /\ n \notin KeyLines(t, i)
    BY <1>1, <1>2, <1>4, <1>6
  <2>2. T[n] \in Line /\ n \in 0..N
    BY <1>1, Elements
  <2>3. ASSUME n \in Dropped(t, m) PROVE <<B, n>> \in R
    <3>1. Owner(t, m, n) = {}
      BY <2>3, OwnerIs DEF t
    <3>. QED
      BY <1>2, <2>1, <2>2, <3>1
  <2>4. ASSUME n \notin Dropped(t, m), Owner(t, m, n) = {} PROVE <<Append(B, T[n]), n>> \in R
    <3>1. ASSUME NEW i \in ToPut(m), Due(i, n) PROVE Settles(Append(B, T[n]), i, m)
      <4>1. Settles(B, i, m) /\ n \notin KeyLines(t, i) /\ i \in Item
        BY <1>3, <2>1, <2>4, <3>1
      <4>2. ~(T[n].kind = "key" /\ i[1] = End(B) /\ i[2] = T[n].key)
        <5>. SUFFICES ASSUME T[n].kind = "key", i[1] = End(B), i[2] = T[n].key PROVE FALSE
          OBVIOUS
        <5>0. T[n].kind # "blank" /\ T[n].kind # "head"
          OBVIOUS
        <5>1. End(B) = t.sec[n]
          <6>1. PICK k : /\ k = n - 1 /\ n \in 1..Len(T) /\ n \notin Dropped(Scan(T), m)
                         /\ T[n].kind # "blank" /\ T[n].kind # "head" /\ Aligned(B, T, m, k)
            BY <1>6, <2>4, <5>0 DEF t
          <6>2. End(Append(B, T[n])) = Scan(T).sec[n]
            BY <6>1, KeptSection
          <6>3. End(Append(B, T[n])) = End(B)
            BY <2>2, <6>1, AppendEnd
          <6>. QED
            BY <6>2, <6>3 DEF t
        <5>2. i = <<t.sec[n], T[n].key>>
          BY <4>1, <5>1 DEF Item
        <5>. QED
          BY <4>1, <5>2, KeyLineOf DEF t
      <4>. QED
        BY <2>2, <4>1, <4>2, SettlesAppend
    <3>2. Append(B, T[n]) \in Seq(Line)
      BY <2>2, AppendProperties
    <3>. QED
      BY <1>2, <2>2, <3>1, <3>2
  <2>5. ASSUME NEW i \in Owner(t, m, n) PROVE <<Append(B, Rebuilt(T[n], m.view[i])), n>> \in R
    <3>. DEFINE l == Rebuilt(T[n], m.view[i])
    <3>1. /\ l \in Line /\ l.kind = "key" /\ i[2] = l.key /\ i[1] = End(B)
          /\ i \in Item /\ i \in ToPut(m) /\ T[n].kind = "key"
      <4>1. PICK k : /\ k = n - 1 /\ i \in Owner(Scan(T), m, n) /\ n \in 1..Len(T)
                     /\ Aligned(B, T, m, k)
        BY <1>6 DEF t
      <4>2. Replaces(l, i, B, m)
        BY <4>1, OwnerSection
      <4>3. T[n].kind = "key"
        BY <4>1, OwnerIs
      <4>. QED
        BY <4>2, <4>3 DEF Replaces
    <3>2. Rebuilt(l, m.view[i]) = l
      BY <1>3, <2>2, <3>1, RebuiltStays
    <3>3. Owner(t, m, n) = {i}
      BY OwnerIs DEF t
    <3>. HIDE DEF l
    <3>4. ASSUME NEW j \in ToPut(m), Due(j, n) PROVE Settles(Append(B, l), j, m)
      <4>1. CASE j = i
        BY <3>1, <3>2, <4>1, SettlesAppend
      <4>2. CASE j # i
        <5>1. Settles(B, j, m) /\ j \in Item
          BY <1>3, <2>1, <3>3, <3>4, <4>2
        <5>2. ~(j[1] = End(B) /\ j[2] = l.key)
          BY <3>1, <4>2, <5>1 DEF Item
        <5>. QED
          BY <3>1, <5>1, <5>2, SettlesAppend
      <4>. QED
        BY <4>1, <4>2
    <3>5. Append(B, l) \in Seq(Line)
      BY <3>1, AppendProperties
    <3>6. <<Append(B, l), n>> \in R
      BY <1>2, <2>2, <3>4, <3>5
    <3>. QED
      BY <3>6 DEF l
  <2>. QED
    BY <2>3, <2>4, <2>5
<1>7. ASSUME NEW n \in 0..N, NEW B \in Seq(Line), NEW i \in ToPut(m), <<B, n>> \in R, End(B) = i[1]
      PROVE  <<Append(B, NewLine(i, m)), n>> \in R
  <2>. DEFINE l == NewLine(i, m)
  <2>1. l \in Line /\ l.kind = "key" /\ i[2] = l.key /\ i \in Item
    BY <1>3, NewLineReads
  <2>2. Rebuilt(l, m.view[i]) = l
    BY <1>3, NewLineStays
  <2>. HIDE DEF l
  <2>3. ASSUME NEW j \in ToPut(m), Due(j, n) PROVE Settles(Append(B, l), j, m)
    <3>1. CASE j = i
      BY <1>7, <2>1, <2>2, <3>1, SettlesAppend
    <3>2. CASE j # i
      <4>1. Settles(B, j, m) /\ j \in Item
        BY <1>2, <1>3, <1>7, <2>3
      <4>2. ~(j[1] = End(B) /\ j[2] = l.key)
        BY <1>7, <2>1, <3>2, <4>1 DEF Item
      <4>. QED
        BY <2>1, <4>1, <4>2, SettlesAppend
    <3>. QED
      BY <3>1, <3>2
  <2>4. Append(B, l) \in Seq(Line)
    BY <2>1, AppendProperties
  <2>5. <<Append(B, l), n>> \in R
    BY <1>2, <2>3, <2>4
  <2>. QED
    BY <2>5 DEF l
<1>8. ASSUME NEW B \in Seq(Line), NEW i \in Homeless(t, m), <<B, N>> \in R
      PROVE  /\ <<Append(Separated(B), Header(i[1])), N>> \in R
             /\ i \in ToPut(m)
  <2>. DEFINE X == Append(Separated(B), Header(i[1]))
  <2>1. i \in ToPut(m) /\ i[1] \in Section
    BY <1>3 DEF Homeless, Fresh
  <2>2. N \in 0..N
    BY <1>1
  <2>3. \A j \in ToPut(m) : Due(j, N) => Settles(X, j, m)
    BY <1>2, <1>3, <1>8, <2>1, <2>2, SettlesSeparated
  <2>4. Separated(B) \in Seq(Line) /\ Header(i[1]) \in Line
    BY <2>1, BlankRead DEF Header, Line
  <2>5. X \in Seq(Line)
    BY <2>4, AppendProperties
  <2>. HIDE DEF X
  <2>6. <<X, N>> \in R
    BY <1>2, <2>2, <2>3, <2>5
  <2>. QED
    BY <2>1, <2>6 DEF X
<1>9. \A i : \A n \in 0..N : i \in Below(t, m, n) => i \in ToPut(m)
  BY DEF Below, Fresh
<1>10. N \in 0..N
  BY <1>1
<1>. QED
  BY <1>5, <1>6, <1>7, <1>8, <1>9, <1>10 DEF Carried, t

\* Nothing visible is left in a removed section.
Bare(B, m) == \A n \in 1..Len(B) : Scan(B).sec[n] \in m.dropped => B[n].kind = "blank"

\* A blank line, or one of a section that stays, leaves it at that.
LEMMA BareAppend ==
    ASSUME NEW m, NEW B \in Seq(Line), Bare(B, m), NEW l \in Line,
           l.kind = "blank" \/ End(Append(B, l)) \notin m.dropped
    PROVE  Bare(Append(B, l), m)
<1>. DEFINE U == Append(B, l)
            N == Len(B)
<1>1. /\ U \in Seq(Line) /\ Len(U) = N + 1 /\ U[N + 1] = l
      /\ \A n \in 1..N : U[n] = B[n] /\ Scan(U).sec[n] = Scan(B).sec[n]
      /\ Scan(U).sec[N + 1] = End(U)
  BY AppendKeeps, AppendEnd
<1>2. N \in Nat
  OBVIOUS
<1>. HIDE DEF U, N
<1>3. \A n \in 1..(N + 1) : n \in 1..N \/ n = N + 1
  BY <1>2
<1>4. l.kind = "blank" \/ End(U) \notin m.dropped
  BY DEF U
<1>5. \A n \in 1..N : Scan(B).sec[n] \in m.dropped => B[n].kind = "blank"
  BY DEF Bare, N
<1>6. Bare(U, m)
  BY <1>1, <1>3, <1>4, <1>5 DEF Bare
<1>. QED
  BY <1>6 DEF U

\* A new header, with the blank line above it.
LEMMA BareHeader ==
    ASSUME NEW m, NEW B \in Seq(Line), Bare(B, m), NEW s \in Section, s \notin m.dropped
    PROVE  Bare(Append(Separated(B), Header(s)), m)
<1>1. Blank \in Line /\ Blank.kind = "blank"
  BY DEF Blank, Line
<1>2. Bare(Separated(B), m) /\ Separated(B) \in Seq(Line)
  BY <1>1, BareAppend, BlankRead DEF Separated
<1>3. Header(s) \in Line /\ Header(s).kind = "head" /\ Header(s).sec = s
  BY DEF Header, Line
<1>4. End(Append(Separated(B), Header(s))) = s
  BY <1>2, <1>3, AppendEnd
<1>. QED
  BY <1>2, <1>3, <1>4, BareAppend

\* An edit leaves nothing visible in the sections it removes.
LEMMA BareCarried ==
    ASSUME NEW T \in Seq(Line), NEW m, Puttable(m), NEW R,
           R = {p \in Seq(Line) \X (0..Len(T)) : Bare(p[1], m)}
    PROVE  Carried(R, T, m)
<1>. DEFINE N == Len(T)
            t == Scan(T)
<1>1. N \in Nat /\ N \in 0..N /\ \A n \in 1..N : n \in 0..N /\ n - 1 \in 0..N
  OBVIOUS
<1>2. ASSUME NEW B \in Seq(Line), NEW n \in 0..N
      PROVE  <<B, n>> \in R <=> Bare(B, m)
  OBVIOUS
<1>3. ASSUME NEW i \in ToPut(m)
      PROVE  i \in Item /\ i[1] \in Section /\ m.view[i] \in Value /\ i[1] \notin m.dropped
  BY PutsTyped DEF Item
<1>. HIDE DEF t
<1>4. <<<<>>, 0>> \in R
  <2>0. PICK E : E = <<>>
    OBVIOUS
  <2>1. E \in Seq(Line) /\ Len(E) = 0 /\ 0 \in 0..N /\ 1..0 = {}
    BY <1>1, <2>0, EmptySeq
  <2>2. Bare(E, m)
    BY <2>1 DEF Bare
  <2>. QED
    BY <1>2, <2>0, <2>1, <2>2
<1>5. ASSUME NEW n \in 1..N, NEW B \in Seq(Line), <<B, n - 1>> \in R, Aligned(B, T, m, n - 1)
      PROVE  /\ n \in Dropped(t, m) => <<B, n>> \in R
             /\ n \notin Dropped(t, m) => <<Append(B, T[n]), n>> \in R
             /\ \A i \in Owner(t, m, n) : <<Append(B, Rebuilt(T[n], m.view[i])), n>> \in R
  <2>1. Bare(B, m) /\ T[n] \in Line /\ n \in 0..N
    BY <1>1, <1>2, <1>5, Elements
  <2>2. ASSUME n \notin Dropped(t, m) PROVE <<Append(B, T[n]), n>> \in R
    <3>1. T[n].kind = "blank" \/ End(Append(B, T[n])) \notin m.dropped
      <4>1. CASE T[n].kind = "blank"
        BY <4>1
      <4>2. CASE T[n].kind # "blank"
        <5>1. PICK k : /\ k = n - 1 /\ n \in 1..Len(T) /\ n \notin Dropped(Scan(T), m)
                       /\ T[n].kind # "blank" /\ Aligned(B, T, m, k)
          BY <1>5, <2>2, <4>2 DEF t
        <5>2. Scan(T).sec[n] \notin m.dropped /\ End(Append(B, T[n])) = Scan(T).sec[n]
          BY <5>1, KeptSection
        <5>. QED
          BY <5>2
      <4>. QED
        BY <4>1, <4>2
    <3>2. Bare(Append(B, T[n]), m) /\ Append(B, T[n]) \in Seq(Line)
      BY <2>1, <3>1, BareAppend, AppendProperties
    <3>. QED
      BY <1>2, <2>1, <3>2
  <2>3. ASSUME NEW i \in Owner(t, m, n) PROVE <<Append(B, Rebuilt(T[n], m.view[i])), n>> \in R
    <3>. DEFINE l == Rebuilt(T[n], m.view[i])
    <3>1. /\ l \in Line /\ l.kind = "key" /\ i[1] = End(B) /\ i \in ToPut(m)
      <4>1. PICK k : /\ k = n - 1 /\ i \in Owner(Scan(T), m, n) /\ n \in 1..Len(T)
                     /\ Aligned(B, T, m, k)
        BY <1>5 DEF t
      <4>2. Replaces(l, i, B, m)
        BY <4>1, OwnerSection
      <4>. QED
        BY <4>2 DEF Replaces
    <3>. HIDE DEF l
    <3>2. End(Append(B, l)) \notin m.dropped
      BY <1>3, <3>1, AppendEnd
    <3>3. Bare(Append(B, l), m) /\ Append(B, l) \in Seq(Line)
      BY <2>1, <3>1, <3>2, BareAppend, AppendProperties
    <3>4. <<Append(B, l), n>> \in R
      BY <1>2, <2>1, <3>3
    <3>. QED
      BY <3>4 DEF l
  <2>. QED
    BY <1>2, <2>1, <2>2, <2>3
<1>6. ASSUME NEW n \in 0..N, NEW B \in Seq(Line), NEW i \in ToPut(m), <<B, n>> \in R, End(B) = i[1]
      PROVE  <<Append(B, NewLine(i, m)), n>> \in R
  <2>. DEFINE l == NewLine(i, m)
  <2>1. l \in Line /\ l.kind = "key"
    BY <1>3, NewLineReads
  <2>. HIDE DEF l
  <2>2. End(Append(B, l)) \notin m.dropped
    BY <1>3, <1>6, <2>1, AppendEnd
  <2>3. Bare(Append(B, l), m) /\ Append(B, l) \in Seq(Line)
    BY <1>2, <1>6, <2>1, <2>2, BareAppend, AppendProperties
  <2>4. <<Append(B, l), n>> \in R
    BY <1>2, <2>3
  <2>. QED
    BY <2>4 DEF l
<1>7. ASSUME NEW B \in Seq(Line), NEW i \in Homeless(t, m), <<B, N>> \in R
      PROVE  /\ <<Append(Separated(B), Header(i[1])), N>> \in R
             /\ i \in ToPut(m)
  <2>. DEFINE X == Append(Separated(B), Header(i[1]))
  <2>1. i \in ToPut(m) /\ i[1] \in Section /\ i[1] \notin m.dropped
    BY <1>3 DEF Homeless, Fresh
  <2>2. Bare(X, m)
    BY <1>1, <1>2, <1>7, <2>1, BareHeader
  <2>3. Separated(B) \in Seq(Line) /\ Header(i[1]) \in Line
    BY <2>1, BlankRead DEF Header, Line
  <2>4. X \in Seq(Line)
    BY <2>3, AppendProperties
  <2>. HIDE DEF X
  <2>5. <<X, N>> \in R
    BY <1>1, <1>2, <2>2, <2>4
  <2>. QED
    BY <2>1, <2>5 DEF X
<1>8. \A i : \A n \in 0..N : i \in Below(t, m, n) => i \in ToPut(m)
  BY DEF Below, Fresh
<1>. QED
  BY <1>1, <1>4, <1>5, <1>6, <1>7, <1>8 DEF Carried, t

\* A file that has what a save owes it is left as it is.
LEMMA NothingToEdit ==
    ASSUME NEW U \in Seq(Line), NEW m, Puttable(m), Bare(U, m),
           \A i \in ToTake(m) : KeyLines(Scan(U), i) = {},
           \A i \in ToPut(m) : KeyLines(Scan(U), i) # {} /\ Settles(U, i, m)
    PROVE  Surgical(U, m) = U
<1>. DEFINE N == Len(U)
            t == Scan(U)
<1>0. PICK R : R = {p \in Seq(Line) \X (0..N) : p[1] = SubSeq(U, 1, p[2])}
  OBVIOUS
<1>1. N \in Nat /\ N \in 0..N /\ 0 \in 0..N /\ \A n \in 1..N : n \in 0..N /\ n - 1 \in 0..N
  OBVIOUS
<1>2. ASSUME NEW B \in Seq(Line), NEW n \in 0..N
      PROVE  <<B, n>> \in R <=> B = SubSeq(U, 1, n)
  BY <1>0
<1>3. Dropped(t, m) = {}
  <2>1. TakenLines(t, m) = {}
    BY DEF TakenLines
  <2>2. DOMAIN U = 1..N /\ t.line = U
    BY ScanFields
  <2>3. RemovedSpan(t, m) = {}
    BY <2>2 DEF RemovedSpan, Bare
  <2>. QED
    BY <2>1, <2>3 DEF Dropped
<1>4. Fresh(t, m) = {}
  BY DEF Fresh
<1>5. ASSUME NEW n \in 1..N, NEW i \in Owner(t, m, n) PROVE Rebuilt(U[n], m.view[i]) = U[n]
  BY <1>5 DEF Owner, Settles
<1>6. /\ SubSeq(U, 1, 0) = <<>> /\ SubSeq(U, 1, N) = U
      /\ \A n \in 1..N : SubSeq(U, 1, n) = Append(SubSeq(U, 1, n - 1), U[n])
  BY PrefixStep
<1>7. <<<<>>, 0>> \in R
  BY <1>1, <1>2, <1>6, EmptySeq
<1>8. ASSUME NEW n \in 1..N, NEW B \in Seq(Line), <<B, n - 1>> \in R
      PROVE  <<Append(B, U[n]), n>> \in R
  <2>1. B = SubSeq(U, 1, n - 1) /\ U[n] \in Line
    BY <1>1, <1>2, <1>8, Elements
  <2>2. Append(B, U[n]) = SubSeq(U, 1, n) /\ Append(B, U[n]) \in Seq(Line)
    BY <1>6, <2>1, AppendProperties
  <2>. QED
    BY <1>1, <1>2, <2>2
<1>9. Homeless(t, m) = {} /\ \A n : Below(t, m, n) = {}
  BY <1>4 DEF Homeless, Below
<1>. HIDE DEF t
<1>10. Carried(R, U, m)
  BY <1>3, <1>5, <1>7, <1>8, <1>9 DEF Carried, t
<1>11. <<Surgical(U, m), N>> \in R
  BY <1>10, EditCarried
<1>12. Surgical(U, m) \in Seq(Line)
  BY SurgicalReadsBack
<1>. QED
  BY <1>1, <1>2, <1>6, <1>11, <1>12

\* What an edit leaves has nothing more to edit.
LEMMA EditTwice ==
    ASSUME NEW T \in Seq(Line), NEW m, Puttable(m), \A i \in ToPut(m) : m.view[i] \notin DOMAIN Cut
    PROVE  Surgical(Surgical(T, m), m) = Surgical(T, m)
<1>. DEFINE N == Len(T)
            U == Surgical(T, m)
<1>1. U \in Seq(Line) /\ Load(U) = Overlay(Load(T), Read(m))
  BY SurgicalReadsBack
<1>2. N \in Nat /\ N \in 0..N
  OBVIOUS
<1>3. Bare(U, m)
  <2>1. PICK R : R = {p \in Seq(Line) \X (0..N) : Bare(p[1], m)}
    OBVIOUS
  <2>2. <<U, N>> \in R
    BY <2>1, BareCarried, EditCarried
  <2>. QED
    BY <2>1, <2>2
<1>4. \A i \in ToPut(m) : Settles(U, i, m)
  <2>1. PICK R : R = {p \in Seq(Line) \X (0..N) :
                        \A i \in ToPut(m) :
                          KeyLines(Scan(T), i) = {} \/ OwnLine(Scan(T), i) <= p[2] =>
                            Settles(p[1], i, m)}
    OBVIOUS
  <2>2. <<U, N>> \in R
    BY <2>1, SettledCarried, EditCarried
  <2>3. ASSUME NEW i \in ToPut(m) PROVE KeyLines(Scan(T), i) = {} \/ OwnLine(Scan(T), i) <= N
    BY <1>2, OwnLineIs
  <2>. QED
    BY <2>1, <2>2, <2>3
<1>. HIDE DEF U, N
<1>5. ASSUME NEW i \in ToPut(m) PROVE KeyLines(Scan(U), i) # {}
  <2>1. i \in Item /\ i \in m.touched /\ m.view[i] \in Value
    BY PutsTyped
  <2>2. Load(U)[i] = AsRead(m.view[i])
    BY <1>1, <2>1 DEF Overlay, Read
  <2>3. AsRead(m.view[i]) \in Value
    BY <2>1, CutAssumption DEF AsRead
  <2>4. Load(U)[i] # Missing
    BY <2>2, <2>3, MissingAssumption
  <2>. QED
    BY <1>1, <2>1, <2>4, LoadIs
<1>6. ASSUME NEW i \in ToTake(m) PROVE KeyLines(Scan(U), i) = {}
  <2>1. i \in Item /\ i \in m.touched /\ m.view[i] = Missing
    BY PutsTyped
  <2>2. Load(U)[i] = AsRead(Missing)
    BY <1>1, <2>1 DEF Overlay, Read
  <2>3. AsRead(Missing) = Missing
    BY CutAssumption, MissingAssumption DEF AsRead
  <2>. SUFFICES ASSUME KeyLines(Scan(U), i) # {} PROVE FALSE
    OBVIOUS
  <2>4. Load(U)[i] = U[OwnLine(Scan(U), i)].val
    BY <1>1, <2>1, LoadIs DEF OwnLine
  <2>5. /\ OwnLine(Scan(U), i) \in KeyLines(Scan(U), i)
        /\ OwnLine(Scan(U), i) \in 1..Len(U)
    BY <1>1, OwnLineIs
  <2>6. U[OwnLine(Scan(U), i)] \in Line /\ U[OwnLine(Scan(U), i)].kind = "key"
    BY <1>1, <2>5, Elements, KeyLinesAre
  <2>7. U[OwnLine(Scan(U), i)].val \in Value
    BY <2>6, LineKinds
  <2>. QED
    BY <2>2, <2>3, <2>4, <2>7, MissingAssumption
<1>. QED
  BY <1>1, <1>3, <1>4, <1>5, <1>6, NothingToEdit DEF U

-----------------------------------------------------------------------------
(* Lines that the parser rejects.                                          *)

\* A line more is a note more, if it is one.
LEMMA NotesAppend ==
    ASSUME NEW B \in Seq(Line), NEW l \in Line
    PROVE  /\ Cardinality(Notes(B)) \in Nat
           /\ Cardinality(Notes(Append(B, l))) =
                IF l = Note THEN Cardinality(Notes(B)) + 1 ELSE Cardinality(Notes(B))
<1>. DEFINE U == Append(B, l)
            N == Len(B)
<1>1. /\ Len(U) = N + 1 /\ U[N + 1] = l /\ \A n \in 1..N : U[n] = B[n]
      /\ DOMAIN U = 1..(N + 1) /\ DOMAIN B = 1..N /\ N \in Nat
  BY AppendKeeps
<1>. HIDE DEF U, N
<1>2. Notes(U) = IF l = Note THEN Notes(B) \cup {N + 1} ELSE Notes(B)
  BY <1>1 DEF Notes
<1>3. Notes(B) \subseteq 1..N /\ N + 1 \notin Notes(B)
  BY <1>1 DEF Notes
<1>4. IsFiniteSet(Notes(B))
  <2>1. IsFiniteSet(1..N)
    BY <1>1, FS_Interval
  <2>. QED
    BY <1>3, <2>1, FS_Subset
<1>5. Cardinality(Notes(B)) \in Nat /\ Cardinality(Notes(B) \cup {N + 1}) = Cardinality(Notes(B)) + 1
  BY <1>3, <1>4, FS_AddElement, FS_CardinalityType
<1>. QED
  BY <1>2, <1>5 DEF U

\* Only a line that was a note is one in the edited file.
LEMMA NotesCarried ==
    ASSUME NEW T \in Seq(Line), NEW m, Puttable(m), NEW R,
           R = {p \in Seq(Line) \X (0..Len(T)) :
                  Cardinality(Notes(p[1])) <= Cardinality(Notes(SubSeq(T, 1, p[2])))}
    PROVE  Carried(R, T, m)
<1>. DEFINE N == Len(T)
            t == Scan(T)
            S(n) == Cardinality(Notes(SubSeq(T, 1, n)))
            C(B) == Cardinality(Notes(B))
<1>1. N \in Nat /\ N \in 0..N /\ 0 \in 0..N /\ \A n \in 1..N : n \in 0..N /\ n - 1 \in 0..N
  OBVIOUS
<1>2. ASSUME NEW B \in Seq(Line), NEW n \in 0..N
      PROVE  <<B, n>> \in R <=> C(B) <= S(n)
  OBVIOUS
<1>3. ASSUME NEW B \in Seq(Line), NEW l \in Line
      PROVE  /\ C(B) \in Nat /\ Append(B, l) \in Seq(Line)
             /\ C(Append(B, l)) = IF l = Note THEN C(B) + 1 ELSE C(B)
  BY NotesAppend, AppendProperties
<1>4. ASSUME NEW i \in ToPut(m)
      PROVE  i \in Item /\ i[1] \in Section /\ m.view[i] \in Value
  BY PutsTyped DEF Item
<1>5. /\ SubSeq(T, 1, 0) = <<>> /\ SubSeq(T, 1, N) = T
      /\ \A n \in 1..N : /\ SubSeq(T, 1, n - 1) \in Seq(Line)
                         /\ SubSeq(T, 1, n) = Append(SubSeq(T, 1, n - 1), T[n])
  BY PrefixStep
<1>6. ASSUME NEW n \in 1..N
      PROVE  /\ T[n] \in Line /\ S(n - 1) \in Nat
             /\ S(n) = IF T[n] = Note THEN S(n - 1) + 1 ELSE S(n - 1)
  <2>1. T[n] \in Line
    BY Elements
  <2>2. PICK P \in Seq(Line) : P = SubSeq(T, 1, n - 1)
    BY <1>5
  <2>3. /\ C(P) \in Nat
        /\ C(Append(P, T[n])) = IF T[n] = Note THEN C(P) + 1 ELSE C(P)
    BY <1>3, <2>1
  <2>4. S(n) = C(Append(P, T[n])) /\ S(n - 1) = C(P)
    BY <1>5, <2>2
  <2>. QED
    BY <2>1, <2>3, <2>4
<1>7. \A l \in Line : l.kind # "note" => l # Note
  BY DEF Note
<1>8. Blank \in Line /\ Blank # Note
  BY DEF Blank, Note, Line
<1>9. <<<<>>, 0>> \in R
  <2>0. PICK E : E = <<>>
    OBVIOUS
  <2>1. E \in Seq(Line) /\ S(0) = C(E)
    BY <1>5, <2>0, EmptySeq
  <2>2. C(E) \in Nat
    BY <1>3, <1>8, <2>1
  <2>3. C(E) <= S(0)
    BY <2>1, <2>2
  <2>. QED
    BY <1>1, <1>2, <2>0, <2>1, <2>3
<1>. HIDE DEF S, C, t
<1>10. ASSUME NEW n \in 1..N, NEW B \in Seq(Line), <<B, n - 1>> \in R
       PROVE  /\ T[n] # Note => <<B, n>> \in R
              /\ <<Append(B, T[n]), n>> \in R
              /\ \A l \in Line : l.kind # "note" /\ T[n] # Note => <<Append(B, l), n>> \in R
  <2>1. C(B) <= S(n - 1) /\ n \in 0..N /\ C(B) \in Nat
    BY <1>1, <1>2, <1>3, <1>8, <1>10
  <2>2. T[n] # Note => <<B, n>> \in R
    <3>1. C(B) <= S(n)
      BY <1>6, <2>1
    <3>. QED
      BY <1>2, <2>1, <3>1
  <2>3. <<Append(B, T[n]), n>> \in R
    <3>1. C(Append(B, T[n])) <= S(n) /\ Append(B, T[n]) \in Seq(Line)
      <4>1. /\ Append(B, T[n]) \in Seq(Line)
            /\ C(Append(B, T[n])) = IF T[n] = Note THEN C(B) + 1 ELSE C(B)
        BY <1>3, <1>6
      <4>. QED
        BY <1>6, <2>1, <4>1
    <3>. QED
      BY <1>2, <2>1, <3>1
  <2>4. ASSUME NEW l \in Line, l.kind # "note", T[n] # Note PROVE <<Append(B, l), n>> \in R
    <3>1. C(Append(B, l)) = C(B) /\ Append(B, l) \in Seq(Line)
      BY <1>3, <1>7, <2>4
    <3>. QED
      BY <1>2, <1>6, <2>1, <2>4, <3>1
  <2>. QED
    BY <2>2, <2>3, <2>4
<1>11. ASSUME NEW n \in 0..N, NEW B \in Seq(Line), NEW l \in Line, l.kind # "note", <<B, n>> \in R
       PROVE  <<Append(B, l), n>> \in R
  BY <1>2, <1>3, <1>7, <1>11
<1>12. ASSUME NEW n \in 1..N, NEW B \in Seq(Line), <<B, n - 1>> \in R, n \in Dropped(t, m)
       PROVE  <<B, n>> \in R
  <2>1. C(B) <= S(n - 1) /\ n \in 0..N /\ C(B) \in Nat
    BY <1>1, <1>2, <1>3, <1>8, <1>12
  <2>2. C(B) <= S(n)
    BY <1>6, <2>1
  <2>. QED
    BY <1>2, <2>1, <2>2
<1>13. ASSUME NEW n \in 1..N, NEW B \in Seq(Line), <<B, n - 1>> \in R, NEW i \in Owner(t, m, n)
       PROVE  <<Append(B, Rebuilt(T[n], m.view[i])), n>> \in R
  <2>1. i \in ToPut(m) /\ T[n].kind = "key"
    BY OwnerIs DEF t
  <2>2. Rebuilt(T[n], m.view[i]) \in Line /\ Rebuilt(T[n], m.view[i]).kind = "key"
    BY <1>6, <2>1, PutsTyped, RebuiltReads
  <2>3. T[n] # Note
    BY <1>6, <1>7, <2>1
  <2>. QED
    BY <1>10, <1>13, <2>2, <2>3
<1>14. ASSUME NEW n \in 0..N, NEW B \in Seq(Line), NEW i \in ToPut(m), <<B, n>> \in R
       PROVE  <<Append(B, NewLine(i, m)), n>> \in R
  <2>1. NewLine(i, m) \in Line /\ NewLine(i, m).kind = "key"
    BY <1>4, NewLineReads
  <2>. QED
    BY <1>11, <1>14, <2>1
<1>15. ASSUME NEW B \in Seq(Line), NEW i \in Homeless(t, m), <<B, N>> \in R
       PROVE  /\ <<Append(Separated(B), Header(i[1])), N>> \in R
              /\ i \in ToPut(m)
  <2>1. i \in ToPut(m) /\ i[1] \in Section
    BY <1>4 DEF Homeless, Fresh
  <2>2. <<Separated(B), N>> \in R /\ Separated(B) \in Seq(Line)
    <3>1. Blank \in Line /\ Blank.kind # "note"
      BY <1>8 DEF Blank
    <3>. QED
      BY <1>1, <1>11, <1>15, <3>1, BlankRead DEF Separated
  <2>3. Header(i[1]) \in Line /\ Header(i[1]).kind # "note"
    BY <2>1 DEF Header, Line
  <2>. QED
    BY <1>1, <1>11, <2>1, <2>2, <2>3
<1>16. \A i : \A n \in 0..N : i \in Below(t, m, n) => i \in ToPut(m)
  BY DEF Below, Fresh
<1>. QED
  BY <1>1, <1>9, <1>10, <1>12, <1>13, <1>14, <1>15, <1>16 DEF Carried, t

\* Notes never join a file.
LEMMA EditAddsNoNotes ==
    ASSUME NEW T \in Seq(Line), NEW m, Puttable(m)
    PROVE  Cardinality(Notes(Surgical(T, m))) <= Cardinality(Notes(T))
<1>1. PICK R : R = {p \in Seq(Line) \X (0..Len(T)) :
                      Cardinality(Notes(p[1])) <= Cardinality(Notes(SubSeq(T, 1, p[2])))}
  OBVIOUS
<1>2. Carried(R, T, m)
  BY <1>1, NotesCarried
<1>3. <<Surgical(T, m), Len(T)>> \in R
  BY <1>2, EditCarried
<1>4. SubSeq(T, 1, Len(T)) = T
  BY PrefixStep
<1>. QED
  BY <1>1, <1>3, <1>4

-----------------------------------------------------------------------------
(* A section that comes and goes.                                          *)

\* B is T with nothing visible behind it but headers and keys of section s, and
\* no blank line that is not right above a header.
Extends(B, T, s) ==
    /\ Len(T) <= Len(B)
    /\ \A n \in 1..Len(T) : B[n] = T[n] /\ Scan(B).sec[n] = Scan(T).sec[n]
    /\ \A n \in (Len(T) + 1)..Len(B) :
         /\ B[n].kind # "blank" => Scan(B).sec[n] = s
         /\ B[n].kind = "blank" => n < Len(B) /\ B[n + 1].kind = "head"

\* One more line of the section.
LEMMA ExtendsAppend ==
    ASSUME NEW T \in Seq(Line), NEW s, NEW B \in Seq(Line), Extends(B, T, s),
           NEW l \in Line, l.kind # "blank", End(Append(B, l)) = s
    PROVE  Extends(Append(B, l), T, s)
<1>. DEFINE U == Append(B, l)
            N == Len(B)
            K == Len(T)
<1>1. /\ U \in Seq(Line) /\ Len(U) = N + 1 /\ U[N + 1] = l
      /\ \A n \in 1..N : U[n] = B[n] /\ Scan(U).sec[n] = Scan(B).sec[n]
      /\ Scan(U).sec[N + 1] = s
  BY AppendKeeps, AppendEnd
<1>2. N \in Nat /\ K \in Nat
  OBVIOUS
<1>3. /\ K <= N /\ \A n \in 1..K : B[n] = T[n] /\ Scan(B).sec[n] = Scan(T).sec[n]
      /\ \A n \in (K + 1)..N : /\ B[n].kind # "blank" => Scan(B).sec[n] = s
                               /\ B[n].kind = "blank" => n < N /\ B[n + 1].kind = "head"
  BY DEF Extends
<1>. HIDE DEF U, N, K
<1>4. \A n \in 1..K : U[n] = T[n] /\ Scan(U).sec[n] = Scan(T).sec[n]
  BY <1>1, <1>2, <1>3
<1>5. ASSUME NEW n \in (K + 1)..(N + 1)
      PROVE  /\ U[n].kind # "blank" => Scan(U).sec[n] = s
             /\ U[n].kind = "blank" => n < N + 1 /\ U[n + 1].kind = "head"
  <2>1. CASE n = N + 1
    BY <1>1, <2>1
  <2>2. CASE n # N + 1
    <3>1. n \in 1..N /\ n \in (K + 1)..N /\ (n < N => n + 1 \in 1..N) /\ n < N + 1
      BY <1>2, <2>2
    <3>. QED
      BY <1>1, <1>3, <3>1
  <2>. QED
    BY <2>1, <2>2
<1>6. Extends(U, T, s)
  BY <1>1, <1>2, <1>3, <1>4, <1>5 DEF Extends, K
<1>. QED
  BY <1>6 DEF U

\* The section's header, and a blank line above it.
LEMMA ExtendsHeader ==
    ASSUME NEW T \in Seq(Line), NEW s \in Section, NEW B \in Seq(Line), Extends(B, T, s)
    PROVE  Extends(Append(Separated(B), Header(s)), T, s)
<1>1. Blank \in Line /\ Blank.kind = "blank"
  BY DEF Blank, Line
<1>2. Header(s) \in Line /\ Header(s).kind = "head" /\ Header(s).sec = s
  BY DEF Header, Line
<1>3. CASE Separated(B) = B
  <2>1. End(Append(B, Header(s))) = s
    BY <1>2, AppendEnd
  <2>. QED
    BY <1>2, <1>3, <2>1, ExtendsAppend
<1>4. CASE Separated(B) # B
  <2>. DEFINE A == Append(B, Blank)
              U == Append(A, Header(s))
              N == Len(B)
              K == Len(T)
  <2>1. Separated(B) = A
    BY <1>4 DEF Separated
  <2>2. /\ A \in Seq(Line) /\ Len(A) = N + 1 /\ A[N + 1] = Blank
        /\ \A n \in 1..N : A[n] = B[n] /\ Scan(A).sec[n] = Scan(B).sec[n]
    BY <1>1, AppendKeeps
  <2>. HIDE DEF A
  <2>3. /\ U \in Seq(Line) /\ Len(U) = Len(A) + 1 /\ U[Len(A) + 1] = Header(s)
        /\ \A n \in 1..Len(A) : U[n] = A[n] /\ Scan(U).sec[n] = Scan(A).sec[n]
        /\ Scan(U).sec[Len(A) + 1] = s
    BY <1>2, <2>2, AppendKeeps, AppendEnd
  <2>4. N \in Nat /\ K \in Nat
    OBVIOUS
  <2>5. /\ K <= N /\ \A n \in 1..K : B[n] = T[n] /\ Scan(B).sec[n] = Scan(T).sec[n]
        /\ \A n \in (K + 1)..N : /\ B[n].kind # "blank" => Scan(B).sec[n] = s
                                 /\ B[n].kind = "blank" => n < N /\ B[n + 1].kind = "head"
    BY DEF Extends
  <2>. HIDE DEF U, N, K
  <2>6. /\ Len(U) = N + 2 /\ U[N + 2] = Header(s) /\ U[N + 1] = Blank
        /\ Scan(U).sec[N + 2] = s
        /\ \A n \in 1..N : U[n] = B[n] /\ Scan(U).sec[n] = Scan(B).sec[n]
    <3>1. Len(A) + 1 = N + 2 /\ N + 1 \in 1..Len(A) /\ \A n \in 1..N : n \in 1..Len(A)
      BY <2>2, <2>4
    <3>. QED
      BY <2>2, <2>3, <3>1
  <2>7. \A n \in 1..K : U[n] = T[n] /\ Scan(U).sec[n] = Scan(T).sec[n]
    BY <2>4, <2>5, <2>6
  <2>8. ASSUME NEW n \in (K + 1)..(N + 2)
        PROVE  /\ U[n].kind # "blank" => Scan(U).sec[n] = s
               /\ U[n].kind = "blank" => n < N + 2 /\ U[n + 1].kind = "head"
    <3>1. CASE n = N + 2
      BY <1>2, <2>6, <3>1
    <3>2. CASE n = N + 1
      <4>1. n + 1 = N + 2 /\ n < N + 2
        BY <2>4, <3>2
      <4>. QED
        BY <1>1, <1>2, <2>6, <3>2, <4>1
    <3>3. CASE n # N + 1 /\ n # N + 2
      <4>1. n \in 1..N /\ n \in (K + 1)..N /\ (n < N => n + 1 \in 1..N) /\ n < N + 2
        BY <2>4, <3>3
      <4>. QED
        BY <2>5, <2>6, <4>1
    <3>. QED
      BY <3>1, <3>2, <3>3
  <2>9. Extends(U, T, s)
    BY <2>4, <2>5, <2>6, <2>7, <2>8 DEF Extends, K
  <2>. QED
    BY <2>1, <2>9 DEF U
<1>. QED
  BY <1>3, <1>4

\* The memory of a daemon that puts one value in every key of s, and of one
\* that removes s.
Coming(s, x) ==
    [view    |-> [i \in Item |-> IF i[1] = s THEN x ELSE Missing],
     touched |-> {i \in Item : i[1] = s},
     dropped |-> {}]

Going(s) == [view |-> EmptyContents, touched |-> {}, dropped |-> {s}]

\* A new section comes at the end of a file.
LEMMA SectionComes ==
    ASSUME NEW T \in Seq(Line), NEW s \in Section \ {Global}, LinesOf(Scan(T), s) = {},
           NEW x \in Value, x # Empty
    PROVE  /\ Surgical(T, Coming(s, x)) \in Seq(Line)
           /\ Extends(Surgical(T, Coming(s, x)), T, s)
<1>. DEFINE N == Len(T)
            t == Scan(T)
<1>1. PICK m : m = Coming(s, x)
  OBVIOUS
<1>2. /\ m \in Memory /\ m.dropped = {} /\ m.touched = {i \in Item : i[1] = s}
      /\ \A i \in Item : i[1] = s => m.view[i] = x
  BY <1>1 DEF Coming, Memory, Contents
<1>3. ToPut(m) = {i \in Item : i[1] = s} /\ ToTake(m) = {}
  BY <1>2, MissingAssumption DEF ToPut, ToTake
<1>4. Puttable(m)
  BY <1>2, <1>3 DEF Puttable
<1>5. PICK R : R = {p \in Seq(Line) \X (0..N) :
                      p[1] = SubSeq(T, 1, p[2]) \/ (p[2] = N /\ Extends(p[1], T, s))}
  OBVIOUS
<1>6. N \in Nat /\ N \in 0..N /\ 0 \in 0..N /\ \A n \in 1..N : n \in 0..N /\ n - 1 \in 0..N /\ n - 1 # N
  OBVIOUS
<1>7. ASSUME NEW B \in Seq(Line), NEW n \in 0..N
      PROVE  <<B, n>> \in R <=> B = SubSeq(T, 1, n) \/ (n = N /\ Extends(B, T, s))
  BY <1>5
<1>8. /\ SubSeq(T, 1, 0) = <<>> /\ SubSeq(T, 1, N) = T
      /\ \A n \in 1..N : SubSeq(T, 1, n) = Append(SubSeq(T, 1, n - 1), T[n])
  BY PrefixStep
<1>9. Extends(T, T, s)
  <2>1. (N + 1)..N = {} /\ N <= N
    BY <1>6
  <2>. QED
    BY <2>1 DEF Extends
<1>10. Dropped(t, m) = {}
  <2>1. TakenLines(t, m) = {}
    BY <1>3 DEF TakenLines
  <2>2. RemovedSpan(t, m) = {}
    BY <1>2 DEF RemovedSpan
  <2>. QED
    BY <2>1, <2>2 DEF Dropped
<1>11. ToPut(m) \subseteq Fresh(t, m)
  BY <1>3 DEF Fresh, KeyLines
<1>12. \A n : Owner(t, m, n) = {} /\ Below(t, m, n) = {}
  BY <1>3, <1>11 DEF Owner, Below, Fresh, Lacking
<1>13. \A i \in Homeless(t, m) : i[1] = s /\ i \in Item /\ m.view[i] = x
  BY <1>2, <1>3 DEF Homeless, Fresh
<1>. HIDE DEF t
<1>14. <<<<>>, 0>> \in R
  BY <1>6, <1>7, <1>8, EmptySeq
<1>15. ASSUME NEW n \in 1..N, NEW B \in Seq(Line), <<B, n - 1>> \in R
       PROVE  <<Append(B, T[n]), n>> \in R
  <2>1. B = SubSeq(T, 1, n - 1) /\ T[n] \in Line
    BY <1>6, <1>7, <1>15, Elements
  <2>2. Append(B, T[n]) = SubSeq(T, 1, n) /\ Append(B, T[n]) \in Seq(Line)
    BY <1>8, <2>1, AppendProperties
  <2>. QED
    BY <1>6, <1>7, <2>2
<1>16. ASSUME NEW B \in Seq(Line), NEW i \in Homeless(t, m), <<B, N>> \in R
       PROVE  /\ <<Append(Separated(B), Header(i[1])), N>> \in R
              /\ End(B) = i[1] => <<Append(B, NewLine(i, m)), N>> \in R
  <2>1. i[1] = s /\ i \in Item /\ m.view[i] \in Value
    BY <1>13
  <2>2. Extends(B, T, s)
    BY <1>6, <1>7, <1>8, <1>9, <1>16
  <2>3. <<Append(Separated(B), Header(s)), N>> \in R
    <3>. DEFINE X == Append(Separated(B), Header(s))
    <3>1. Separated(B) \in Seq(Line) /\ Header(s) \in Line
      BY BlankRead DEF Header, Line
    <3>2. X \in Seq(Line) /\ Extends(X, T, s)
      BY <2>2, <3>1, ExtendsHeader, AppendProperties
    <3>. HIDE DEF X
    <3>3. <<X, N>> \in R
      BY <1>6, <1>7, <3>2
    <3>. QED
      BY <3>3 DEF X
  <2>4. ASSUME End(B) = s PROVE <<Append(B, NewLine(i, m)), N>> \in R
    <3>. DEFINE l == NewLine(i, m)
    <3>1. l \in Line /\ l.kind = "key"
      BY <2>1, NewLineReads
    <3>. HIDE DEF l
    <3>2. End(Append(B, l)) = s /\ l.kind # "blank" /\ Append(B, l) \in Seq(Line)
      BY <2>4, <3>1, AppendEnd, AppendProperties
    <3>3. Extends(Append(B, l), T, s)
      BY <2>2, <3>1, <3>2, ExtendsAppend
    <3>4. <<Append(B, l), N>> \in R
      BY <1>6, <1>7, <3>2, <3>3
    <3>. QED
      BY <3>4 DEF l
  <2>. QED
    BY <2>1, <2>3, <2>4
<1>17. Carried(R, T, m)
  BY <1>10, <1>12, <1>14, <1>15, <1>16 DEF Carried, t
<1>18. <<Surgical(T, m), N>> \in R /\ Surgical(T, m) \in Seq(Line)
  BY <1>4, <1>17, EditCarried, SurgicalReadsBack
<1>19. Extends(Surgical(T, m), T, s)
  BY <1>6, <1>7, <1>8, <1>9, <1>18
<1>. QED
  BY <1>1, <1>18, <1>19

\* Without the section, the file is T, or T without a blank line at its end.
Sheds(B, T) == B = T \/ (Len(T) > 0 /\ T[Len(T)].kind = "blank" /\ B = SubSeq(T, 1, Len(T) - 1))

\* A section that a file did not have goes.
LEMMA SectionGoes ==
    ASSUME NEW T \in Seq(Line), NEW s \in Section, LinesOf(Scan(T), s) = {},
           NEW U \in Seq(Line), Extends(U, T, s)
    PROVE  Sheds(Surgical(U, Going(s)), T)
<1>. DEFINE N == Len(T)
            K == Len(U)
            u == Scan(U)
<1>1. PICK m : m = Going(s)
  OBVIOUS
<1>2. m \in Memory /\ m.dropped = {s} /\ m.touched = {}
  BY <1>1 DEF Going, Memory, Contents, EmptyContents
<1>3. ToPut(m) = {} /\ ToTake(m) = {}
  BY <1>2 DEF ToPut, ToTake
<1>4. Puttable(m)
  BY <1>2, <1>3 DEF Puttable
<1>5. N \in Nat /\ K \in Nat /\ K \in 0..K /\ 0 \in 0..K
      /\ \A n \in 1..K : n \in 0..K /\ n - 1 \in 0..K
  OBVIOUS
<1>6. /\ N <= K /\ \A n \in 1..N : U[n] = T[n] /\ u.sec[n] = Scan(T).sec[n]
      /\ \A n \in (N + 1)..K : /\ U[n].kind # "blank" => u.sec[n] = s
                               /\ U[n].kind = "blank" => n < K /\ U[n + 1].kind = "head"
  BY DEF Extends
<1>7. \A n \in 1..N : u.sec[n] # s
  BY <1>6, ScanFields DEF LinesOf
<1>8. DOMAIN U = 1..K /\ u.line = U
  BY ScanFields
<1>. HIDE DEF u
<1>9. TakenLines(u, m) = {}
  BY <1>3 DEF TakenLines
<1>10. RemovedSpan(u, m) = {n \in 1..K : U[n].kind # "blank" /\ u.sec[n] = s}
  BY <1>2, <1>8 DEF RemovedSpan
<1>11. Dropped(u, m) = {n \in 1..K : \/ U[n].kind # "blank" /\ u.sec[n] = s
                                     \/ /\ U[n].kind = "blank" /\ n + 1 \in 1..K
                                        /\ U[n + 1].kind # "blank" /\ u.sec[n + 1] = s
                                        /\ U[n + 1].kind = "head"}
  BY <1>8, <1>9, <1>10 DEF Dropped
<1>12. ASSUME NEW n \in 1..K
       PROVE  /\ n < N => n \notin Dropped(u, m)
              /\ n = N /\ n \in Dropped(u, m) => T[N].kind = "blank"
              /\ n > N => n \in Dropped(u, m)
  <2>1. ASSUME n < N PROVE n \notin Dropped(u, m)
    <3>1. n \in 1..N /\ n + 1 \in 1..N
      BY <1>5, <2>1
    <3>. QED
      BY <1>7, <1>11, <3>1
  <2>2. ASSUME n = N, n \in Dropped(u, m) PROVE T[N].kind = "blank"
    <3>1. N \in 1..N
      BY <1>5, <2>2
    <3>. QED
      BY <1>6, <1>7, <1>11, <2>2, <3>1
  <2>3. ASSUME n > N PROVE n \in Dropped(u, m)
    <3>1. n \in (N + 1)..K
      BY <1>5, <2>3
    <3>2. CASE U[n].kind # "blank"
      BY <1>6, <1>11, <3>1, <3>2
    <3>3. CASE U[n].kind = "blank"
      <4>1. n < K /\ U[n + 1].kind = "head"
        BY <1>6, <3>1, <3>3
      <4>2. n + 1 \in (N + 1)..K /\ n + 1 \in 1..K
        BY <1>5, <3>1, <4>1
      <4>3. U[n + 1].kind # "blank"
        BY <4>1
      <4>4. u.sec[n + 1] = s
        BY <1>6, <4>2, <4>3
      <4>. QED
        BY <1>11, <3>3, <4>1, <4>2, <4>3, <4>4
    <3>. QED
      BY <3>2, <3>3
  <2>. QED
    BY <2>1, <2>2, <2>3
<1>13. \A n : Owner(u, m, n) = {} /\ Below(u, m, n) = {}
  BY <1>3 DEF Owner, Below, Fresh
<1>14. Homeless(u, m) = {}
  BY <1>3 DEF Homeless, Fresh
<1>15. PICK R : R = {p \in Seq(Line) \X (0..K) :
                       IF p[2] < N THEN p[1] = SubSeq(T, 1, p[2]) ELSE Sheds(p[1], T)}
  OBVIOUS
<1>16. ASSUME NEW B \in Seq(Line), NEW n \in 0..K
       PROVE  <<B, n>> \in R <=> IF n < N THEN B = SubSeq(T, 1, n) ELSE Sheds(B, T)
  BY <1>15
<1>17. /\ SubSeq(T, 1, 0) = <<>> /\ SubSeq(T, 1, N) = T
       /\ \A n \in 1..N : SubSeq(T, 1, n) = Append(SubSeq(T, 1, n - 1), T[n])
  BY PrefixStep
<1>18. <<<<>>, 0>> \in R
  <2>0. PICK E : E = <<>>
    OBVIOUS
  <2>1. E \in Seq(Line) /\ E = SubSeq(T, 1, 0)
    BY <1>17, <2>0, EmptySeq
  <2>2. CASE N = 0
    BY <1>5, <1>16, <1>17, <2>0, <2>1, <2>2 DEF Sheds
  <2>3. CASE N # 0
    <3>1. 0 < N /\ 0 \in 0..K
      BY <1>5, <2>3
    <3>2. <<E, 0>> \in R
      BY <1>16, <2>1, <3>1
    <3>. QED
      BY <2>0, <3>2
  <2>. QED
    BY <2>2, <2>3
<1>19. ASSUME NEW n \in 1..K, NEW B \in Seq(Line), <<B, n - 1>> \in R
       PROVE  /\ n \in Dropped(u, m) => <<B, n>> \in R
              /\ n \notin Dropped(u, m) => <<Append(B, U[n]), n>> \in R
  <2>0. n \in 0..K /\ n - 1 \in 0..K /\ n \in Nat
    BY <1>5
  <2>1. CASE n < N
    <3>1. n - 1 < N /\ ~(n > N) /\ n \in 1..N
      BY <1>5, <2>0, <2>1
    <3>2. B = SubSeq(T, 1, n - 1) /\ U[n] = T[n] /\ T[n] \in Line
      BY <1>6, <1>16, <1>19, <2>0, <3>1, Elements
    <3>3. Append(B, U[n]) = SubSeq(T, 1, n) /\ Append(B, U[n]) \in Seq(Line)
      BY <1>17, <3>1, <3>2, AppendProperties
    <3>4. n \notin Dropped(u, m)
      BY <1>12, <2>1
    <3>. QED
      BY <1>16, <2>0, <2>1, <3>3, <3>4
  <2>2. CASE n = N
    <3>1. n - 1 < N /\ ~(n < N) /\ n \in 1..N /\ N > 0
      BY <1>5, <2>0, <2>2
    <3>2. B = SubSeq(T, 1, n - 1) /\ U[n] = T[n] /\ T[n] \in Line
      BY <1>6, <1>16, <1>19, <2>0, <3>1, Elements
    <3>3. Append(B, U[n]) = T /\ Append(B, U[n]) \in Seq(Line)
      BY <1>17, <2>2, <3>1, <3>2, AppendProperties
    <3>4. n \in Dropped(u, m) => Sheds(B, T)
      BY <1>12, <2>2, <3>1, <3>2 DEF Sheds
    <3>5. Sheds(T, T)
      BY DEF Sheds
    <3>. QED
      BY <1>16, <2>0, <3>1, <3>3, <3>4, <3>5
  <2>3. CASE n > N
    <3>1. ~(n - 1 < N) /\ ~(n < N)
      BY <1>5, <2>0, <2>3
    <3>2. Sheds(B, T) /\ n \in Dropped(u, m)
      BY <1>12, <1>16, <1>19, <2>0, <2>3, <3>1
    <3>. QED
      BY <1>16, <2>0, <3>1, <3>2
  <2>4. n < N \/ n = N \/ n > N
    BY <1>5, <2>0
  <2>. QED
    BY <2>1, <2>2, <2>3, <2>4
<1>20. Carried(R, U, m)
  BY <1>13, <1>14, <1>18, <1>19 DEF Carried, u
<1>21. <<Surgical(U, m), K>> \in R /\ Surgical(U, m) \in Seq(Line)
  BY <1>4, <1>20, EditCarried, SurgicalReadsBack
<1>22. Sheds(Surgical(U, m), T)
  BY <1>5, <1>6, <1>16, <1>21
<1>. QED
  BY <1>1, <1>22

-----------------------------------------------------------------------------
(* config_write_surgical on its own.                                       *)

\* The file has lines a load can make, and what is owed can be put in it.
EditInv == PlainCases /\ conf \in Seq(Line) /\ Puttable(owed)

\* What a case owes.
LEMMA OwingsPuttable ==
    ASSUME PlainCases, NEW c \in Cases, NEW m \in Owings(c.items, c.sections, c.values)
    PROVE  Puttable(m)
<1>1. c.items \subseteq Item /\ c.sections \subseteq Section /\ c.values \subseteq Value
      /\ Empty \notin c.values
  BY CasesAssumption DEF PlainCases
<1>. DEFINE Puts(touched, dropped) == {i \in touched : i[1] \notin dropped \cup {Global}}
            Owes(touched, dropped) ==
              {[view    |-> [i \in Item |-> IF i \in DOMAIN put THEN put[i] ELSE Missing],
                touched |-> touched,
                dropped |-> dropped] :
                 put \in UNION {[p -> c.values] : p \in SUBSET Puts(touched, dropped)}}
<1>2. PICK touched \in SUBSET c.items, dropped \in SUBSET (c.sections \ {Global}) :
        m \in Owes(touched, dropped)
  <2>1. Owings(c.items, c.sections, c.values) =
          UNION {Owes(touched, dropped) :
                   touched \in SUBSET c.items, dropped \in SUBSET (c.sections \ {Global})}
    BY DEF Owings
  <2>. HIDE DEF Owes
  <2>. QED
    BY <2>1
<1>3. PICK put \in UNION {[p -> c.values] : p \in SUBSET Puts(touched, dropped)} :
        m = [view    |-> [i \in Item |-> IF i \in DOMAIN put THEN put[i] ELSE Missing],
             touched |-> touched,
             dropped |-> dropped]
  BY <1>2
<1>4. PICK p \in SUBSET Puts(touched, dropped) :
        put \in [p -> c.values]
  OBVIOUS
<1>5. /\ DOMAIN put = p /\ \A i \in p : put[i] \in Value /\ put[i] # Empty
      /\ \A i \in p : i \in touched /\ i[1] \notin dropped
  BY <1>1, <1>4
<1>6. /\ m.touched = touched /\ m.dropped = dropped
      /\ \A i \in Item : m.view[i] = IF i \in p THEN put[i] ELSE Missing
  BY <1>3, <1>5
<1>7. [i \in Item |-> IF i \in DOMAIN put THEN put[i] ELSE Missing] \in Contents
  BY <1>5 DEF Contents
<1>8. m \in Memory
  BY <1>1, <1>3, <1>7 DEF Memory
<1>9. ASSUME NEW i \in ToPut(m) PROVE m.view[i] # Empty /\ i[1] \notin m.dropped
  <2>1. i \in Item /\ m.view[i] # Missing
    BY <1>1, <1>6 DEF ToPut
  <2>2. i \in p
    BY <1>6, <2>1
  <2>. QED
    BY <1>5, <1>6, <2>1, <2>2
<1>. QED
  BY <1>8, <1>9 DEF Puttable

\* All that is asked of one save.
LEMMA InvHolds ==
    ASSUME EditInv
    PROVE  EditHolds
<1>1. conf \in Seq(Line) /\ Puttable(owed) /\ PlainCases
  BY DEF EditInv
<1>2. EditReadsBack
  BY <1>1, SurgicalReadsBack DEF EditReadsBack, Read
<1>3. RetryChangesNothing
  <2>. SUFFICES ASSUME \A i \in Item : owed.view[i] \notin DOMAIN Cut
                PROVE  Surgical(Surgical(conf, owed), owed) = Surgical(conf, owed)
    BY DEF RetryChangesNothing
  <2>1. \A i \in ToPut(owed) : owed.view[i] \notin DOMAIN Cut
    BY <1>1, PutsTyped
  <2>. QED
    BY <1>1, <2>1, EditTwice
<1>4. NothingUnparsed
  BY <1>1, EditAddsNoNotes DEF NothingUnparsed
<1>5. ComesAndGoes
  <2>. SUFFICES ASSUME NEW s \in Section \ {Global}, NEW x \in UNION {c.values : c \in Cases},
                       LinesOf(Scan(conf), s) = {},
                       NEW gone, gone = Surgical(Surgical(conf, Coming(s, x)), Going(s))
                PROVE  gone = conf \/ (conf # <<>> /\ Last(conf) = Blank /\ gone = Front(conf))
    BY DEF ComesAndGoes, Coming, Going
  <2>1. x \in Value /\ x # Empty
    BY <1>1, CasesAssumption DEF PlainCases
  <2>2. PICK came : came = Surgical(conf, Coming(s, x))
    OBVIOUS
  <2>3. came \in Seq(Line) /\ Extends(came, conf, s)
    BY <1>1, <2>1, <2>2, SectionComes
  <2>4. Sheds(gone, conf)
    BY <1>1, <2>2, <2>3, SectionGoes
  <2>5. CASE gone = conf
    BY <2>5
  <2>6. CASE /\ Len(conf) > 0 /\ conf[Len(conf)].kind = "blank"
             /\ gone = SubSeq(conf, 1, Len(conf) - 1)
    <3>1. Len(conf) \in 1..Len(conf)
      BY <1>1, <2>6
    <3>2. conf[Len(conf)] \in Line
      BY <1>1, <3>1, Elements
    <3>3. \A l \in Line : l.kind = "blank" => l = Blank
      BY DEF Line, Blank
    <3>4. conf # <<>>
      BY <1>1, <2>6
    <3>. QED
      BY <2>6, <3>2, <3>3, <3>4 DEF Last, Front
  <2>. QED
    BY <2>4, <2>5, <2>6 DEF Sheds
<1>. QED
  BY <1>2, <1>3, <1>4, <1>5 DEF EditHolds

\* config_write_surgical on its own: every file, whatever a save owes it but
\* "", reads back as the memory says, has nothing more to edit, no line more
\* that the parser rejects, and no trace of a section that comes and goes.
THEOREM EditsHold == PlainCases => (EditSpec => []EditHolds)
<1>1. PlainCases /\ EditInit => EditInv
  <2>. SUFFICES ASSUME PlainCases, EditInit PROVE EditInv
    OBVIOUS
  <2>1. PICK c \in Cases : conf \in c.texts /\ owed \in Owings(c.items, c.sections, c.values)
    BY DEF EditInit
  <2>2. conf \in Seq(Line)
    BY <2>1, CasesAssumption
  <2>3. Puttable(owed)
    BY <2>1, OwingsPuttable
  <2>. QED
    BY <2>2, <2>3 DEF EditInv
<1>2. EditInv /\ [ConfigSave]_<<conf, owed>> => EditInv'
  <2>. SUFFICES ASSUME EditInv, [ConfigSave]_<<conf, owed>> PROVE EditInv'
    OBVIOUS
  <2>1. conf \in Seq(Line) /\ Puttable(owed) /\ PlainCases
    BY DEF EditInv
  <2>2. conf' \in Seq(Line) /\ owed' = owed
    BY <2>1, SurgicalReadsBack DEF ConfigSave
  <2>. QED
    BY <2>1, <2>2 DEF EditInv, Puttable, ToPut, PlainCases
<1>3. EditInv => EditHolds
  BY InvHolds
<1>. QED
  BY <1>1, <1>2, <1>3, PTL DEF EditSpec

-----------------------------------------------------------------------------
(* Files without a header of the section without a name: its keys are the   *)
(* first, in the file and in the lists made from it.                        *)

\* The line is no header of the section without a name.
Named(l) == l.kind = "head" => l.sec # Global

Unheaded(T) == \A n \in 1..Len(T) : Named(T[n])

\* A line more.
LEMMA UnheadedAppend ==
    ASSUME NEW B \in Seq(Line), NEW l \in Line, Unheaded(B), Named(l)
    PROVE  Append(B, l) \in Seq(Line) /\ Unheaded(Append(B, l))
<1>. DEFINE U == Append(B, l)
<1>1. /\ U \in Seq(Line) /\ Len(U) = Len(B) + 1 /\ U[Len(B) + 1] = l
      /\ \A n \in 1..Len(B) : U[n] = B[n]
      /\ Len(B) \in Nat
  BY AppendKeeps
<1>2. \A n \in 1..(Len(B) + 1) : n \in 1..Len(B) \/ n = Len(B) + 1
  BY <1>1
<1>. QED
  BY <1>1, <1>2 DEF Unheaded

\* The blank line and the header above a new section.
LEMMA UnheadedHeader ==
    ASSUME NEW B \in Seq(Line), Unheaded(B), NEW s \in Section, s # Global
    PROVE  LET U == Append(Separated(B), Header(s)) IN U \in Seq(Line) /\ Unheaded(U)
<1>1. Blank \in Line /\ Named(Blank)
  BY DEF Blank, Line, Named
<1>2. Separated(B) \in Seq(Line) /\ Unheaded(Separated(B))
  BY <1>1, UnheadedAppend DEF Separated
<1>3. Header(s) \in Line /\ Named(Header(s))
  BY DEF Header, Line, Named
<1>. QED
  BY <1>2, <1>3, UnheadedAppend

\* A section more.
LEMMA UnheadedSection ==
    ASSUME NEW T \in Seq(Line), Unheaded(T), NEW s \in Section, NEW m, NEW items,
           items \subseteq Item, \A i \in items : m.view[i] \in Value
    PROVE  Unheaded(AddedSection(T, s, items, m))
<1>. DEFINE own == {i \in items : i[1] = s}
            L == NewLines(own, m)
            X == IF s = Global THEN T ELSE Append(Separated(T), Header(s))
<1>1. CASE own = {}
  BY <1>1 DEF AddedSection
<1>2. CASE own # {}
  <2>1. X \in Seq(Line) /\ Unheaded(X)
    BY UnheadedHeader
  <2>2. IsFiniteSet(own) /\ own \subseteq Item /\ \A i \in own : m.view[i] \in Value
    BY ItemsFinite, FS_Subset
  <2>3. L \in Seq(Line) /\ \A n \in 1..Len(L) : L[n].kind = "key"
    <3>. HIDE DEF own
    <3>. QED
      BY <2>2, NewLinesAre
  <2>4. AddedSection(T, s, items, m) = X \o L
    <3>1. Separated(T) \in Seq(Line) /\ Header(s) \in Line
      BY BlankRead DEF Header, Line
    <3>2. Separated(T) \o <<Header(s)>> = Append(Separated(T), Header(s))
      BY <3>1, AppendIsConcat
    <3>. QED
      BY <1>2, <3>2 DEF AddedSection
  <2>. HIDE DEF X, L
  <2>5. /\ Len(X \o L) = Len(X) + Len(L) /\ Len(X) \in Nat /\ Len(L) \in Nat
        /\ \A n \in 1..Len(X \o L) : (X \o L)[n] = IF n <= Len(X) THEN X[n] ELSE L[n - Len(X)]
    BY <2>1, <2>3
  <2>6. ASSUME NEW n \in 1..Len(X \o L) PROVE Named((X \o L)[n])
    <3>1. CASE n <= Len(X)
      <4>1. n \in 1..Len(X)
        BY <2>5, <3>1
      <4>. QED
        BY <2>1, <2>5, <3>1, <4>1 DEF Unheaded
    <3>2. CASE ~ (n <= Len(X))
      <4>1. n - Len(X) \in 1..Len(L)
        BY <2>5, <3>2
      <4>. QED
        BY <2>3, <2>5, <3>2, <4>1 DEF Named
    <3>. QED
      BY <3>1, <3>2
  <2>. QED
    BY <2>4, <2>6 DEF Unheaded
<1>. QED
  BY <1>1, <1>2

\* config_write makes no such header, whatever its list.
LEMMA WholeUnheaded ==
    ASSUME NEW m \in Memory, NEW order \in Seq(Section)
    PROVE  Unheaded(Whole(m, order))
<1>. DEFINE known == {i \in Item : m.view[i] # Missing}
            N == Len(order)
<1>0. PICK E : E = <<>>
  OBVIOUS
<1>1. Whole(m, order) = WithSections(E, order, known, m) /\ E \in Seq(Line) /\ Unheaded(E)
  BY <1>0, EmptySeq DEF Whole, Unheaded
<1>2. known \subseteq Item /\ \A i \in known : m.view[i] \in Value
  BY DEF Memory, Contents
<1>. HIDE DEF known
<1>3. PICK f : Writes(f, E, order, known, m)
  BY <1>1, <1>2, SectionsOut
<1>4. /\ N \in Nat /\ \A n \in 1..N : order[n] \in Section
      /\ f \in [0..N -> Seq(Line)] /\ f[0] = E /\ Whole(m, order) = f[N]
      /\ \A n \in 1..N : f[n] = AddedSection(f[n - 1], order[n], known, m)
  BY <1>1, <1>3, Elements DEF Writes
<1>. HIDE DEF N
<1>. DEFINE G == {k \in 0..N : Unheaded(f[k])}
<1>5. 0 \in G
  BY <1>1, <1>4
<1>6. ASSUME NEW k \in 1..N, k - 1 \in G PROVE k \in G
  <2>1. f[k - 1] \in Seq(Line) /\ k \in 0..N /\ Unheaded(f[k - 1]) /\ order[k] \in Section
    BY <1>4, <1>6
  <2>2. Unheaded(AddedSection(f[k - 1], order[k], known, m))
    BY <1>2, <2>1, UnheadedSection
  <2>. QED
    BY <1>4, <2>1, <2>2
<1>7. G \in SUBSET (0..N)
  OBVIOUS
<1>8. G = 0..N
  <2>. HIDE DEF G
  <2>. QED
    BY <1>4, <1>5, <1>6, <1>7, Upward
<1>9. N \in 0..N
  BY <1>4
<1>. QED
  BY <1>4, <1>8, <1>9

\* No step of an edit makes one.
LEMMA UnheadedCarried ==
    ASSUME NEW T \in Seq(Line), Unheaded(T), NEW m, Puttable(m), NEW R,
           R = {p \in Seq(Line) \X (0..Len(T)) : Unheaded(p[1])}
    PROVE  Carried(R, T, m)
<1>. DEFINE N == Len(T)
            t == Scan(T)
<1>1. N \in Nat /\ N \in 0..N /\ 0 \in 0..N /\ \A n \in 1..N : n \in 0..N /\ n - 1 \in 0..N
  OBVIOUS
<1>2. ASSUME NEW B \in Seq(Line), NEW n \in 0..N
      PROVE  <<B, n>> \in R <=> Unheaded(B)
  OBVIOUS
<1>3. ASSUME NEW n \in 0..N, NEW k \in 0..N, NEW B \in Seq(Line), <<B, k>> \in R,
             NEW l \in Line, Named(l)
      PROVE  <<Append(B, l), n>> \in R
  <2>1. Unheaded(B)
    BY <1>2, <1>3
  <2>2. Append(B, l) \in Seq(Line) /\ Unheaded(Append(B, l))
    BY <1>3, <2>1, UnheadedAppend
  <2>. QED
    BY <1>2, <2>2
<1>4. <<<<>>, 0>> \in R
  <2>0. PICK E : E = <<>>
    OBVIOUS
  <2>1. E \in Seq(Line) /\ Unheaded(E)
    BY <2>0, EmptySeq DEF Unheaded
  <2>. QED
    BY <1>1, <1>2, <2>0, <2>1
<1>. HIDE DEF t
<1>5. ASSUME NEW n \in 1..N, NEW B \in Seq(Line), <<B, n - 1>> \in R
      PROVE  /\ <<B, n>> \in R
             /\ <<Append(B, T[n]), n>> \in R
             /\ \A i \in Owner(t, m, n) : <<Append(B, Rebuilt(T[n], m.view[i])), n>> \in R
  <2>1. <<B, n>> \in R
    BY <1>1, <1>2, <1>5
  <2>2. T[n] \in Line /\ Named(T[n])
    BY Elements DEF Unheaded
  <2>3. ASSUME NEW i \in Owner(t, m, n)
        PROVE  Rebuilt(T[n], m.view[i]) \in Line /\ Named(Rebuilt(T[n], m.view[i]))
    <3>1. i \in ToPut(m) /\ T[n].kind = "key"
      BY OwnerIs DEF t
    <3>2. Rebuilt(T[n], m.view[i]) \in Line /\ Rebuilt(T[n], m.view[i]).kind = "key"
      BY <2>2, <3>1, PutsTyped, RebuiltReads
    <3>. QED
      BY <3>2 DEF Named
  <2>. QED
    BY <1>1, <1>3, <1>5, <2>1, <2>2, <2>3
<1>6. ASSUME NEW n \in 0..N, NEW B \in Seq(Line), NEW i \in ToPut(m), <<B, n>> \in R
      PROVE  <<Append(B, NewLine(i, m)), n>> \in R
  <2>1. i \in Item /\ i[1] \in Section /\ m.view[i] \in Value
    BY PutsTyped DEF Item
  <2>2. NewLine(i, m) \in Line /\ NewLine(i, m).kind = "key"
    BY <2>1, NewLineReads
  <2>. QED
    BY <1>3, <1>6, <2>2 DEF Named
<1>7. ASSUME NEW B \in Seq(Line), NEW i \in Homeless(t, m), <<B, N>> \in R
      PROVE  <<Append(Separated(B), Header(i[1])), N>> \in R /\ i \in ToPut(m)
  <2>1. i \in ToPut(m)
    BY DEF Homeless, Fresh
  <2>2. i[1] \in Section /\ i[1] # Global
    BY <2>1, PutsTyped, HomelessAreNamed DEF Item
  <2>3. Unheaded(B)
    BY <1>1, <1>2, <1>7
  <2>4. Append(Separated(B), Header(i[1])) \in Seq(Line)
        /\ Unheaded(Append(Separated(B), Header(i[1])))
    BY <2>2, <2>3, UnheadedHeader
  <2>. QED
    BY <1>1, <1>2, <2>1, <2>4
<1>8. \A i : \A n \in 0..N : i \in Below(t, m, n) => i \in ToPut(m)
  BY DEF Below, Fresh
<1>. QED
  BY <1>1, <1>4, <1>5, <1>6, <1>7, <1>8 DEF Carried, t

\* So config_write_surgical keeps a file without one.
LEMMA EditUnheaded ==
    ASSUME NEW T \in Seq(Line), Unheaded(T), NEW m, Puttable(m)
    PROVE  Unheaded(Surgical(T, m))
<1>1. PICK R : R = {p \in Seq(Line) \X (0..Len(T)) : Unheaded(p[1])}
  OBVIOUS
<1>2. Carried(R, T, m)
  BY <1>1, UnheadedCarried
<1>3. <<Surgical(T, m), Len(T)>> \in R
  BY <1>2, EditCarried
<1>. QED
  BY <1>1, <1>3

\* The list of the sections that lines 1..n of T make.
Lists(T, n, order) == IF T[n].kind = "key" THEN Listing(order, Scan(T).sec[n]) ELSE order

LoadedBy(f, T) ==
    /\ f \in [0..Len(T) -> Seq(Section)] /\ f[0] = <<>>
    /\ \A n \in 1..Len(T) : f[n] = Lists(T, n, f[n - 1])
    /\ LoadOrder(T) = f[Len(T)]

\* A list with section s, behind the others if it is new.
Lengthens(U, order, s) ==
    /\ U \in Seq(Section)
    /\ \E n \in 1..Len(U) : U[n] = s
    /\ \A n \in 1..Len(order) : n \in 1..Len(U) /\ U[n] = order[n]
    /\ \A n \in 1..Len(U) : n \notin 1..Len(order) => n = Len(order) + 1 /\ U[n] = s
    /\ (\E n \in 1..Len(order) : order[n] = s) => U = order

LEMMA ListingIs ==
    ASSUME NEW order \in Seq(Section), NEW s \in Section
    PROVE  Lengthens(Listing(order, s), order, s)
<1>0. PICK U : U = Listing(order, s)
  OBVIOUS
<1>1. Len(order) \in Nat /\ DOMAIN order = 1..Len(order)
  OBVIOUS
<1>2. s \in Range(order) <=> \E n \in 1..Len(order) : order[n] = s
  BY <1>1 DEF Range
<1>3. CASE s \in Range(order)
  BY <1>1, <1>2, <1>3 DEF Listing, Lengthens
<1>4. CASE s \notin Range(order)
  <2>2. U = Append(order, s)
    BY <1>0, <1>4 DEF Listing
  <2>1. /\ U \in Seq(Section) /\ Len(U) = Len(order) + 1 /\ U[Len(order) + 1] = s
        /\ \A n \in 1..Len(order) : U[n] = order[n]
    BY <2>2, AppendProperties
  <2>3. Len(order) + 1 \in 1..Len(U)
    BY <1>1, <2>1
  <2>. QED
    BY <1>0, <1>1, <1>2, <1>4, <2>1, <2>3 DEF Lengthens
<1>. QED
  BY <1>3, <1>4

\* The recursion of LoadOrder, as a function.
LEMMA LoadedOrder ==
    ASSUME NEW T \in Seq(Line)
    PROVE  \E f : LoadedBy(f, T)
<1>. DEFINE N == Len(T)
            S == Seq(Section)
            G(f) == f = [n \in 0..N |-> IF n = 0 THEN <<>> ELSE Lists(T, n, f[n - 1])]
            h == [n \in 1..N |-> [r \in S |-> Lists(T, n, r)]]
<1>1. N \in Nat
  OBVIOUS
<1>2. LoadOrder(T) = (CHOOSE f : G(f))[N]
  BY DEF LoadOrder, Lists
<1>3. h \in [1..N -> [S -> S]]
  <2>. SUFFICES ASSUME NEW n \in 1..N, NEW r \in S PROVE Lists(T, n, r) \in S
    OBVIOUS
  <2>1. Scan(T).sec[n] \in Section
    BY SectionsTyped
  <2>. QED
    BY <2>1, ListingIs DEF Lists, Lengthens
<1>4. <<>> \in S
  BY EmptySeq
<1>. HIDE DEF S
<1>5. PICK f \in [0..N -> S] : f[0] = <<>> /\ \A n \in 1..N : f[n] = h[n][f[n - 1]]
  <2>. HIDE DEF h, N
  <2>1. PICK f : Iterates(f, N, S, <<>>, h)
    BY <1>1, <1>3, <1>4, Iterated
  <2>. QED
    BY <2>1 DEF Iterates
<1>. HIDE DEF N
<1>6. \A n \in 1..N : f[n] = Lists(T, n, f[n - 1])
  <2>1. \A n \in 1..N : n - 1 \in 0..N
    BY <1>1
  <2>. QED
    BY <1>5, <2>1
<1>. HIDE DEF h
<1>7. f = [n \in 0..N |-> f[n]]
  BY <1>5
<1>8. G(f)
  <2>1. \A n \in 0..N : n = 0 \/ n \in 1..N
    BY <1>1
  <2>. QED
    BY <1>5, <1>6, <1>7, <2>1
<1>. HIDE DEF G
<1>9. PICK g : G(g) /\ g = CHOOSE f_1 : G(f_1)
  BY <1>8, Zenon
<1>10. g = [n \in 0..N |-> IF n = 0 THEN <<>> ELSE Lists(T, n, g[n - 1])]
  BY <1>9, Zenon DEF G
<1>11. g[0] = <<>> /\ g = [n \in 0..N |-> g[n]]
  <2>1. 0 \in 0..N
    BY <1>1
  <2>. QED
    BY <1>10, <2>1
<1>12. \A k \in 1..N : g[k] = Lists(T, k, g[k - 1])
  <2>1. \A k \in 1..N : k \in 0..N /\ k # 0
    BY <1>1
  <2>. QED
    BY <1>10, <2>1
<1>13. g = f
  <2>1. g[0] = f[0] /\ \A k \in 1..N : g[k - 1] = f[k - 1] => g[k] = f[k]
    BY <1>5, <1>6, <1>11, <1>12
  <2>. QED
    BY <1>1, <1>7, <1>11, <2>1, SameAlong
<1>. QED
  BY <1>2, <1>5, <1>6, <1>7, <1>9, <1>13 DEF N, S, LoadedBy

\* A list from a file without the header "[]" can be written anew.
LEMMA LoadWritable ==
    ASSUME NEW T \in Seq(Line), Unheaded(T)
    PROVE  Writable(Loaded(Load(T)), LoadOrder(T))
<1>. DEFINE N == Len(T)
            sec == Scan(T).sec
<1>1. PICK f : LoadedBy(f, T)
  BY LoadedOrder
<1>2. /\ N \in Nat /\ f \in [0..N -> Seq(Section)] /\ f[0] = <<>> /\ LoadOrder(T) = f[N]
      /\ \A n \in 1..N : f[n] = IF T[n].kind = "key" THEN Listing(f[n - 1], sec[n]) ELSE f[n - 1]
  BY <1>1 DEF LoadedBy, Lists
<1>3. \A n \in 1..N : /\ sec[n] \in Section /\ Named(T[n])
                      /\ T[n].kind = "head" => sec[n] = T[n].sec
                      /\ T[n].kind # "head" /\ n # 1 => sec[n] = sec[n - 1]
  BY SectionsTyped, SectionStep DEF Unheaded
<1>4. \A n \in 1..N : T[n].kind = "head" => sec[n] # Global
  BY <1>3 DEF Named
<1>. DEFINE Heads(k) == \A n \in 1..Len(f[k]) : f[k][n] = Global
            Good(k) ==
              /\ \A j \in 1..k : T[j].kind = "key" => \E n \in 1..Len(f[k]) : f[k][n] = sec[j]
              /\ \A n \in 2..Len(f[k]) : f[k][n] # Global
              /\ k = 0 \/ sec[k] = Global => Heads(k)
            G == {k \in 0..N : Good(k)}
<1>5. Good(0)
  BY <1>2
<1>6. ASSUME NEW k \in 1..N, Good(k - 1) PROVE Good(k)
  <2>1. /\ k \in Nat /\ k - 1 \in 0..N /\ k \in 0..N /\ k # 0
        /\ f[k - 1] \in Seq(Section) /\ Len(f[k - 1]) \in Nat
    BY <1>2
  <2>2. \A j \in 1..k : j \in 1..(k - 1) \/ j = k
    BY <2>1
  <2>3. sec[k] = Global => T[k].kind # "head" /\ (k - 1 = 0 \/ sec[k - 1] = Global)
    BY <1>3, <1>4, <2>1
  <2>4. sec[k] = Global => Heads(k - 1)
    BY <1>6, <2>3
  <2>5. CASE T[k].kind # "key"
    <3>1. f[k] = f[k - 1]
      BY <1>2, <2>5
    <3>. QED
      BY <1>6, <2>1, <2>2, <2>4, <2>5, <3>1
  <2>6. CASE T[k].kind = "key"
    <3>. DEFINE A == f[k - 1]
                s == sec[k]
    <3>1. f[k] = Listing(A, s) /\ s \in Section
      BY <1>2, <1>3, <2>6
    <3>2. PICK U : U = Listing(A, s)
      OBVIOUS
    <3>. HIDE DEF A, s
    <3>9. A \in Seq(Section)
      BY <2>1 DEF A
    <3>10. Lengthens(U, A, s)
      BY <3>1, <3>2, <3>9, ListingIs
    <3>3. /\ U \in Seq(Section)
          /\ \E n \in 1..Len(U) : U[n] = s
          /\ \A n \in 1..Len(A) : n \in 1..Len(U) /\ U[n] = A[n]
          /\ \A n \in 1..Len(U) : n \notin 1..Len(A) => n = Len(A) + 1 /\ U[n] = s
          /\ (\E n \in 1..Len(A) : A[n] = s) => U = A
      BY <3>10 DEF Lengthens
    <3>. USE DEF A, s
    <3>4. Len(U) \in Nat
      BY <3>3
    <3>5. \A j \in 1..k : T[j].kind = "key" => \E n \in 1..Len(U) : U[n] = sec[j]
      BY <1>6, <2>2, <3>3
    <3>6. ASSUME NEW n \in 2..Len(U) PROVE U[n] # Global
      <4>1. CASE n \in 1..Len(A)
        <5>1. n \in 2..Len(A) /\ U[n] = A[n]
          BY <2>1, <3>3, <3>4, <4>1
        <5>. QED
          BY <1>6, <5>1
      <4>2. CASE n \notin 1..Len(A)
        <5>1. n \in 1..Len(U) /\ n = Len(A) + 1 /\ U[n] = s
          BY <3>3, <3>4, <4>2
        <5>2. 1 \in 1..Len(A)
          BY <2>1, <3>4, <5>1
        <5>3. ASSUME s = Global PROVE FALSE
          <6>1. A[1] = s
            BY <2>4, <5>2, <5>3
          <6>2. U = A
            BY <3>3, <5>2, <6>1
          <6>. QED
            BY <4>2, <5>1, <6>2
        <5>. QED
          BY <5>1, <5>3
      <4>. QED
        BY <4>1, <4>2
    <3>7. s = Global => \A n \in 1..Len(U) : U[n] = Global
      BY <2>4, <3>3
    <3>. HIDE DEF A, s
    <3>8. f[k] = U
      BY <3>1, <3>2
    <3>. QED
      BY <2>1, <3>5, <3>6, <3>7, <3>8 DEF s
  <2>. QED
    BY <2>5, <2>6
<1>. HIDE DEF Good
<1>7. G = 0..N
  <2>1. 0 \in G /\ \A k \in 1..N : k - 1 \in G => k \in G
    BY <1>2, <1>5, <1>6
  <2>2. G \in SUBSET (0..N)
    OBVIOUS
  <2>. HIDE DEF G
  <2>. QED
    BY <1>2, <2>1, <2>2, Upward
<1>8. Good(N) /\ LoadOrder(T) \in Seq(Section)
  BY <1>2, <1>7
<1>. DEFINE order == LoadOrder(T)
<1>9. /\ \A j \in 1..N : T[j].kind = "key" => \E n \in 1..Len(order) : order[n] = sec[j]
      /\ \A n \in 2..Len(order) : order[n] # Global
  BY <1>2, <1>8 DEF Good
<1>10. ASSUME NEW i \in Item, Load(T)[i] # Missing PROVE \E n \in 1..Len(order) : order[n] = i[1]
  <2>1. KeyLines(Scan(T), i) # {}
    BY <1>10, LoadIs
  <2>2. PICK j \in 1..N : T[j].kind = "key" /\ sec[j] = i[1]
    BY <2>1, KeyLinesAre
  <2>. QED
    BY <1>9, <2>2
<1>. HIDE DEF order
<1>. QED
  BY <1>8, <1>9, <1>10 DEF Writable, Loaded, order

\* So can it be when a section more is listed, or none.
LEMMA ListedWritable ==
    ASSUME NEW m, NEW m2, NEW order, Writable(m, order), NEW s \in Section, NEW out,
           out = Listing(order, s) \/ (out = order /\ \A i \in Item : i[1] = s => m2.view[i] = Missing),
           \A i \in Item : m2.view[i] # Missing => m.view[i] # Missing \/ (i[1] = s /\ s # Global)
    PROVE  Writable(m2, out)
<1>1. /\ order \in Seq(Section) /\ Len(order) \in Nat
      /\ \A i \in Item : m.view[i] # Missing => \E n \in 1..Len(order) : order[n] = i[1]
      /\ \A n \in 2..Len(order) : order[n] = Global =>
           \A i \in Item : i[1] = Global => m.view[i] = Missing
  BY DEF Writable
<1>2. CASE out = order /\ \A i \in Item : i[1] = s => m2.view[i] = Missing
  BY <1>1, <1>2 DEF Writable
<1>3. CASE out = Listing(order, s)
  <2>1. /\ out \in Seq(Section) /\ Len(out) \in Nat
        /\ \E n \in 1..Len(out) : out[n] = s
        /\ \A n \in 1..Len(order) : n \in 1..Len(out) /\ out[n] = order[n]
        /\ \A n \in 1..Len(out) : n \notin 1..Len(order) => n = Len(order) + 1 /\ out[n] = s
        /\ (\E n \in 1..Len(order) : order[n] = s) => out = order
    <3>1. /\ out \in Seq(Section)
          /\ \E n \in 1..Len(out) : out[n] = s
          /\ \A n \in 1..Len(order) : n \in 1..Len(out) /\ out[n] = order[n]
          /\ \A n \in 1..Len(out) : n \notin 1..Len(order) => n = Len(order) + 1 /\ out[n] = s
          /\ (\E n \in 1..Len(order) : order[n] = s) => out = order
      <4>1. Lengthens(out, order, s)
        BY <1>1, <1>3, ListingIs
      <4>. QED
        BY <4>1 DEF Lengthens
    <3>. QED
      BY <3>1
  <2>2. \A i \in Item : m2.view[i] # Missing => \E n \in 1..Len(out) : out[n] = i[1]
    BY <1>1, <2>1
  <2>3. ASSUME NEW n \in 2..Len(out), out[n] = Global, NEW i \in Item, i[1] = Global
        PROVE  m2.view[i] = Missing
    <3>1. CASE n \in 1..Len(order)
      <4>1. n \in 2..Len(order) /\ order[n] = Global
        BY <1>1, <2>1, <2>3, <3>1
      <4>2. m.view[i] = Missing
        BY <1>1, <2>3, <4>1
      <4>. QED
        BY <2>3, <4>2
    <3>2. CASE n \notin 1..Len(order)
      <4>1. n \in 1..Len(out) /\ n = Len(order) + 1 /\ s = Global
        BY <2>1, <2>3, <3>2
      <4>2. m.view[i] = Missing
        <5>. SUFFICES ASSUME m.view[i] # Missing PROVE FALSE
          OBVIOUS
        <5>1. out = order
          BY <1>1, <2>1, <2>3, <4>1
        <5>. QED
          BY <3>2, <4>1, <5>1
      <4>. QED
        BY <2>3, <4>1, <4>2
    <3>. QED
      BY <3>1, <3>2
  <2>. QED
    BY <2>1, <2>2, <2>3 DEF Writable
<1>. QED
  BY <1>2, <1>3

-----------------------------------------------------------------------------
(* The flags of the daemons.                                               *)

\* Every daemon's values are of V, and its flags agree.
Typed(V) ==
    /\ camera \in Cameras
    /\ up \subseteq Daemon
    /\ cfg = [d \in Daemon |-> cfg[d]]
    /\ Value \cup {Missing} \subseteq V
    /\ \A d \in Daemon : cfg[d] \in ConfigOf(V) /\ Agrees(cfg[d])

\* Whatever the lines of a file make a daemon load.
FlagsInv == \E V : Typed(V)

\* No daemon is up.
LEMMA InitTyped == Init => Typed(Value \cup {Missing})
<1>1. NoConfig \in ConfigOf(Value \cup {Missing}) /\ Agrees(NoConfig)
  BY NoConfigAgrees
<1>. QED
  BY <1>1 DEF Init, Typed

\* Values of V are values of a larger set.
LEMMA MoreTyped ==
    ASSUME NEW V, NEW W, V \subseteq W, Typed(V)
    PROVE  Typed(W)
BY MoreValues DEF Typed

\* A daemon of the camera that changes its own configuration.
LEMMA BecomesTyped ==
    ASSUME NEW V, Typed(V), NEW d \in Daemon, NEW c \in ConfigOf(V), Agrees(c),
           cfg' = [cfg EXCEPT ![d] = c], camera' = camera, up' \subseteq Daemon
    PROVE  Typed(V)'
BY DEF Typed

\* A step keeps the types, whatever the values a file holds if they are of V.
LEMMA StepTyped ==
    ASSUME NEW V, Typed(V), [Next]_vars,
           text # NoFile => \A i \in Item : Load(text)[i] \in V
    PROVE  Typed(V)'
<1>1. ASSUME NEW d \in camera.daemons
      PROVE  d \in Daemon /\ cfg[d] \in ConfigOf(V) /\ Agrees(cfg[d])
  BY ConfigAssumption DEF Typed
<1>2. ASSUME NEW i \in camera.items PROVE i \in Item /\ i[1] \in Section
  BY ConfigAssumption DEF Typed, Item
<1>3. ASSUME NEW v \in camera.values PROVE v \in V /\ v # Missing
  BY ConfigAssumption, MissingAssumption DEF Typed
<1>4. up \subseteq Daemon /\ Missing \in V /\ Default \in V
  BY ConfigAssumption DEF Typed
<1>5. ASSUME NEW d \in camera.daemons, NEW c \in ConfigOf(V), Agrees(c), NEW s, Becomes(d, c, s)
      PROVE  Typed(V)'
  BY <1>1, <1>4, <1>5, BecomesTyped DEF Becomes
<1>6. ASSUME NEW d \in camera.daemons, Start(d) PROVE Typed(V)'
  <2>1. Parsed(Load(text)) \in ConfigOf(V) /\ Agrees(Parsed(Load(text)))
    BY <1>6, ParsedAgrees DEF Start
  <2>. QED
    BY <1>1, <1>4, <1>6, <2>1, BecomesTyped DEF Start
<1>7. ASSUME NEW d \in camera.daemons, NEW i \in camera.items, GetStored(d, i) PROVE Typed(V)'
  <2>1. Get(cfg[d], i, Default) \in ConfigOf(V) /\ Agrees(Get(cfg[d], i, Default))
    BY <1>1, <1>2, <1>4, GetAgrees
  <2>. QED
    BY <1>5, <1>7, <2>1 DEF GetStored
<1>8. ASSUME NEW d \in camera.daemons, NEW i \in camera.items, NEW v \in camera.values,
             SetStored(d, i, v)
      PROVE  Typed(V)'
  <2>1. SetStr(cfg[d], i, v) \in ConfigOf(V) /\ Agrees(SetStr(cfg[d], i, v))
    BY <1>1, <1>2, <1>3, SetAgrees
  <2>. QED
    BY <1>5, <1>8, <2>1 DEF SetStored
<1>9. ASSUME NEW d \in camera.daemons, NEW i \in camera.items, Unset(d, i) PROVE Typed(V)'
  <2>1. UnsetKey(cfg[d], i) \in ConfigOf(V) /\ Agrees(UnsetKey(cfg[d], i))
    BY <1>1, <1>2, <1>9, UnsetAgrees DEF Unset
  <2>. QED
    BY <1>5, <1>9, <2>1 DEF Unset
<1>10. ASSUME NEW d \in camera.daemons, NEW i \in camera.items, RemoveSection(d, i[1])
       PROVE  Typed(V)'
  <2>1. /\ DropSection(cfg[d], i[1]) \in ConfigOf(V)
        /\ Agrees(DropSection(cfg[d], i[1]))
    BY <1>1, <1>2, <1>10, DropAgrees DEF RemoveSection
  <2>. QED
    BY <1>5, <1>10, <2>1 DEF RemoveSection
<1>11. ASSUME NEW d \in camera.daemons, Save(d) PROVE Typed(V)'
  <2>1. Clean(cfg[d]) \in ConfigOf(V) /\ Agrees(Clean(cfg[d]))
    BY <1>1, CleanAgrees
  <2>. QED
    BY <1>1, <1>4, <1>11, <2>1, BecomesTyped DEF Save
<1>12. ASSUME NEW d \in camera.daemons, Stop(d) PROVE Typed(V)'
  <2>1. NoConfig \in ConfigOf(V) /\ Agrees(NoConfig)
    BY <1>4, NoConfigAgrees
  <2>. QED
    BY <1>1, <1>4, <1>12, <2>1, BecomesTyped DEF Stop
<1>13. CASE Delete \/ UNCHANGED vars
  BY <1>13 DEF Delete, vars, Typed
<1>. QED
  BY <1>6, <1>7, <1>8, <1>9, <1>10, <1>11, <1>12, <1>13 DEF Next

\* A file whose lines say anything at all.
LEMMA NextFlags == ASSUME FlagsInv, [Next]_vars PROVE FlagsInv'
<1>1. PICK V : Typed(V)
  BY DEF FlagsInv
<1>2. PICK W : V \subseteq W /\ \A i \in Item : Load(text)[i] \in W
  <2>. WITNESS V \cup {Load(text)[i] : i \in Item}
  <2>. QED
    OBVIOUS
<1>3. Typed(W)
  BY <1>1, <1>2, MoreTyped
<1>4. Typed(W)'
  BY <1>2, <1>3, StepTyped
<1>. QED
  BY <1>4 DEF FlagsInv

\* The flags of every reachable configuration are of some set of values.
LEMMA FlagsInvariance == Spec => []FlagsInv
<1>1. Init => FlagsInv
  BY InitTyped DEF FlagsInv
<1>2. FlagsInv /\ [Next]_vars => FlagsInv'
  BY NextFlags
<1>. QED
  BY <1>1, <1>2, PTL DEF Spec

\* The flags of rss_config's entries and sections never contradict each
\* other, whatever a file holds and whatever the daemons do.
THEOREM FlagsNeverContradict == Spec => []FlagsAgree
<1>1. FlagsInv => FlagsAgree
  <2>. SUFFICES ASSUME FlagsInv, NEW d \in Daemon
                PROVE  /\ \A i \in Item : LET e == cfg[d].ents[i] IN
                            /\ e.here => cfg[d].secs[i[1]].here
                            /\ e.dirty /\ e.defaulted => e.removed
                            /\ cfg[d].secs[i[1]].removed => ~Configured(e)
                       /\ \A s \in Section : cfg[d].secs[s].dirty => cfg[d].secs[s].removed
                       /\ ~cfg[d].secs[Global].removed
    BY DEF FlagsAgree
  <2>1. Agrees(cfg[d])
    BY DEF FlagsInv, Typed
  <2>2. ~cfg[d].secs[Global].removed
    BY <2>1, GlobalAssumption DEF Agrees, SectionAgrees
  <2>. QED
    BY <2>1, <2>2 DEF Agrees, EntryAgrees, SectionAgrees
<1>. QED
  BY <1>1, FlagsInvariance, PTL

\* A getter's default (add_entry_ex with defaulted set) changes no lookup of
\* any key, and owes the file nothing.
THEOREM DefaultsStayDefaults == Spec => DefaultsAreNotConfiguration
<1>. DEFINE Unmoved == \A d \in Daemon, i \in Item :
              GetStored(d, i) => MemoryOf(cfg'[d]) = MemoryOf(cfg[d])
<1>1. ASSUME FlagsInv PROVE Unmoved
  <2>. SUFFICES ASSUME NEW d \in Daemon, NEW i \in Item, GetStored(d, i)
                PROVE  MemoryOf(cfg'[d]) = MemoryOf(cfg[d])
    OBVIOUS
  <2>1. PICK V : Typed(V)
    BY <1>1 DEF FlagsInv
  <2>2. cfg[d] \in ConfigOf(V) /\ Agrees(cfg[d]) /\ Default \in V
    BY <2>1, ConfigAssumption DEF Typed
  <2>3. cfg'[d] = Get(cfg[d], i, Default)
    BY <2>1 DEF GetStored, Becomes, Typed
  <2>. QED
    BY <2>2, <2>3, GetMemory
<1>. QED
  BY <1>1, FlagsInvariance, PTL DEF DefaultsAreNotConfiguration

-----------------------------------------------------------------------------
(* The flags and the lines implement SharedConfig.                         *)

\* What a memory has comes back as it is: no value with " #" inside, and ""
\* in no key it owes.
PlainMemory(m) ==
    \A i \in Item : m.view[i] # Missing =>
        m.view[i] \notin DOMAIN Cut /\ (i \in m.touched => m.view[i] # Empty)

\* The file has lines, but no header "[]", and the daemons plain values, in
\* lists that can be written anew.
SaysInv ==
    /\ PlainCameras
    /\ Typed(Value \cup {Missing})
    /\ text = NoFile \/ (text \in Seq(Line) /\ Unheaded(text))
    /\ \A d \in Daemon : PlainMemory(MemoryOf(cfg[d]))
    /\ \A d \in Daemon \ up : cfg[d] = NoConfig
    /\ made = [d \in Daemon |-> made[d]]
    /\ \A d \in Daemon : Writable(MemoryOf(cfg[d]), made[d])

\* A memory without anything in it.
LEMMA NothingWritable == Writable(Loaded(EmptyContents), <<>>)
<1>0. PICK E : E = <<>>
  OBVIOUS
<1>1. E \in Seq(Section) /\ Len(E) = 0
  BY <1>0, EmptySeq
<1>2. Writable(Loaded(EmptyContents), E)
  BY <1>1 DEF Writable, Loaded, EmptyContents
<1>. QED
  BY <1>0, <1>2

\* A file with lines a load can make.
LEMMA InitSays == PlainCameras /\ Init => SaysInv
<1>. SUFFICES ASSUME PlainCameras, Init PROVE SaysInv
  OBVIOUS
<1>1. text \in Seq(Line) /\ Header(Global) \notin Range(text)
  BY ConfigAssumption DEF Init, PlainCameras
<1>2. Unheaded(text)
  <2>. SUFFICES ASSUME NEW n \in 1..Len(text), text[n].kind = "head", text[n].sec = Global
                PROVE  FALSE
    BY DEF Unheaded, Named
  <2>1. text[n] \in Line /\ text[n] \in Range(text)
    BY <1>1, Elements DEF Range
  <2>2. text[n] = Header(Global)
    BY <2>1 DEF Line, Header
  <2>. QED
    BY <1>1, <2>1, <2>2
<1>3. ASSUME NEW d \in Daemon PROVE PlainMemory(MemoryOf(cfg[d])) /\ Writable(MemoryOf(cfg[d]), made[d])
  <2>1. MemoryOf(cfg[d]) = Loaded(EmptyContents) /\ made[d] = <<>>
    BY NoConfigMemory DEF Init
  <2>2. PlainMemory(MemoryOf(cfg[d]))
    BY <2>1 DEF PlainMemory, Loaded, EmptyContents
  <2>. QED
    BY <2>1, <2>2, NothingWritable
<1>4. /\ \A d \in Daemon : cfg[d] = NoConfig
      /\ made = [d \in Daemon |-> made[d]]
  BY DEF Init
<1>. QED
  BY <1>1, <1>2, <1>3, <1>4, InitTyped DEF SaysInv

\* What the file says is a map.
LEMMA FileIsTyped ==
    ASSUME SaysInv
    PROVE  /\ FileSays \in Contents \cup {NoFile}
           /\ FileSays = NoFile <=> text = NoFile
BY LoadTyped, ConfigAssumption DEF SaysInv, FileSays

\* So is what a daemon would look up.
LEMMA MemoriesTyped ==
    ASSUME Typed(Value \cup {Missing}), NEW d \in Daemon
    PROVE  MemoryOf(cfg[d]) \in Memory /\ SharedMem[d] = MemoryOf(cfg[d])
<1>1. cfg[d] \in Config
  BY ConfigIsOf DEF Typed
<1>. QED
  BY <1>1, MemoryIsMemory DEF SharedMem

\* A load of what is written for a plain memory answers what the memory says.
LEMMA PlainReads ==
    ASSUME NEW m \in Memory, PlainMemory(m)
    PROVE  Read(m) = m
<1>1. \A i \in Item : AsRead(m.view[i]) = m.view[i]
  BY CutAssumption, MissingAssumption DEF AsRead, PlainMemory
<1>2. m.view = [i \in Item |-> m.view[i]]
  BY DEF Memory, Contents
<1>3. [i \in Item |-> AsRead(m.view[i])] = m.view
  BY <1>1, <1>2
<1>. QED
  BY <1>3 DEF Read, Memory

\* What a daemon owes can be put.
LEMMA SavesPuttable ==
    ASSUME SaysInv, NEW d \in Daemon
    PROVE  Puttable(MemoryOf(cfg[d]))
<1>. DEFINE m == MemoryOf(cfg[d])
<1>1. m \in Memory /\ PlainMemory(m) /\ Agrees(cfg[d])
  BY MemoriesTyped DEF SaysInv, Typed
<1>2. ASSUME NEW i \in ToPut(m) PROVE m.view[i] # Empty /\ i[1] \notin m.dropped
  <2>1. i \in Item /\ i \in m.touched /\ m.view[i] # Missing
    BY <1>1 DEF ToPut, Memory
  <2>2. m.view[i] # Empty
    BY <1>1, <2>1 DEF PlainMemory
  <2>3. i[1] \notin m.dropped
    BY <1>1, <2>1, DroppedIsMissing
  <2>. QED
    BY <2>2, <2>3
<1>. QED
  BY <1>1, <1>2 DEF Puttable

\* What a save leaves in the file: lines, and what is owed, read back.
LEMMA SavedReads ==
    ASSUME SaysInv, NEW d \in Daemon
    PROVE  /\ SavedText(d) \in Seq(Line) /\ Unheaded(SavedText(d))
           /\ Load(SavedText(d)) =
                IF FileSays = NoFile THEN MemoryOf(cfg[d]).view
                ELSE Overlay(FileSays, MemoryOf(cfg[d]))
<1>. DEFINE m == MemoryOf(cfg[d])
            order == made[d]
<1>1. m \in Memory /\ PlainMemory(m) /\ Writable(m, order)
  BY MemoriesTyped DEF SaysInv
<1>2. Read(m) = m
  BY <1>1, PlainReads
<1>3. Puttable(m)
  BY SavesPuttable
<1>4. CASE text = NoFile
  <2>1. SavedText(d) = Whole(m, order) /\ FileSays = NoFile
    BY <1>4 DEF SavedText, FileSays
  <2>. HIDE DEF m, order
  <2>2. /\ Whole(m, order) \in Seq(Line) /\ Load(Whole(m, order)) = m.view
        /\ Unheaded(Whole(m, order))
    BY <1>1, <1>2, WholeReadsBack, WholeUnheaded DEF Writable
  <2>. QED
    BY <2>1, <2>2 DEF m
<1>5. CASE text # NoFile
  <2>1. /\ SavedText(d) = Surgical(text, m) /\ FileSays = Load(text)
        /\ text \in Seq(Line) /\ Unheaded(text) /\ FileSays # NoFile
    BY <1>5, FileIsTyped DEF SavedText, FileSays, SaysInv
  <2>. HIDE DEF m
  <2>2. /\ Surgical(text, m) \in Seq(Line)
        /\ Load(Surgical(text, m)) = Overlay(Load(text), m)
        /\ Unheaded(Surgical(text, m))
    BY <1>2, <1>3, <2>1, SurgicalReadsBack, EditUnheaded
  <2>. QED
    BY <2>1, <2>2 DEF m
<1>. QED
  BY <1>4, <1>5

\* So a load after a save answers what the memory says of a key it owes, and
\* what the file said of any other.
SavesReadBack ==
    \A d \in Daemon : Save(d) =>
        FileSays' = IF FileSays = NoFile THEN MemoryOf(cfg[d]).view
                    ELSE Overlay(FileSays, MemoryOf(cfg[d]))

\* A save reads back, as no value of a plain camera is changed on the way.
LEMMA SavesAreRead == ASSUME SaysInv PROVE SavesReadBack
<1>. SUFFICES ASSUME NEW d \in Daemon, Save(d)
              PROVE  FileSays' = IF FileSays = NoFile THEN MemoryOf(cfg[d]).view
                                 ELSE Overlay(FileSays, MemoryOf(cfg[d]))
  BY DEF SavesReadBack
<1>1. text' = SavedText(d)
  BY DEF Save
<1>2. text' # NoFile
  BY <1>1, SavedReads, ConfigAssumption
<1>3. FileSays' = Load(text')
  BY <1>2 DEF FileSays
<1>. QED
  BY <1>1, <1>3, SavedReads

\* One daemon of the camera changes, to plain values.
LEMMA ChangePlain ==
    ASSUME SaysInv, NEW d, NEW c, cfg' = [cfg EXCEPT ![d] = c], PlainMemory(MemoryOf(c)),
           NEW e \in Daemon
    PROVE  PlainMemory(MemoryOf(cfg'[e]))
BY DEF SaysInv, Typed

\* The operations of ConfigMemory keep values plain.
LEMMA MapPlain ==
    ASSUME NEW m \in Memory, PlainMemory(m)
    PROVE  /\ \A i \in Item, v \in Value \ DOMAIN Cut :
                v # Empty => PlainMemory(SetIn(m, i, v))
           /\ \A i \in Item : PlainMemory(UnsetIn(m, i))
           /\ \A s \in Section : PlainMemory(RemoveIn(m, s))
           /\ PlainMemory(Settled(m))
<1>1. ASSUME NEW i \in Item, NEW v \in Value \ DOMAIN Cut, v # Empty
      PROVE  PlainMemory(SetIn(m, i, v))
  BY <1>1 DEF PlainMemory, SetIn, Memory, Contents
<1>2. ASSUME NEW i \in Item PROVE PlainMemory(UnsetIn(m, i))
  BY DEF PlainMemory, UnsetIn, Memory, Contents
<1>3. ASSUME NEW s \in Section PROVE PlainMemory(RemoveIn(m, s))
  BY DEF PlainMemory, RemoveIn
<1>4. PlainMemory(Settled(m))
  BY DEF PlainMemory, Settled, Loaded
<1>. QED
  BY <1>1, <1>2, <1>3, <1>4

\* No step makes a memory that is not plain.
LEMMA NextPlain ==
    ASSUME SaysInv, [Next]_vars, NEW e \in Daemon
    PROVE  PlainMemory(MemoryOf(cfg'[e]))
<1>. DEFINE V == Value \cup {Missing}
<1>1. ASSUME NEW d \in camera.daemons
      PROVE  /\ d \in Daemon /\ cfg[d] \in ConfigOf(V) /\ Agrees(cfg[d])
             /\ MemoryOf(cfg[d]) \in Memory /\ PlainMemory(MemoryOf(cfg[d]))
  BY ConfigAssumption, MemoriesTyped DEF SaysInv, Typed
<1>2. ASSUME NEW i \in camera.items PROVE i \in Item /\ i[1] \in Section
  BY ConfigAssumption DEF SaysInv, Typed, Item
<1>3. ASSUME NEW v \in camera.values PROVE v \in V /\ v \in Value \ DOMAIN Cut /\ v # Empty
  BY ConfigAssumption DEF SaysInv, Typed, PlainCameras
<1>4. Default \in V
  BY ConfigAssumption
<1>. HIDE DEF V
<1>5. ASSUME NEW d \in camera.daemons, Start(d) PROVE PlainMemory(MemoryOf(cfg'[e]))
  <2>1. text \in Seq(Line)
    BY <1>5 DEF Start, SaysInv
  <2>2. MemoryOf(Parsed(Load(text))) = Loaded(Load(text))
    BY ParsedMemory DEF Load
  <2>3. PlainMemory(Loaded(Load(text)))
    BY <2>1, LoadTyped DEF PlainMemory, Loaded
  <2>. QED
    BY <1>5, <2>2, <2>3, ChangePlain DEF Start
<1>6. ASSUME NEW d \in camera.daemons, NEW i \in camera.items, GetStored(d, i)
      PROVE  PlainMemory(MemoryOf(cfg'[e]))
  <2>1. MemoryOf(Get(cfg[d], i, Default)) = MemoryOf(cfg[d])
    BY <1>1, <1>2, <1>4, GetMemory
  <2>. QED
    BY <1>1, <1>6, <2>1, ChangePlain DEF GetStored, Becomes
<1>7. ASSUME NEW d \in camera.daemons, NEW i \in camera.items, NEW v \in camera.values,
             SetStored(d, i, v)
      PROVE  PlainMemory(MemoryOf(cfg'[e]))
  <2>1. MemoryOf(SetStr(cfg[d], i, v)) = SetIn(MemoryOf(cfg[d]), i, v)
    BY <1>1, <1>2, <1>3, SetMemory
  <2>2. PlainMemory(SetIn(MemoryOf(cfg[d]), i, v))
    BY <1>1, <1>2, <1>3, MapPlain
  <2>. QED
    BY <1>7, <2>1, <2>2, ChangePlain DEF SetStored, Becomes
<1>8. ASSUME NEW d \in camera.daemons, NEW i \in camera.items, Unset(d, i)
      PROVE  PlainMemory(MemoryOf(cfg'[e]))
  <2>1. MemoryOf(UnsetKey(cfg[d], i)) = UnsetIn(MemoryOf(cfg[d]), i)
    BY <1>1, <1>2, <1>8, UnsetMemory DEF Unset
  <2>2. PlainMemory(UnsetIn(MemoryOf(cfg[d]), i))
    BY <1>1, <1>2, MapPlain
  <2>. QED
    BY <1>8, <2>1, <2>2, ChangePlain DEF Unset, Becomes
<1>9. ASSUME NEW d \in camera.daemons, NEW i \in camera.items, RemoveSection(d, i[1])
      PROVE  PlainMemory(MemoryOf(cfg'[e]))
  <2>1. MemoryOf(DropSection(cfg[d], i[1])) = RemoveIn(MemoryOf(cfg[d]), i[1])
    BY <1>1, <1>2, DropMemory
  <2>2. PlainMemory(RemoveIn(MemoryOf(cfg[d]), i[1]))
    BY <1>1, <1>2, MapPlain
  <2>. QED
    BY <1>9, <2>1, <2>2, ChangePlain DEF RemoveSection, Becomes
<1>10. ASSUME NEW d \in camera.daemons, Save(d) PROVE PlainMemory(MemoryOf(cfg'[e]))
  <2>1. MemoryOf(Clean(cfg[d])) = Settled(MemoryOf(cfg[d]))
    BY <1>1, CleanMemory
  <2>2. PlainMemory(Settled(MemoryOf(cfg[d])))
    BY <1>1, MapPlain
  <2>. QED
    BY <1>10, <2>1, <2>2, ChangePlain DEF Save
<1>11. ASSUME NEW d \in camera.daemons, Stop(d) PROVE PlainMemory(MemoryOf(cfg'[e]))
  <2>1. PlainMemory(MemoryOf(NoConfig))
    BY NoConfigMemory DEF PlainMemory, Loaded, EmptyContents
  <2>. QED
    BY <1>11, <2>1, ChangePlain DEF Stop
<1>12. CASE Delete \/ UNCHANGED vars
  BY <1>12 DEF Delete, vars, SaysInv
<1>. QED
  BY <1>5, <1>6, <1>7, <1>8, <1>9, <1>10, <1>11, <1>12 DEF Next

\* One daemon changes, and its list with it.
LEMMA ChangeWritable ==
    ASSUME SaysInv, NEW d, NEW c, cfg' = [cfg EXCEPT ![d] = c],
           NEW order, made' = [made EXCEPT ![d] = order], Writable(MemoryOf(c), order),
           NEW e \in Daemon
    PROVE  Writable(MemoryOf(cfg'[e]), made'[e])
BY DEF SaysInv, Typed

\* A call on section s makes no key of another one, and none without a name.
LEMMA BecomesWritable ==
    ASSUME SaysInv, NEW d \in Daemon, NEW c, Agrees(c), NEW s \in Section, Becomes(d, c, s),
           \A i \in Item : MemoryOf(c).view[i] # Missing =>
             MemoryOf(cfg[d]).view[i] # Missing \/ (i[1] = s /\ s # Global),
           NEW e \in Daemon
    PROVE  Writable(MemoryOf(cfg'[e]), made'[e])
<1>. DEFINE out == IF c.secs[s].here THEN Listing(made[d], s) ELSE made[d]
<1>1. Writable(MemoryOf(cfg[d]), made[d])
  BY DEF SaysInv
<1>2. ASSUME ~c.secs[s].here, NEW i \in Item, i[1] = s PROVE MemoryOf(c).view[i] = Missing
  <2>1. ~c.ents[i].here
    BY <1>2 DEF Agrees, EntryAgrees
  <2>. QED
    BY <2>1 DEF MemoryOf, Lookup, Configured
<1>3. out = Listing(made[d], s)
        \/ (out = made[d] /\ \A i \in Item : i[1] = s => MemoryOf(c).view[i] = Missing)
  BY <1>2
<1>4. Writable(MemoryOf(c), out)
  <2>. HIDE DEF out
  <2>. QED
    BY <1>1, <1>3, ListedWritable
<1>. QED
  BY <1>4, ChangeWritable DEF Becomes

\* What the operations of ConfigMemory add.
LEMMA MapAdds ==
    ASSUME NEW m \in Memory, NEW j \in Item
    PROVE  /\ \A v : \A i \in Item : i # j => SetIn(m, j, v).view[i] = m.view[i]
           /\ \A i \in Item : UnsetIn(m, j).view[i] # Missing => m.view[i] # Missing
           /\ \A s : \A i \in Item : RemoveIn(m, s).view[i] # Missing => m.view[i] # Missing
<1>1. m.view \in [Item -> Value \cup {Missing}]
  BY DEF Memory, Contents
<1>. QED
  BY <1>1 DEF SetIn, UnsetIn, RemoveIn

\* No step makes a list that cannot be written anew.
LEMMA NextWritable ==
    ASSUME SaysInv, [Next]_vars, NEW e \in Daemon
    PROVE  Writable(MemoryOf(cfg'[e]), made'[e])
<1>. DEFINE V == Value \cup {Missing}
<1>1. ASSUME NEW d \in camera.daemons
      PROVE  /\ d \in Daemon /\ cfg[d] \in ConfigOf(V) /\ Agrees(cfg[d])
             /\ MemoryOf(cfg[d]) \in Memory /\ Writable(MemoryOf(cfg[d]), made[d])
  BY ConfigAssumption, MemoriesTyped DEF SaysInv, Typed
<1>2. ASSUME NEW i \in camera.items PROVE i \in Item /\ i[1] \in Section
  BY ConfigAssumption DEF SaysInv, Typed, Item
<1>3. ASSUME NEW v \in camera.values PROVE v \in V /\ v # Missing
  BY ConfigAssumption, MissingAssumption DEF SaysInv, Typed
<1>4. Default \in V
  BY ConfigAssumption
<1>. HIDE DEF V
<1>5. ASSUME NEW d \in camera.daemons, Start(d) PROVE Writable(MemoryOf(cfg'[e]), made'[e])
  <2>1. text \in Seq(Line) /\ Unheaded(text)
    BY <1>5 DEF Start, SaysInv
  <2>2. MemoryOf(Parsed(Load(text))) = Loaded(Load(text))
    BY ParsedMemory DEF Load
  <2>3. Writable(Loaded(Load(text)), LoadOrder(text))
    BY <2>1, LoadWritable
  <2>. QED
    BY <1>5, <2>2, <2>3, ChangeWritable DEF Start
<1>6. ASSUME NEW d \in camera.daemons, NEW i \in camera.items, GetStored(d, i)
      PROVE  Writable(MemoryOf(cfg'[e]), made'[e])
  <2>1. /\ MemoryOf(Get(cfg[d], i, Default)) = MemoryOf(cfg[d])
        /\ Agrees(Get(cfg[d], i, Default))
    BY <1>1, <1>2, <1>4, GetMemory, GetAgrees
  <2>. QED
    BY <1>1, <1>2, <1>6, <2>1, BecomesWritable DEF GetStored
<1>7. ASSUME NEW d \in camera.daemons, NEW i \in camera.items, NEW v \in camera.values,
             SetStored(d, i, v)
      PROVE  Writable(MemoryOf(cfg'[e]), made'[e])
  <2>1. /\ MemoryOf(SetStr(cfg[d], i, v)) = SetIn(MemoryOf(cfg[d]), i, v)
        /\ Agrees(SetStr(cfg[d], i, v))
    BY <1>1, <1>2, <1>3, SetMemory, SetAgrees
  <2>2. \A j \in Item : j # i => SetIn(MemoryOf(cfg[d]), i, v).view[j] = MemoryOf(cfg[d]).view[j]
    BY <1>1, <1>2, MapAdds
  <2>. QED
    BY <1>1, <1>2, <1>7, <2>1, <2>2, BecomesWritable DEF SetStored
<1>8. ASSUME NEW d \in camera.daemons, NEW i \in camera.items, Unset(d, i)
      PROVE  Writable(MemoryOf(cfg'[e]), made'[e])
  <2>1. /\ MemoryOf(UnsetKey(cfg[d], i)) = UnsetIn(MemoryOf(cfg[d]), i)
        /\ Agrees(UnsetKey(cfg[d], i))
    BY <1>1, <1>2, <1>8, UnsetMemory, UnsetAgrees DEF Unset
  <2>2. \A j \in Item : UnsetIn(MemoryOf(cfg[d]), i).view[j] # Missing =>
          MemoryOf(cfg[d]).view[j] # Missing
    BY <1>1, <1>2, MapAdds
  <2>. QED
    BY <1>1, <1>2, <1>8, <2>1, <2>2, BecomesWritable DEF Unset
<1>9. ASSUME NEW d \in camera.daemons, NEW i \in camera.items, RemoveSection(d, i[1])
      PROVE  Writable(MemoryOf(cfg'[e]), made'[e])
  <2>1. /\ MemoryOf(DropSection(cfg[d], i[1])) = RemoveIn(MemoryOf(cfg[d]), i[1])
        /\ Agrees(DropSection(cfg[d], i[1]))
    BY <1>1, <1>2, <1>9, DropMemory, DropAgrees DEF RemoveSection
  <2>2. \A j \in Item : RemoveIn(MemoryOf(cfg[d]), i[1]).view[j] # Missing =>
          MemoryOf(cfg[d]).view[j] # Missing
    BY <1>1, <1>2, MapAdds
  <2>. QED
    BY <1>1, <1>2, <1>9, <2>1, <2>2, BecomesWritable DEF RemoveSection
<1>10. ASSUME NEW d \in camera.daemons, Save(d) PROVE Writable(MemoryOf(cfg'[e]), made'[e])
  <2>1. MemoryOf(Clean(cfg[d])) = Settled(MemoryOf(cfg[d]))
    BY <1>1, CleanMemory
  <2>2. Writable(Settled(MemoryOf(cfg[d])), made[d])
    BY <1>1 DEF Writable, Settled, Loaded
  <2>3. made' = [made EXCEPT ![d] = made[d]]
    BY <1>1, <1>10 DEF Save, SaysInv
  <2>4. cfg' = [cfg EXCEPT ![d] = Clean(cfg[d])]
    BY <1>10 DEF Save
  <2>5. Writable(MemoryOf(Clean(cfg[d])), made[d])
    BY <2>1, <2>2
  <2>. QED
    BY <2>3, <2>4, <2>5, ChangeWritable
<1>11. ASSUME NEW d \in camera.daemons, Stop(d) PROVE Writable(MemoryOf(cfg'[e]), made'[e])
  <2>1. Writable(MemoryOf(NoConfig), <<>>)
    BY NoConfigMemory, NothingWritable
  <2>. QED
    BY <1>11, <2>1, ChangeWritable DEF Stop
<1>12. CASE Delete \/ UNCHANGED vars
  BY <1>12 DEF Delete, vars, SaysInv
<1>. QED
  BY <1>5, <1>6, <1>7, <1>8, <1>9, <1>10, <1>11, <1>12 DEF Next

\* A step keeps all of it.
LEMMA NextSays == ASSUME SaysInv, [Next]_vars PROVE SaysInv'
<1>1. Typed(Value \cup {Missing})'
  <2>1. text # NoFile => \A i \in Item : Load(text)[i] \in Value \cup {Missing}
    BY LoadTyped DEF SaysInv, Contents
  <2>. QED
    BY <2>1, StepTyped DEF SaysInv
<1>2. text' = NoFile \/ (text' \in Seq(Line) /\ Unheaded(text'))
  <2>1. CASE UNCHANGED text
    BY <2>1 DEF SaysInv
  <2>2. CASE Delete
    BY <2>2 DEF Delete
  <2>3. ASSUME NEW d \in camera.daemons, Save(d) PROVE text' \in Seq(Line) /\ Unheaded(text')
    <3>1. d \in Daemon
      BY ConfigAssumption DEF SaysInv, Typed
    <3>. QED
      BY <2>3, <3>1, SavedReads DEF Save
  <2>. QED
    BY <2>1, <2>2, <2>3
       DEF Next, vars, Start, GetStored, SetStored, Unset, RemoveSection, Becomes, Stop
<1>3. PlainCameras'
  BY DEF SaysInv, PlainCameras
<1>4. ASSUME NEW d \in Daemon \ up' PROVE cfg'[d] = NoConfig
  <2>1. d \in up => cfg'[d] = NoConfig
    BY <1>4 DEF Next, vars, Start, GetStored, SetStored, Unset, RemoveSection, Becomes, Save, Stop,
       Delete, SaysInv, Typed
  <2>2. d \notin up => cfg'[d] = cfg[d] /\ cfg[d] = NoConfig
    BY <1>4 DEF Next, vars, Start, GetStored, SetStored, Unset, RemoveSection, Becomes, Save, Stop,
       Delete, SaysInv, Typed
  <2>. QED
    BY <2>1, <2>2
<1>5. made' = [d \in Daemon |-> made'[d]]
  BY DEF Next, vars, Start, GetStored, SetStored, Unset, RemoveSection, Becomes, Save, Stop,
     Delete, SaysInv
<1>. QED
  BY <1>1, <1>2, <1>3, <1>4, <1>5, NextPlain, NextWritable DEF SaysInv

\* What a step does to one daemon's configuration it does to its map.
LEMMA MapMoves ==
    ASSUME NEW V, Typed(V), NEW d \in Daemon, NEW c, cfg' = [cfg EXCEPT ![d] = c]
    PROVE  SharedMem' = [SharedMem EXCEPT ![d] = MemoryOf(c)]
BY DEF Typed, SharedMem

\* A change of the flags is a change of the map, or of nothing it shows.
LEMMA ChangeRefines ==
    ASSUME SaysInv, NEW d \in camera.daemons, NEW i \in camera.items,
           \/ GetStored(d, i)
           \/ \E v \in camera.values : SetStored(d, i, v)
           \/ Unset(d, i)
           \/ RemoveSection(d, i[1])
    PROVE  Shared!Change(d) \/ UNCHANGED Shared!vars
<1>. DEFINE V == Value \cup {Missing}
            m == MemoryOf(cfg[d])
<1>1. /\ d \in Daemon /\ i \in Item /\ i[1] \in Section /\ Default \in V
      /\ cfg[d] \in ConfigOf(V) /\ Agrees(cfg[d]) /\ Typed(V)
  BY ConfigAssumption DEF SaysInv, Typed, Item
<1>2. SharedMem[d] = m /\ SharedMem = [SharedMem EXCEPT ![d] = m]
  BY <1>1 DEF SharedMem
<1>. HIDE DEF V, m
<1>3. ASSUME NEW c, NEW s, Becomes(d, c, s)
      PROVE  /\ SharedMem' = [SharedMem EXCEPT ![d] = MemoryOf(c)]
             /\ d \in up /\ FileSays' = FileSays /\ up' = up
  BY <1>1, <1>3, MapMoves DEF Becomes, FileSays
<1>4. CASE GetStored(d, i)
  <2>1. MemoryOf(Get(cfg[d], i, Default)) = m
    BY <1>1, GetMemory DEF m
  <2>. QED
    BY <1>2, <1>3, <1>4, <2>1 DEF GetStored, Shared!vars
<1>5. ASSUME NEW v \in camera.values, SetStored(d, i, v) PROVE Shared!Change(d)
  <2>1. v \in Value /\ v \in V /\ i[1] # Global
    BY <1>1, <1>5, ConfigAssumption DEF SetStored, Typed, V
  <2>2. MemoryOf(SetStr(cfg[d], i, v)) = SetIn(m, i, v)
    BY <1>1, <2>1, SetMemory DEF m
  <2>3. SetIn(m, i, v) = Shared!SetIn(m, i, v)
    BY DEF SetIn, Shared!SetIn
  <2>. QED
    BY <1>1, <1>2, <1>3, <1>5, <2>1, <2>2, <2>3 DEF SetStored, Shared!Change, Item, Shared!Item
<1>6. CASE Unset(d, i)
  <2>1. MemoryOf(UnsetKey(cfg[d], i)) = UnsetIn(m, i) /\ m.view[i] # Missing
    BY <1>1, <1>6, UnsetMemory DEF Unset, m
  <2>2. UnsetIn(m, i) = Shared!UnsetIn(m, i)
    BY DEF UnsetIn, Shared!UnsetIn
  <2>. QED
    BY <1>1, <1>2, <1>3, <1>6, <2>1, <2>2 DEF Unset, Shared!Change, Item, Shared!Item
<1>7. CASE RemoveSection(d, i[1])
  <2>1. MemoryOf(DropSection(cfg[d], i[1])) = RemoveIn(m, i[1]) /\ i[1] # Global
    BY <1>1, <1>7, DropMemory DEF RemoveSection, CanRemove, m
  <2>2. RemoveIn(m, i[1]) = Shared!RemoveIn(m, i[1])
    BY DEF RemoveIn, Shared!RemoveIn, Item, Shared!Item
  <2>. QED
    BY <1>1, <1>2, <1>3, <1>7, <2>1, <2>2 DEF RemoveSection, Shared!Change
<1>. QED
  BY <1>4, <1>5, <1>6, <1>7

\* An initial state is one of SharedConfig.
LEMMA RefinesInit == Init => Shared!Init
<1>. SUFFICES ASSUME Init PROVE Shared!Init
  OBVIOUS
<1>1. FileSays \in Contents
  <2>1. text \in Seq(Line) /\ text # NoFile
    BY ConfigAssumption DEF Init
  <2>. QED
    BY <2>1, LoadTyped DEF FileSays
<1>2. SharedMem = [d \in Daemon |-> Loaded(EmptyContents)]
  BY NoConfigMemory DEF Init, SharedMem
<1>. QED
  BY <1>1, <1>2 DEF Init, Shared!Init, Contents, Shared!Contents, Item, Shared!Item,
     Loaded, Shared!Loaded, EmptyContents, Shared!EmptyContents

\* A step of a daemon is one of SharedConfig, or none.
LEMMA StepRefines ==
    ASSUME SaysInv, Next
    PROVE  [Shared!Next]_Shared!vars
<1>. DEFINE V == Value \cup {Missing}
<1>0. Typed(V) /\ \A d \in camera.daemons : d \in Daemon
  BY ConfigAssumption DEF SaysInv, Typed
<1>. HIDE DEF V
<1>1. ASSUME NEW d \in camera.daemons, Start(d) PROVE Shared!Start(d)
  <2>1. FileSays # NoFile /\ FileSays = Load(text) /\ FileSays' = FileSays
    BY <1>1, FileIsTyped DEF Start, FileSays
  <2>2. MemoryOf(Parsed(Load(text))) = Loaded(FileSays)
    BY <2>1, ParsedMemory DEF Load
  <2>3. SharedMem' = [SharedMem EXCEPT ![d] = Loaded(FileSays)]
    BY <1>0, <1>1, <2>2, MapMoves DEF Start
  <2>. QED
    BY <1>1, <2>1, <2>3 DEF Start, Shared!Start, Loaded, Shared!Loaded
<1>2. ASSUME NEW d \in camera.daemons, Save(d) PROVE Shared!Commit(d)
  <2>1. d \in Daemon /\ SharedMem[d] = MemoryOf(cfg[d]) /\ cfg[d] \in ConfigOf(V)
    BY <1>0 DEF SharedMem, Typed
  <2>2. FileSays' = IF FileSays = NoFile THEN SharedMem[d].view
                    ELSE Overlay(FileSays, SharedMem[d])
    BY <1>2, <2>1, SavesAreRead DEF SavesReadBack
  <2>3. MemoryOf(Clean(cfg[d])) = Settled(SharedMem[d])
    BY <2>1, CleanMemory
  <2>4. SharedMem' = [SharedMem EXCEPT ![d] = Settled(SharedMem[d])]
    BY <1>0, <1>2, <2>1, <2>3, MapMoves DEF Save
  <2>. QED
    BY <1>2, <2>2, <2>4 DEF Save, Shared!Commit, Overlay, Shared!Overlay, Item, Shared!Item,
       Settled, Shared!Settled, Loaded, Shared!Loaded
<1>3. ASSUME NEW d \in camera.daemons, Stop(d) PROVE Shared!Stop(d)
  <2>1. SharedMem' = [SharedMem EXCEPT ![d] = Loaded(EmptyContents)]
    BY <1>0, <1>3, MapMoves, NoConfigMemory DEF Stop
  <2>. QED
    BY <1>3, <2>1 DEF Stop, FileSays, Shared!Stop, Loaded, Shared!Loaded,
       EmptyContents, Shared!EmptyContents, Item, Shared!Item
<1>4. CASE Delete
  BY <1>4 DEF Delete, FileSays, SharedMem, Shared!Next, Shared!Delete
<1>. QED
  BY <1>0, <1>1, <1>2, <1>3, <1>4, ChangeRefines DEF Next, Shared!Next

\* rss_config's lists and the lines of a file implement the map that daemons
\* share, for cameras whose daemons set no value with " #" inside and not "",
\* and whose file has no header "[]" at first.
THEOREM FlagsAndLinesRefine == PlainCameras /\ Spec => SharedSpec
<1>1. SaysInv /\ [Next]_vars => SaysInv'
  BY NextSays
<1>2. SaysInv /\ [Next]_vars => [Shared!Next]_Shared!vars
  <2>1. CASE UNCHANGED vars
    BY <2>1 DEF vars, Shared!vars, FileSays, SharedMem
  <2>. QED
    BY <2>1, StepRefines
<1>. QED
  BY <1>1, <1>2, InitSays, RefinesInit, PTL DEF Spec, SharedSpec, Shared!Spec

\* A save clears what was owed, and no other step does.
LEMMA OnlySavesSave ==
    ASSUME SaysInv, [Next]_vars, NEW d \in Daemon, Saves(d)
    PROVE  text' = Surgical(text, MemoryOf(cfg[d]))
<1>. DEFINE V == Value \cup {Missing}
            m == MemoryOf(cfg[d])
<1>1. /\ cfg[d] \in ConfigOf(V) /\ Agrees(cfg[d]) /\ Default \in V /\ Typed(V)
      /\ IsDirty(cfg[d]) /\ cfg'[d] = Clean(cfg[d]) /\ text # NoFile /\ d \in up'
  BY ConfigAssumption DEF SaysInv, Typed, Saves
<1>2. HasDirty(m) /\ ~HasDirty(MemoryOf(cfg'[d]))
  <2>1. HasDirty(m)
    BY <1>1, DirtyIsOwed
  <2>2. MemoryOf(Clean(cfg[d])) = Settled(m)
    BY <1>1, CleanMemory
  <2>. QED
    BY <1>1, <2>1, <2>2 DEF HasDirty, Settled, Loaded
<1>3. cfg'[d] # cfg[d]
  BY <1>2
<1>4. ASSUME NEW e \in camera.daemons PROVE e \in Daemon
  BY ConfigAssumption DEF SaysInv, Typed
<1>5. ASSUME NEW i \in camera.items PROVE i \in Item /\ i[1] \in Section
  BY ConfigAssumption DEF SaysInv, Typed, Item
<1>6. ASSUME NEW v \in camera.values PROVE v \in V
  BY ConfigAssumption DEF SaysInv, Typed
<1>. HIDE DEF V, m
<1>7. ASSUME NEW e, NEW c, cfg' = [cfg EXCEPT ![e] = c] PROVE e = d /\ cfg'[d] = c
  BY <1>1, <1>3, <1>7 DEF Typed
<1>8. ASSUME NEW e \in camera.daemons, Start(e) PROVE FALSE
  <2>1. d \notin up
    BY <1>7, <1>8 DEF Start
  <2>2. cfg[d] = NoConfig
    BY <2>1 DEF SaysInv
  <2>. QED
    BY <1>2, <2>2, NoConfigMemory DEF HasDirty, Loaded, m
<1>9. ASSUME NEW e \in camera.daemons, NEW i \in camera.items, GetStored(e, i) PROVE FALSE
  <2>1. cfg'[d] = Get(cfg[d], i, Default)
    BY <1>7, <1>9 DEF GetStored, Becomes
  <2>2. MemoryOf(cfg'[d]) = m
    BY <1>1, <1>5, <2>1, GetMemory DEF m
  <2>. QED
    BY <1>2, <2>2
<1>10. ASSUME NEW e \in camera.daemons, NEW i \in camera.items, NEW v \in camera.values,
              SetStored(e, i, v)
       PROVE  FALSE
  <2>1. cfg'[d] = SetStr(cfg[d], i, v)
    BY <1>7, <1>10 DEF SetStored, Becomes
  <2>2. MemoryOf(cfg'[d]) = SetIn(m, i, v)
    BY <1>1, <1>5, <1>6, <2>1, SetMemory DEF m
  <2>. QED
    BY <1>2, <2>2 DEF HasDirty, SetIn
<1>11. ASSUME NEW e \in camera.daemons, NEW i \in camera.items, Unset(e, i) PROVE FALSE
  <2>1. cfg'[d] = UnsetKey(cfg[d], i) /\ CanUnset(cfg[d], i)
    BY <1>7, <1>11 DEF Unset, Becomes
  <2>2. MemoryOf(cfg'[d]) = UnsetIn(m, i)
    BY <1>1, <1>5, <2>1, UnsetMemory DEF m
  <2>. QED
    BY <1>2, <2>2 DEF HasDirty, UnsetIn
<1>12. ASSUME NEW e \in camera.daemons, NEW i \in camera.items, RemoveSection(e, i[1])
       PROVE  FALSE
  <2>1. cfg'[d] = DropSection(cfg[d], i[1])
    BY <1>7, <1>12 DEF RemoveSection, Becomes
  <2>2. MemoryOf(cfg'[d]) = RemoveIn(m, i[1])
    BY <1>1, <1>5, <2>1, DropMemory DEF m
  <2>. QED
    BY <1>2, <2>2 DEF HasDirty, RemoveIn
<1>13. ASSUME NEW e \in camera.daemons, Save(e) PROVE text' = Surgical(text, m)
  <2>1. e = d
    BY <1>7, <1>13 DEF Save
  <2>. QED
    BY <1>1, <1>13, <2>1 DEF Save, SavedText, m
<1>14. ASSUME NEW e \in camera.daemons, Stop(e) PROVE FALSE
  <2>1. d \notin up'
    BY <1>7, <1>14 DEF Stop
  <2>. QED
    BY <1>1, <2>1
<1>15. ~Delete /\ ~UNCHANGED vars
  BY <1>3 DEF Delete, vars
<1>. QED
  BY <1>8, <1>9, <1>10, <1>11, <1>12, <1>13, <1>14, <1>15 DEF Next, m

\* A save leaves every line it does not own -- comments, other sections, keys
\* of other daemons -- in its section and in its order, for cameras whose
\* daemons set no value with " #" inside and not "", and whose file has no
\* header "[]" at first.
THEOREM SavesKeepOthers == PlainCameras /\ Spec => SaveKeepsOthers
<1>. DEFINE Kept == \A d \in Daemon : Saves(d) =>
              Others(text', MemoryOf(cfg[d]), Known(text)) =
                Others(text, MemoryOf(cfg[d]), Known(text))
<1>1. SaysInv /\ [Next]_vars => SaysInv'
  BY NextSays
<1>2. SaysInv /\ [Next]_vars => Kept
  <2>. SUFFICES ASSUME SaysInv, [Next]_vars, NEW d \in Daemon, Saves(d)
                PROVE  Others(text', MemoryOf(cfg[d]), Known(text)) =
                         Others(text, MemoryOf(cfg[d]), Known(text))
    OBVIOUS
  <2>1. text' = Surgical(text, MemoryOf(cfg[d]))
    BY OnlySavesSave
  <2>2. text \in Seq(Line) /\ Puttable(MemoryOf(cfg[d]))
    BY SavesPuttable DEF SaysInv, Saves
  <2>. QED
    BY <2>1, <2>2, EditKeepsOthers
<1>3. PlainCameras /\ Init => SaysInv
  BY InitSays
<1>. QED
  BY <1>1, <1>2, <1>3, PTL DEF Spec, SaveKeepsOthers
=============================================================================
