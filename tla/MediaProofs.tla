----------------------------- MODULE MediaProofs -----------------------------
(* The time lines of a streaming daemon.  First the packets, the counters   *)
(* and the clock of the MPEG-TS muxer, for frames and buffers of any size,  *)
(* any modulus of the counters and any lead; then the media clock (Media),  *)
(* for any ring of buckets, filter and slew.  Both count modulo a constant  *)
(* and share the lemmas on remainders and on finite sets.                   *)
EXTENDS TsMux, SequenceTheorems, FiniteSetTheorems, WellFoundedInduction, TLAPS

-----------------------------------------------------------------------------
(* Arithmetic.                                                             *)

\* There is a least one in every set of naturals.
LEMMA Least ==
    ASSUME NEW T \in SUBSET Nat, T # {}
    PROVE  \E x \in T : \A y \in T : x <= y
<1>1. PICK R : IsWellFoundedOn(R, Nat) /\ \A x, y \in Nat : <<y, x>> \in R <=> y < x
  <2>. DEFINE R == OpToRel(<, Nat)
  <2>1. IsWellFoundedOn(R, Nat)
    BY NatLessThanWellFounded
  <2>2. \A x, y \in Nat : <<y, x>> \in R <=> y < x
    BY DEF OpToRel
  <2>. HIDE DEF R
  <2>. QED
    BY <2>1, <2>2
<1>2. PICK x \in T : \A y \in T : ~ (<<y, x>> \in R)
  BY <1>1, WFMin
<1>3. ASSUME NEW y \in T PROVE x <= y
  <2>1. x \in Nat /\ y \in Nat
    OBVIOUS
  <2>2. ~ (y < x)
    BY <1>1, <1>2, <2>1, Zenon
  <2>. QED
    BY <2>1, <2>2
<1>. QED
  BY <1>3

LEMMA MaxOfInterval == ASSUME NEW n \in Nat, n > 0 PROVE Max(1..n) = n
<1>. DEFINE P(x) == x \in 1..n /\ \A y \in 1..n : x >= y
            c == CHOOSE x : P(x)
<1>1. P(n)
  OBVIOUS
<1>2. Max(1..n) = c
  BY DEF Max
<1>3. P(n) => P(c)
  <2>. HIDE DEF P
  <2>. QED
    BY Zenon
<1>. HIDE DEF c
<1>. QED
  BY <1>1, <1>2, <1>3

LEMMA MinOfTwo ==
    ASSUME NEW a \in Int, NEW b \in Int
    PROVE  Min({a, b}) = IF a <= b THEN a ELSE b
<1>. DEFINE P(x) == x \in {a, b} /\ \A y \in {a, b} : x <= y
            l == IF a <= b THEN a ELSE b
            c == CHOOSE x : P(x)
<1>1. P(l)
  OBVIOUS
<1>2. Min({a, b}) = c
  BY DEF Min
<1>3. P(l) => P(c)
  <2>. HIDE DEF P, l
  <2>. QED
    BY Zenon
<1>. HIDE DEF c
<1>. QED
  BY <1>1, <1>2, <1>3

\* A remainder is the only one of its class.
LEMMA OneRemainder ==
    ASSUME NEW m \in Nat \ {0}, NEW q \in Nat, NEW r \in 0..(m - 1)
    PROVE  (q * m + r) % m = r
<1>. DEFINE a == q * m + r
            p == a \div m
            s == a % m
<1>1. a \in Nat /\ p \in Int /\ s \in 0..(m - 1) /\ a = m * p + s
  OBVIOUS
<1>. HIDE DEF p, s
<1>2. CASE p < q
  <2>1. m * (p + 1) <= m * q
    BY <1>1, <1>2
  <2>. QED
    BY <1>1, <2>1
<1>3. CASE p > q
  <2>1. m * (q + 1) <= m * p
    BY <1>1, <1>3
  <2>. QED
    BY <1>1, <2>1
<1>4. CASE p = q
  BY <1>1, <1>4
<1>. QED
  BY <1>1, <1>2, <1>3, <1>4 DEF s

\* The remainder of a slot and a part of the ring.
LEMMA Around ==
    ASSUME NEW m \in Nat \ {0}, NEW x \in 0..(2 * m - 1)
    PROVE  x % m = IF x < m THEN x ELSE x - m
<1>1. CASE x < m
  <2>1. (0 * m + x) % m = x
    BY <1>1, OneRemainder
  <2>. QED
    BY <1>1, <2>1
<1>2. CASE x >= m
  <2>1. x - m \in 0..(m - 1)
    BY <1>2
  <2>2. (1 * m + (x - m)) % m = x - m
    BY <2>1, OneRemainder
  <2>. QED
    BY <1>2, <2>2
<1>. QED
  BY <1>1, <1>2

LEMMA NextRemainder ==
    ASSUME NEW m \in Nat, m > 1, NEW a \in Nat
    PROVE  /\ a % m \in 0..(m - 1)
           /\ ((a % m) + 1) % m = (a + 1) % m
           /\ a < m => a % m = a
<1>. DEFINE q == a \div m
            r == a % m
<1>1. q \in Nat /\ r \in 0..(m - 1) /\ a = q * m + r
  OBVIOUS
<1>. HIDE DEF q, r
<1>2. CASE r + 1 < m
  <2>1. (0 * m + (r + 1)) % m = r + 1 /\ (q * m + (r + 1)) % m = r + 1
    BY <1>1, <1>2, OneRemainder
  <2>. QED
    BY <1>1, <2>1 DEF r
<1>3. CASE r + 1 = m
  <2>1. (1 * m + 0) % m = 0 /\ ((q + 1) * m + 0) % m = 0
    BY <1>1, OneRemainder
  <2>2. (q + 1) * m + 0 = a + 1 /\ 1 * m + 0 = r + 1
    BY <1>1, <1>3
  <2>. QED
    BY <1>1, <2>1, <2>2 DEF r
<1>4. a < m => (0 * m + a) % m = a
  BY OneRemainder
<1>. QED
  BY <1>1, <1>2, <1>3, <1>4 DEF r

LEMMA Product ==
    ASSUME NEW a \in Nat, NEW b \in Nat, a <= b, NEW w \in Nat
    PROVE  /\ a * w \in Nat /\ a * w <= b * w
           /\ (a + 1) * w = a * w + w
OBVIOUS

\* A set of packets that has, with each one, all those before it.
LEMMA Prefix ==
    ASSUME NEW room \in Nat, NEW S \in SUBSET (1..room),
           \A k \in S : 1..k \subseteq S
    PROVE  \E n \in 0..room : S = 1..n
<1>. DEFINE n == Cardinality(S)
<1>1. IsFiniteSet(1..room) /\ Cardinality(1..room) = room
  BY FS_Interval
<1>2. IsFiniteSet(S) /\ n <= room /\ n \in Nat
  <2>1. IsFiniteSet(S) /\ Cardinality(S) <= Cardinality(1..room)
    BY <1>1, FS_Subset
  <2>2. n \in Nat
    BY <2>1, FS_CardinalityType
  <2>. QED
    BY <1>1, <2>1, <2>2
<1>3. ASSUME NEW k \in S PROVE k <= n
  <2>1. k \in Nat /\ Cardinality(1..k) = k
    BY FS_Interval
  <2>2. Cardinality(1..k) <= n
    BY <1>2, FS_Subset
  <2>. QED
    BY <2>1, <2>2
<1>4. S \subseteq 1..n
  BY <1>2, <1>3
<1>5. IsFiniteSet(1..n) /\ Cardinality(1..n) = n
  BY <1>2, FS_Interval
<1>6. S = 1..n
  BY <1>4, <1>5, FS_Subset
<1>. QED
  BY <1>2, <1>6

-----------------------------------------------------------------------------
(* The packets of a PES packet.                                            *)

LEMMA FieldRange ==
    ASSUME NEW hasPcr \in BOOLEAN, NEW rai \in BOOLEAN
    PROVE  FieldSize(hasPcr, rai) \in 0..8 /\ (hasPcr => FieldSize(hasPcr, rai) = 8)
BY DEF FieldSize

\* A packet starts where the one before it is full.
LEMMA FromSpace ==
    ASSUME NEW field \in 0..8, NEW k \in Nat \ {0}
    PROVE  /\ From(field, k) \in Nat
           /\ Space(field, k) \in Nat \ {0}
           /\ From(field, k + 1) = From(field, k) + Space(field, k)
           /\ \A j \in 1..k : From(field, j) <= From(field, k)
<1>. DEFINE w == PacketSize - 4
<1>0. w \in Nat /\ w - 8 > 0
  BY SizeAssumption
<1>1. /\ Space(field, 1) = w - field
      /\ \A j \in Nat \ {0} : j # 1 => Space(field, j) = w
      /\ Space(field, 2) = w
  BY SizeAssumption DEF Space
<1>. HIDE DEF w
<1>2. /\ From(field, 1) = 0
      /\ \A j \in Nat \ {0} : j # 1 => From(field, j) = w - field + (j - 2) * w
  BY <1>1 DEF From
<1>3. CASE k = 1
  BY <1>0, <1>1, <1>2, <1>3
<1>4. CASE k # 1
  <2>1. /\ (k - 2) * w \in Nat /\ (k - 2 + 1) * w = (k - 2) * w + w
        /\ k - 2 + 1 = k + 1 - 2
    BY <1>0, <1>4, Product
  <2>2. ASSUME NEW j \in 1..k PROVE From(field, j) <= From(field, k)
    <3>1. CASE j = 1
      BY <1>0, <1>2, <1>4, <2>1, <3>1
    <3>2. CASE j # 1
      <4>1. (j - 2) * w <= (k - 2) * w /\ (j - 2) * w \in Nat
        BY <1>0, <1>4, <3>2, Product
      <4>. QED
        BY <1>0, <1>2, <1>4, <2>1, <3>2, <4>1
    <3>. QED
      BY <3>1, <3>2
  <2>. QED
    BY <1>0, <1>1, <1>2, <1>4, <2>1, <2>2
<1>. QED
  BY <1>3, <1>4

\* The packets of a call are 1 to n, and n is what the buffer has room for
\* unless the bytes end before.
LEMMA PesDomain ==
    ASSUME NEW pid, NEW total \in Nat \ {0}, NEW pcr, NEW rai \in BOOLEAN, NEW room \in Nat
    PROVE  \E n \in 0..room :
             /\ DOMAIN PesPackets(pid, total, pcr, rai, room) = 1..n
             /\ n < room => From(FieldSize(pcr # NoPcr, rai), n + 1) >= total
<1>. DEFINE field == FieldSize(pcr # NoPcr, rai)
            S == {j \in 1..room : From(field, j) < total}
<1>1. field \in 0..8
  BY FieldRange
<1>. HIDE DEF field
<1>. DEFINE Starts(j) == From(field, j)
<1>2. ASSUME NEW k \in S PROVE 1..k \subseteq S
  <2>1. k \in Nat \ {0} /\ k <= room /\ Starts(k) < total
    OBVIOUS
  <2>2. Starts(k) \in Nat /\ \A j \in 1..k : Starts(j) <= Starts(k)
    BY <1>1, <2>1, FromSpace
  <2>3. ASSUME NEW j \in 1..k PROVE Starts(j) \in Nat
    <3>1. j \in Nat \ {0}
      BY <2>1
    <3>. QED
      BY <1>1, <3>1, FromSpace
  <2>. HIDE DEF Starts
  <2>4. \A j \in 1..k : j \in 1..room /\ Starts(j) < total
    BY <2>1, <2>2, <2>3
  <2>. QED
    BY <2>4 DEF Starts
<1>3. S \in SUBSET (1..room)
  OBVIOUS
<1>4. PICK n \in 0..room : S = 1..n
  <2>. HIDE DEF S
  <2>. QED
    BY <1>2, <1>3, Prefix
<1>5. n < room => From(field, n + 1) >= total
  <2>. SUFFICES ASSUME n < room PROVE From(field, n + 1) >= total
    OBVIOUS
  <2>1. n + 1 \in 1..room /\ n + 1 \notin 1..n /\ n + 1 \in Nat \ {0}
    OBVIOUS
  <2>2. From(field, n + 1) \in Nat
    BY <1>1, <2>1, FromSpace
  <2>. QED
    BY <1>4, <2>1, <2>2
<1>6. DOMAIN PesPackets(pid, total, pcr, rai, room) = S
  BY DEF PesPackets, field
<1>. QED
  BY <1>4, <1>5, <1>6 DEF field

\* The fields of the k-th packet of a PES packet of total bytes.
IsPacket(p, k, pid, total, pcr, field, room) ==
    LET take == p.to - p.from
        size == PacketSize - 4 - take
    IN  /\ k \in 1..room /\ From(field, k) < total
        /\ p.pid = pid /\ (p.unit_start <=> k = 1)
        /\ p.cc = (cc[pid] + k - 1) % CcModulus
        /\ p.from = From(field, k)
        /\ p.to \in Nat
        /\ take = IF Space(field, k) <= total - From(field, k)
                  THEN Space(field, k) ELSE total - From(field, k)
        /\ p.adapted <=> size > 0
        /\ p.af_len = IF size > 0 THEN size - 1 ELSE 0
        /\ p.pcr = IF k = 1 THEN pcr ELSE NoPcr

LEMMA PesPacket ==
    ASSUME NEW pid, NEW total \in Nat \ {0}, NEW pcr, NEW rai \in BOOLEAN, NEW room \in Nat,
           NEW k \in DOMAIN PesPackets(pid, total, pcr, rai, room)
    PROVE  IsPacket(PesPackets(pid, total, pcr, rai, room)[k], k, pid, total, pcr,
                    FieldSize(pcr # NoPcr, rai), room)
<1>. DEFINE p == PesPackets(pid, total, pcr, rai, room)[k]
            field == FieldSize(pcr # NoPcr, rai)
            first == IF k = 1 THEN field ELSE 0
            bytes == IF Space(field, k) <= total - From(field, k)
                     THEN Space(field, k) ELSE total - From(field, k)
            size == first + Space(field, k) - bytes
<1>1. field \in 0..8
  BY FieldRange
<1>2. k \in 1..room /\ From(field, k) < total /\ k \in Nat \ {0}
  BY DEF PesPackets
<1>. HIDE DEF field
<1>3. /\ From(field, k) \in Nat /\ Space(field, k) \in Nat \ {0}
      /\ first \in Nat /\ first + Space(field, k) = PacketSize - 4
  <2>1. From(field, k) \in Nat /\ Space(field, k) \in Nat \ {0}
    BY <1>1, <1>2, FromSpace
  <2>2. Space(field, k) = PacketSize - 4 - first
    BY DEF Space
  <2>3. first \in 0..8
    BY <1>1
  <2>. HIDE DEF first
  <2>. QED
    BY <2>1, <2>2, <2>3, SizeAssumption
<1>4. bytes \in Nat /\ Min({Space(field, k), total - From(field, k)}) = bytes
  BY <1>2, <1>3, MinOfTwo
<1>. HIDE DEF bytes
<1>5. p = Packet(pid, k = 1, size, (cc[pid] + k - 1) % CcModulus,
                 IF k = 1 THEN pcr ELSE NoPcr, k = 1 /\ rai,
                 From(field, k), From(field, k) + bytes)
  BY <1>4 DEF PesPackets, field
<1>. HIDE DEF p, size, first
<1>6. /\ p.pid = pid /\ p.unit_start = (k = 1)
      /\ p.cc = (cc[pid] + k - 1) % CcModulus
      /\ p.from = From(field, k) /\ p.to = From(field, k) + bytes
      /\ p.adapted = (size > 0) /\ p.af_len = IF size > 0 THEN size - 1 ELSE 0
      /\ p.pcr = IF k = 1 THEN pcr ELSE NoPcr
  BY <1>5 DEF Packet
<1>7. p.to - p.from = bytes /\ p.to \in Nat /\ size = PacketSize - 4 - bytes
  BY <1>3, <1>4, <1>6, SizeAssumption DEF size
<1>. QED
  BY <1>2, <1>6, <1>7 DEF p, field, bytes, IsPacket

-----------------------------------------------------------------------------
(* The counters.                                                           *)

\* The next packet of a pid has the counter after the last one that was seen.
CountersInv ==
    /\ cc \in [Pid -> 0..(CcModulus - 1)]
    /\ shown \in [Pid -> 0..CcModulus]
    /\ \A p \in Pid : shown[p] = CcModulus \/ cc[p] = (shown[p] + 1) % CcModulus

LEMMA CountersNumbers ==
    ASSUME CountersInv, NEW p \in Pid
    PROVE  /\ cc[p] \in Nat /\ cc[p] < CcModulus
           /\ (cc[p] + 0) % CcModulus = cc[p]
<1>1. cc[p] \in Nat /\ cc[p] < CcModulus
  BY CcAssumption DEF CountersInv
<1>2. cc[p] % CcModulus = cc[p]
  BY <1>1, CcAssumption, NextRemainder
<1>. QED
  BY <1>1, <1>2

\* What a call does to the counters, by the packets of each pid it writes.
LEMMA SentCounters ==
    ASSUME CountersInv, NEW packets, NEW total, NEW room, Sent(packets, total, room),
           \A p \in Pid :
             LET mine == {k \in DOMAIN packets : packets[k].pid = p} IN
             \/ mine = {}
             \/ /\ Cardinality(mine) \in Nat
                /\ packets[Max(mine)].cc = (cc[p] + Cardinality(mine) - 1) % CcModulus
                /\ Cardinality(mine) > 0
    PROVE  CountersInv'
<1>. DEFINE mine(p) == {k \in DOMAIN packets : packets[k].pid = p}
            n(p) == Cardinality(mine(p))
            last(p) == packets[Max(mine(p))].cc
<1>1. /\ cc' = [p \in Pid |-> (cc[p] + n(p)) % CcModulus]
      /\ shown' = [p \in Pid |-> IF mine(p) = {} THEN shown[p] ELSE last(p)]
  BY DEF Sent, Counted
<1>2. \A p \in Pid : mine(p) = {} => n(p) = 0
  BY FS_EmptySet
<1>3. ASSUME NEW p \in Pid
      PROVE  \/ mine(p) = {}
             \/ n(p) \in Nat /\ n(p) > 0 /\ last(p) = (cc[p] + n(p) - 1) % CcModulus
  OBVIOUS
<1>. HIDE DEF mine, n, last
<1>4. ASSUME NEW p \in Pid
      PROVE  /\ cc'[p] \in 0..(CcModulus - 1) /\ shown'[p] \in 0..CcModulus
             /\ shown'[p] = CcModulus \/ cc'[p] = (shown'[p] + 1) % CcModulus
  <2>1. CASE mine(p) = {}
    <3>1. cc'[p] = cc[p] /\ shown'[p] = shown[p]
      BY <1>1, <1>2, <2>1, CountersNumbers
    <3>. QED
      BY <3>1 DEF CountersInv
  <2>2. CASE mine(p) # {}
    <3>. DEFINE a == cc[p] + n(p) - 1
    <3>1. n(p) \in Nat /\ n(p) > 0 /\ last(p) = a % CcModulus /\ cc[p] \in Nat
      BY <1>3, <2>2, CountersNumbers
    <3>2. a \in Nat /\ cc[p] + n(p) = a + 1
      BY <3>1
    <3>. DEFINE r == a % CcModulus
                s == (a + 1) % CcModulus
    <3>3. cc'[p] = s /\ shown'[p] = r
      BY <1>1, <2>2, <3>1, <3>2
    <3>. HIDE DEF a
    <3>4. (r + 1) % CcModulus = s /\ r \in 0..(CcModulus - 1)
      BY <3>2, CcAssumption, NextRemainder
    <3>5. s \in 0..(CcModulus - 1)
      BY <3>2, CcAssumption, NextRemainder
    <3>. HIDE DEF r, s
    <3>6. r \in 0..CcModulus
      BY <3>4, CcAssumption
    <3>. QED
      BY <3>3, <3>4, <3>5, <3>6, Zenon
  <2>. QED
    BY <2>1, <2>2
<1>. QED
  BY <1>1, <1>4 DEF CountersInv

\* CountersContinue, of the packets of a call and what was seen before.
Continues(packets, seen) ==
    \A k \in DOMAIN packets :
        LET pid    == packets[k].pid
            prior  == {j \in 1..(k - 1) : packets[j].pid = pid}
            before == IF prior = {} THEN seen[pid] ELSE packets[Max(prior)].cc
        IN  before = CcModulus \/ packets[k].cc = (before + 1) % CcModulus

LEMMA SentContinues ==
    ASSUME NEW packets, NEW total, NEW room, Sent(packets, total, room),
           Continues(packets, shown)
    PROVE  CountersContinue'
<1>1. out'.packets = packets /\ out'.before = shown
  BY DEF Sent
<1>2. Continues(out.packets, out.before)'
  BY <1>1
<1>. QED
  BY <1>2, Zenon DEF Continues, CountersContinue

\* The packets of one PES packet.
LEMMA PesCounters ==
    ASSUME CountersInv, NEW pid \in Pid, NEW total \in Nat \ {0}, NEW pcr, NEW rai \in BOOLEAN,
           NEW room \in Nat,
           Sent(PesPackets(pid, total, pcr, rai, room), total, room)
    PROVE  CountersInv' /\ CountersContinue'
<1>. DEFINE packets == PesPackets(pid, total, pcr, rai, room)
<1>1. PICK n \in 0..room : DOMAIN packets = 1..n
  BY PesDomain
<1>2. ASSUME NEW k \in 1..n
      PROVE  packets[k].pid = pid /\ packets[k].cc = (cc[pid] + k - 1) % CcModulus
  <2>1. k \in DOMAIN packets
    BY <1>1
  <2>2. IsPacket(packets[k], k, pid, total, pcr, FieldSize(pcr # NoPcr, rai), room)
    BY <2>1, PesPacket
  <2>. QED
    BY <2>2 DEF IsPacket
<1>. HIDE DEF packets
<1>3. CountersInv'
  <2>1. ASSUME NEW p \in Pid
        PROVE  LET mine == {k \in DOMAIN packets : packets[k].pid = p} IN
               \/ mine = {}
               \/ /\ Cardinality(mine) \in Nat
                  /\ packets[Max(mine)].cc = (cc[p] + Cardinality(mine) - 1) % CcModulus
                  /\ Cardinality(mine) > 0
    <3>. DEFINE mine == {k \in DOMAIN packets : packets[k].pid = p}
    <3>1. CASE p # pid \/ n = 0
      BY <1>1, <1>2, <3>1
    <3>2. CASE p = pid /\ n # 0
      <4>1. mine = 1..n
        BY <1>1, <1>2, <3>2
      <4>2. n \in Nat /\ n > 0 /\ n \in 1..n
        BY <3>2
      <4>3. Cardinality(1..n) = n /\ Max(1..n) = n
        BY <4>2, FS_Interval, MaxOfInterval
      <4>4. packets[n].cc = (cc[pid] + n - 1) % CcModulus
        BY <1>2, <4>2
      <4>. HIDE DEF mine
      <4>. QED
        BY <3>2, <4>1, <4>2, <4>3, <4>4 DEF mine
    <3>. QED
      BY <3>1, <3>2
  <2>. QED
    BY <2>1, SentCounters DEF packets
<1>4. ASSUME NEW k \in 1..n
      PROVE  LET prior  == {j \in 1..(k - 1) : packets[j].pid = packets[k].pid}
                 before == IF prior = {} THEN shown[packets[k].pid] ELSE packets[Max(prior)].cc
             IN  before = CcModulus \/ packets[k].cc = (before + 1) % CcModulus
  <2>. DEFINE prior == {j \in 1..(k - 1) : packets[j].pid = packets[k].pid}
  <2>1. packets[k].pid = pid /\ prior = 1..(k - 1) /\ k \in Nat
    BY <1>2
  <2>2. cc[pid] \in Nat /\ (cc[pid] + 0) % CcModulus = cc[pid]
    BY CountersNumbers
  <2>. HIDE DEF prior
  <2>3. CASE k = 1
    <3>1. packets[k].cc = cc[pid] /\ prior = {}
      BY <1>2, <2>1, <2>2, <2>3
    <3>2. shown[pid] = CcModulus \/ cc[pid] = (shown[pid] + 1) % CcModulus
      BY DEF CountersInv
    <3>. QED
      BY <2>1, <3>1, <3>2 DEF prior
  <2>4. CASE k # 1
    <3>. DEFINE a == cc[pid] + (k - 1) - 1
    <3>1. a \in Nat /\ cc[pid] + k - 1 = a + 1 /\ k - 1 \in 1..n /\ k - 1 \in Nat /\ k - 1 > 0
      BY <2>1, <2>2, <2>4
    <3>2. packets[k - 1].cc = a % CcModulus /\ packets[k].cc = (a + 1) % CcModulus
      BY <1>2, <3>1
    <3>. HIDE DEF a
    <3>3. ((a % CcModulus) + 1) % CcModulus = (a + 1) % CcModulus
      BY <3>1, CcAssumption, NextRemainder
    <3>4. Max(prior) = k - 1
      BY <2>1, <3>1, MaxOfInterval
    <3>5. prior # {}
      <4>1. k - 1 \in 1..(k - 1)
        BY <3>1
      <4>. QED
        BY <2>1, <4>1
    <3>. QED
      BY <3>2, <3>3, <3>4, <3>5 DEF prior
  <2>. QED
    BY <2>3, <2>4
<1>5. Continues(packets, shown)
  BY <1>1, <1>4 DEF Continues
<1>. QED
  BY <1>3, <1>5, SentContinues DEF packets

LEMMA MaxOfOne == ASSUME NEW n \in Nat PROVE Max({n}) = n
BY DEF Max

\* A PAT and a PMT.
LEMMA TablesCounters ==
    ASSUME CountersInv, NEW total, NEW room, Sent(<<Section("pat"), Section("pmt")>>, total, room)
    PROVE  CountersInv' /\ CountersContinue'
<1>. DEFINE packets == <<Section("pat"), Section("pmt")>>
<1>1. /\ DOMAIN packets = {1, 2}
      /\ packets[1].pid = "pat" /\ packets[1].cc = cc["pat"]
      /\ packets[2].pid = "pmt" /\ packets[2].cc = cc["pmt"]
  BY DEF Section, Packet
<1>. HIDE DEF packets
<1>3. ASSUME NEW p \in Pid
      PROVE  LET mine == {k \in DOMAIN packets : packets[k].pid = p} IN
             \/ mine = {}
             \/ /\ Cardinality(mine) \in Nat
                /\ packets[Max(mine)].cc = (cc[p] + Cardinality(mine) - 1) % CcModulus
                /\ Cardinality(mine) > 0
  <2>. DEFINE mine == {k \in DOMAIN packets : packets[k].pid = p}
  <2>0. cc[p] \in Nat /\ (cc[p] + 1 - 1) % CcModulus = cc[p]
    BY CountersNumbers
  <2>1. CASE p = "pat"
    <3>1. mine = {1}
      BY <1>1, <2>1
    <3>2. Cardinality(mine) = 1 /\ Max(mine) = 1
      BY <3>1, FS_Singleton, MaxOfOne
    <3>. HIDE DEF mine
    <3>. QED
      BY <1>1, <2>0, <2>1, <3>2 DEF mine
  <2>2. CASE p = "pmt"
    <3>1. mine = {2}
      BY <1>1, <2>2
    <3>2. Cardinality(mine) = 1 /\ Max(mine) = 2
      BY <3>1, FS_Singleton, MaxOfOne
    <3>. HIDE DEF mine
    <3>. QED
      BY <1>1, <2>0, <2>2, <3>2 DEF mine
  <2>3. CASE p \notin {"pat", "pmt"}
    BY <1>1, <2>3
  <2>. QED
    BY <2>1, <2>2, <2>3
<1>4. CountersInv'
  BY <1>3, SentCounters DEF packets
<1>5. Continues(packets, shown)
  <2>1. ASSUME NEW p \in Pid PROVE shown[p] = CcModulus \/ cc[p] = (shown[p] + 1) % CcModulus
    BY DEF CountersInv
  <2>2. "pat" \in Pid /\ "pmt" \in Pid
    BY DEF Pid
  <2>3. /\ {j \in 1..(1 - 1) : packets[j].pid = packets[1].pid} = {}
        /\ {j \in 1..(2 - 1) : packets[j].pid = packets[2].pid} = {}
    BY <1>1
  <2>. QED
    BY <1>1, <2>1, <2>2, <2>3 DEF Continues
<1>. QED
  BY <1>4, <1>5, SentContinues DEF packets

-----------------------------------------------------------------------------
(* Reassembly.                                                             *)

LEMMA LenOfPackets ==
    ASSUME NEW n \in Nat, NEW packets, packets = [k \in 1..n |-> packets[k]]
    PROVE  Len(packets) = n
<1>. DEFINE T == {packets[k] : k \in 1..n}
<1>1. packets \in [1..n -> T]
  OBVIOUS
<1>. HIDE DEF T
<1>2. packets \in Seq(T)
  BY <1>1, SeqDef
<1>3. Len(packets) \in Nat /\ 1..Len(packets) = 1..n
  BY <1>1, <1>2, LenProperties
<1>4. Cardinality(1..Len(packets)) = Len(packets) /\ Cardinality(1..n) = n
  BY <1>3, FS_Interval
<1>. QED
  BY <1>3, <1>4

\* PacketsReassemble, of the packets of a call.
Reassembles(pes, total, room) ==
    \A k \in DOMAIN pes : pes[k].pid \in {"video", "audio"} =>
        /\ Received(pes[k]) = pes[k].to - pes[k].from
        /\ pes[k].from = IF k = 1 THEN 0 ELSE pes[k - 1].to
        /\ pes[k].unit_start <=> k = 1
        /\ pes[k].pcr # NoPcr => pes[k].adapted /\ pes[k].af_len >= 7
        /\ k = Len(pes) => pes[k].to = total \/ k = room

LEMMA SentReassembles ==
    ASSUME NEW packets, NEW total, NEW room, Sent(packets, total, room),
           Reassembles(packets, total, room)
    PROVE  PacketsReassemble'
<1>1. out'.packets = packets /\ out'.total = total /\ out'.room = room
  BY DEF Sent
<1>2. Reassembles(out.packets, out.total, out.room)'
  BY <1>1
<1>. QED
  BY <1>2, Zenon DEF Reassembles, PacketsReassemble

\* What the header of one packet says of its payload.
LEMMA PacketReceived ==
    ASSUME NEW p, NEW k, NEW pid, NEW total \in Nat \ {0}, NEW pcr, NEW field \in 0..8,
           NEW room \in Nat, IsPacket(p, k, pid, total, pcr, field, room),
           pcr # NoPcr => field = 8
    PROVE  /\ Received(p) = p.to - p.from
           /\ p.unit_start <=> k = 1
           /\ p.pcr # NoPcr => p.adapted /\ p.af_len >= 7
           /\ p.from \in Nat /\ p.to \in Nat
           /\ From(field, k + 1) < total => p.to = From(field, k + 1)
           /\ From(field, k + 1) >= total => p.to = total
<1>. DEFINE take == p.to - p.from
            size == PacketSize - 4 - take
            free == Space(field, k)
            left == total - From(field, k)
<1>1. /\ k \in Nat \ {0} /\ From(field, k) < total /\ (p.unit_start <=> k = 1)
      /\ p.from = From(field, k) /\ p.to \in Nat
      /\ take = IF free <= left THEN free ELSE left
      /\ (p.adapted <=> size > 0) /\ p.af_len = IF size > 0 THEN size - 1 ELSE 0
      /\ p.pcr = IF k = 1 THEN pcr ELSE NoPcr
  BY DEF IsPacket
<1>2. /\ From(field, k) \in Nat /\ free \in Nat \ {0}
      /\ From(field, k + 1) = From(field, k) + free
  BY <1>1, FromSpace
<1>3. free = PacketSize - 4 - (IF k = 1 THEN field ELSE 0)
  BY DEF Space
<1>4. left \in Nat /\ take \in Nat /\ p.to = From(field, k) + take
  BY <1>1, <1>2
<1>. HIDE DEF take, free, left
<1>5. take <= PacketSize - 4 /\ (p.pcr # NoPcr => size >= 8)
  BY <1>1, <1>3, <1>4, SizeAssumption
<1>6. size \in Nat
  BY <1>4, <1>5, SizeAssumption
<1>. HIDE DEF size
<1>7. Received(p) = take
  <2>1. take = PacketSize - 4 - size
    BY <1>4, <1>6, SizeAssumption DEF size
  <2>2. CASE size > 0
    BY <1>1, <1>4, <1>6, <2>1, <2>2, SizeAssumption DEF Received
  <2>3. CASE size = 0
    BY <1>1, <1>4, <1>6, <2>1, <2>3, SizeAssumption DEF Received
  <2>. QED
    BY <1>6, <2>2, <2>3
<1>8. p.pcr # NoPcr => p.adapted /\ p.af_len >= 7
  BY <1>1, <1>5, <1>6
<1>9. /\ From(field, k + 1) < total => p.to = From(field, k + 1)
      /\ From(field, k + 1) >= total => p.to = total
  BY <1>1, <1>2, <1>4 DEF left
<1>10. From(field, k + 1) \in Nat
  BY <1>2
<1>. QED
  BY <1>1, <1>2, <1>7, <1>8, <1>9, <1>10 DEF take

LEMMA PesReassembles ==
    ASSUME NEW pid, NEW total \in Nat \ {0}, NEW pcr, NEW rai \in BOOLEAN, NEW room \in Nat
    PROVE  Reassembles(PesPackets(pid, total, pcr, rai, room), total, room)
<1>. DEFINE pes == PesPackets(pid, total, pcr, rai, room)
            field == FieldSize(pcr # NoPcr, rai)
<1>1. field \in 0..8 /\ (pcr # NoPcr => field = 8)
  BY FieldRange
<1>2. PICK n \in 0..room :
        DOMAIN pes = 1..n /\ (n < room => From(field, n + 1) >= total)
  BY PesDomain
<1>3. Len(pes) = n
  <2>1. pes = [k \in 1..n |-> pes[k]]
    BY <1>2 DEF PesPackets
  <2>. HIDE DEF pes
  <2>. QED
    BY <2>1, LenOfPackets
<1>4. ASSUME NEW k \in 1..n PROVE IsPacket(pes[k], k, pid, total, pcr, field, room)
  BY <1>2, <1>4, PesPacket
<1>. HIDE DEF pes, field
<1>5. ASSUME NEW k \in 1..n
      PROVE  /\ Received(pes[k]) = pes[k].to - pes[k].from
             /\ pes[k].from = IF k = 1 THEN 0 ELSE pes[k - 1].to
             /\ pes[k].unit_start <=> k = 1
             /\ pes[k].pcr # NoPcr => pes[k].adapted /\ pes[k].af_len >= 7
             /\ k = n => pes[k].to = total \/ k = room
  <2>1. /\ Received(pes[k]) = pes[k].to - pes[k].from
        /\ pes[k].unit_start <=> k = 1
        /\ pes[k].pcr # NoPcr => pes[k].adapted /\ pes[k].af_len >= 7
        /\ From(field, k + 1) >= total => pes[k].to = total
    BY <1>1, <1>4, PacketReceived
  <2>2. pes[k].from = From(field, k) /\ From(field, k) < total
    BY <1>4 DEF IsPacket
  <2>3. CASE k = 1
    BY <1>2, <2>1, <2>2, <2>3 DEF From
  <2>4. CASE k # 1
    <3>1. k - 1 \in 1..n /\ k - 1 + 1 = k
      BY <2>4
    <3>2. IsPacket(pes[k - 1], k - 1, pid, total, pcr, field, room)
      BY <1>4, <3>1
    <3>3. From(field, k - 1 + 1) < total => pes[k - 1].to = From(field, k - 1 + 1)
      BY <1>1, <3>2, PacketReceived
    <3>. QED
      BY <1>2, <2>1, <2>2, <2>4, <3>1, <3>3
  <2>. QED
    BY <2>3, <2>4
<1>6. Reassembles(pes, total, room)
  BY <1>2, <1>3, <1>5 DEF Reassembles
<1>. QED
  BY <1>6 DEF pes

-----------------------------------------------------------------------------
(* The clock.                                                              *)

\* A timeline that counts has a frame, and the clock is near its DTS.
ClockInv ==
    /\ last_pcr \in Nat /\ counting \in BOOLEAN /\ dts \in Nat \cup {Fresh}
    /\ counting => dts # Fresh
    /\ PcrLeadsDts

\* The PCR of the next frame, and the DTS it goes with.
LEMMA ClockNext ==
    ASSUME ClockInv, NEW t \in NextDts
    PROVE  /\ t \in Nat /\ Clock(t) \in Nat
           /\ Clock(t) <= t /\ t - Clock(t) <= Lead
           /\ dts # Fresh /\ (counting \/ last_pcr + Lead = dts) => Clock(t) > last_pcr
<1>1. Lead \in Nat
  BY LeadAssumption
<1>2. CASE dts = Fresh
  <2>1. t \in Nat /\ ~counting
    BY <1>2, InputAssumption DEF ClockInv, NextDts
  <2>2. Clock(t) = IF t > Lead THEN t - Lead ELSE 0
    BY <2>1 DEF Clock
  <2>. QED
    BY <1>1, <1>2, <2>1, <2>2
<1>3. CASE dts # Fresh
  <2>1. dts \in Nat /\ last_pcr \in Nat /\ last_pcr <= dts /\ dts - last_pcr <= Lead
    BY <1>3 DEF ClockInv, PcrLeadsDts
  <2>2. PICK gap \in Nat \ {0} : t = dts + gap
    BY <1>3, InputAssumption DEF NextDts
  <2>. QED
    BY <1>1, <2>1, <2>2 DEF Clock
<1>. QED
  BY <1>2, <1>3

-----------------------------------------------------------------------------
(* The invariant.                                                          *)

Inv == CountersInv /\ ClockInv /\ CountersContinue /\ PacketsReassemble

LEMMA InitInv == Init => Inv
<1>. SUFFICES ASSUME Init PROVE Inv
  OBVIOUS
<1>1. CountersInv
  BY CcAssumption DEF Init, CountersInv
<1>2. ClockInv
  BY DEF Init, ClockInv, PcrLeadsDts
<1>3. DOMAIN out.packets = {}
  BY DEF Init
<1>. QED
  BY <1>1, <1>2, <1>3 DEF Inv, CountersContinue, PacketsReassemble

LEMMA PatPmtInv ==
    ASSUME Inv, NEW room \in Rooms, WritePatPmt(room)
    PROVE  CountersInv' /\ CountersContinue' /\ PacketsReassemble'
<1>. DEFINE packets == <<Section("pat"), Section("pmt")>>
            total == 2 * (PacketSize - 4)
<1>1. Sent(packets, total, room)
  BY DEF WritePatPmt
<1>2. CountersInv' /\ CountersContinue'
  BY <1>1, TablesCounters DEF Inv
<1>3. Reassembles(packets, total, room)
  <2>1. \A k \in DOMAIN packets : packets[k].pid \in {"pat", "pmt"}
    BY DEF Section, Packet
  <2>. HIDE DEF packets
  <2>. QED
    BY <2>1 DEF Reassembles
<1>4. PacketsReassemble'
  BY <1>1, <1>3, SentReassembles
<1>. QED
  BY <1>2, <1>4

LEMMA NextInv == ASSUME Inv, [Next]_vars PROVE Inv'
<1>1. ASSUME NEW room \in Rooms, WritePatPmt(room), dts' \in {dts, Fresh} PROVE Inv'
  <2>1. ClockInv'
    BY <1>1 DEF Inv, WritePatPmt, ClockInv, PcrLeadsDts
  <2>. QED
    BY <1>1, <2>1, PatPmtInv DEF Inv
<1>2. CASE WriteVideo
  <2>1. PICK len \in Lengths, t \in NextDts, room \in Rooms, has_dts, is_idr \in BOOLEAN :
          LET total == (IF has_dts THEN 19 ELSE 14) + len
          IN  /\ t <= MaxTime
              /\ dts' = t
              /\ last_pcr' = Clock(t)
              /\ counting' = TRUE
              /\ Sent(PesPackets("video", total, Clock(t), is_idr, room), total, room)
    BY <1>2 DEF WriteVideo
  <2>. DEFINE total == (IF has_dts THEN 19 ELSE 14) + len
  <2>2. total \in Nat \ {0} /\ room \in Nat /\ "video" \in Pid
    BY InputAssumption DEF Pid
  <2>3. t \in Nat /\ Clock(t) \in Nat /\ Clock(t) <= t /\ t - Clock(t) <= Lead
    BY ClockNext DEF Inv
  <2>. HIDE DEF total
  <2>4. /\ dts' = t /\ last_pcr' = Clock(t) /\ counting' = TRUE
        /\ Sent(PesPackets("video", total, Clock(t), is_idr, room), total, room)
    BY <2>1 DEF total
  <2>5. ClockInv'
    BY <2>3, <2>4, InputAssumption DEF ClockInv, PcrLeadsDts
  <2>6. CountersInv' /\ CountersContinue'
    BY <2>2, <2>4, PesCounters DEF Inv
  <2>7. PacketsReassemble'
    <3>1. Reassembles(PesPackets("video", total, Clock(t), is_idr, room), total, room)
      BY <2>2, PesReassembles
    <3>. QED
      BY <2>4, <3>1, SentReassembles
  <2>. QED
    BY <2>5, <2>6, <2>7 DEF Inv
<1>3. CASE WriteAudio
  <2>1. PICK len \in Lengths, room \in Rooms :
          Sent(PesPackets("audio", 14 + len, NoPcr, FALSE, room), 14 + len, room)
    BY <1>3 DEF WriteAudio
  <2>2. 14 + len \in Nat \ {0} /\ room \in Nat /\ "audio" \in Pid
    BY InputAssumption DEF Pid
  <2>3. ClockInv'
    BY <1>3 DEF WriteAudio, Inv, ClockInv, PcrLeadsDts
  <2>4. CountersInv' /\ CountersContinue'
    BY <2>1, <2>2, PesCounters DEF Inv
  <2>5. Reassembles(PesPackets("audio", 14 + len, NoPcr, FALSE, room), 14 + len, room)
    BY <2>2, PesReassembles
  <2>6. PacketsReassemble'
    BY <2>1, <2>5, SentReassembles
  <2>. QED
    BY <2>3, <2>4, <2>6 DEF Inv
<1>4. CASE UNCHANGED vars
  <2>1. /\ cc' = cc /\ shown' = shown /\ out' = out
        /\ last_pcr' = last_pcr /\ counting' = counting /\ dts' = dts
    BY <1>4 DEF vars, mux
  <2>2. CountersInv'
    BY <2>1 DEF Inv, CountersInv
  <2>3. ClockInv'
    BY <2>1 DEF Inv, ClockInv, PcrLeadsDts
  <2>4. CountersContinue'
    BY <2>1 DEF Inv, CountersContinue
  <2>5. PacketsReassemble'
    BY <2>1 DEF Inv, PacketsReassemble
  <2>. QED
    BY <2>2, <2>3, <2>4, <2>5 DEF Inv
<1>5. RepeatTables \/ Rebase => \E room \in Rooms : WritePatPmt(room) /\ dts' \in {dts, Fresh}
  BY DEF RepeatTables, Rebase
<1>. QED
  BY <1>1, <1>2, <1>3, <1>4, <1>5 DEF Next

LEMMA Invariance == Spec => []Inv
<1>1. Inv /\ [Next]_vars => Inv'
  BY NextInv
<1>. QED
  BY <1>1, InitInv, PTL DEF Spec

\* No receiver ever sees a gap or a repetition in the counter of a pid that
\* start_ts_packet steps, whatever tables, video and audio follow each other
\* and however early a buffer ends a frame.
THEOREM NoCounterGap == Spec => []CountersContinue
<1>1. Inv => CountersContinue
  BY DEF Inv
<1>. QED
  BY <1>1, Invariance, PTL

\* What a receiver puts together from the headers write_pes_packets writes is
\* the PES packet from its first byte on, for frames and buffers of any size,
\* and the field that has the PCR has room for it.
THEOREM FramesReassemble == Spec => []PacketsReassemble
<1>1. Inv => PacketsReassemble
  BY DEF Inv
<1>. QED
  BY <1>1, Invariance, PTL

\* The clock of rss_ts_write_video stays within the lead of the DTS, over any
\* number of timelines that start anywhere, and goes on from each frame to the
\* next one of its timeline, if no tables came between them or if it has left
\* the head of the timeline.
THEOREM ClockIsKept == Spec => ClockHolds
<1>1. Inv => PcrLeadsDts
  BY DEF Inv, ClockInv
<1>2. Inv /\ [Next]_vars =>
        [/\ dts # Fresh /\ dts' \notin {dts, Fresh}
         /\ counting \/ last_pcr + Lead = dts
         => last_pcr' > last_pcr]_vars
  <2>. SUFFICES ASSUME Inv, Next, dts # Fresh, dts' \notin {dts, Fresh},
                       counting \/ last_pcr + Lead = dts
                PROVE  last_pcr' > last_pcr
    BY DEF vars, mux
  <2>1. WriteVideo
    BY DEF Next, RepeatTables, Rebase, WriteAudio
  <2>2. PICK t \in NextDts : last_pcr' = Clock(t)
    BY <2>1 DEF WriteVideo
  <2>. QED
    BY <2>2, ClockNext DEF Inv
<1>. QED
  BY <1>1, <1>2, Invariance, PTL DEF Spec, ClockHolds, PcrIncreases

-----------------------------------------------------------------------------
(* The media clock: extremes and medians of finite sets.                   *)

\* A finite set has a largest member by f: the one most are not above.
LEMMA Highest ==
    ASSUME NEW B, IsFiniteSet(B), B # {}, NEW f, \A b \in B : f[b] \in Int
    PROVE  \E b \in B : \A c \in B : f[c] <= f[b]
<1>. DEFINE Below(b) == {c \in B : f[c] <= f[b]}
            T == {Cardinality(B) - Cardinality(Below(b)) : b \in B}
<1>1. ASSUME NEW b \in B
      PROVE  /\ IsFiniteSet(Below(b)) /\ Cardinality(Below(b)) \in Nat
             /\ Cardinality(Below(b)) <= Cardinality(B)
  <2>1. Below(b) \in SUBSET B
    OBVIOUS
  <2>2. IsFiniteSet(Below(b)) /\ Cardinality(Below(b)) <= Cardinality(B)
    BY <2>1, FS_Subset
  <2>. QED
    BY <2>2, FS_CardinalityType
<1>2. Cardinality(B) \in Nat
  BY FS_CardinalityType
<1>3. T \in SUBSET Nat /\ T # {}
  <2>. HIDE DEF Below
  <2>. QED
    BY <1>1, <1>2
<1>4. \E n \in T : \A k \in T : n <= k
  BY <1>3, Least
<1>5. PICK b \in B : \A c \in B : Cardinality(Below(c)) <= Cardinality(Below(b))
  <2>. HIDE DEF Below
  <2>1. PICK n \in T : \A k \in T : n <= k
    BY <1>4
  <2>2. PICK b \in B : n = Cardinality(B) - Cardinality(Below(b))
    OBVIOUS
  <2>3. ASSUME NEW c \in B PROVE Cardinality(Below(c)) <= Cardinality(Below(b))
    <3>1. Cardinality(B) - Cardinality(Below(c)) \in T
      OBVIOUS
    <3>2. n <= Cardinality(B) - Cardinality(Below(c))
      BY <2>1, <3>1
    <3>. QED
      BY <1>1, <1>2, <2>2, <3>2
  <2>. QED
    BY <2>3
<1>6. ASSUME NEW c \in B, f[c] > f[b] PROVE FALSE
  <2>1. Below(b) \in SUBSET Below(c) /\ c \in Below(c) /\ c \notin Below(b)
    BY <1>6
  <2>2. /\ Cardinality(Below(b)) <= Cardinality(Below(c))
        /\ Cardinality(Below(c)) = Cardinality(Below(b)) => Below(c) = Below(b)
    BY <1>1, <2>1, FS_Subset
  <2>. HIDE DEF Below
  <2>. QED
    BY <1>1, <1>5, <2>1, <2>2
<1>. QED
  BY <1>6

LEMMA Lowest ==
    ASSUME NEW B, IsFiniteSet(B), B # {}, NEW f, \A b \in B : f[b] \in Int
    PROVE  \E b \in B : \A c \in B : f[b] <= f[c]
<1>. DEFINE g == [b \in B |-> -f[b]]
<1>1. \A b \in B : g[b] = -f[b] /\ g[b] \in Int
  OBVIOUS
<1>. HIDE DEF g
<1>2. \E b \in B : \A c \in B : g[c] <= g[b]
  BY <1>1, Highest
<1>. QED
  BY <1>1, <1>2

\* x is a median of what f has on P, as rss_media_clock takes it.
IsMedian(x, f, P) ==
    /\ Cardinality({b \in P : f[b] < x}) <= Cardinality(P) \div 2
    /\ Cardinality({b \in P : f[b] <= x}) > Cardinality(P) \div 2

\* Half a number, in the only form the provers need.
LEMMA Half ==
    ASSUME NEW n \in Nat, NEW k \in Nat
    PROVE  n \div 2 \in Nat /\ (k > n \div 2 <=> 2 * k > n) /\ (n > 0 => n > n \div 2)
OBVIOUS

LEMMA Parts ==
    ASSUME NEW P, IsFiniteSet(P), NEW S \in SUBSET P
    PROVE  /\ IsFiniteSet(S) /\ Cardinality(S) \in Nat /\ Cardinality(P) \in Nat
           /\ Cardinality(S) <= Cardinality(P)
BY FS_Subset, FS_CardinalityType

LEMMA MedianExists ==
    ASSUME NEW P, IsFiniteSet(P), P # {}, NEW f, \A b \in P : f[b] \in Int
    PROVE  \E b \in P : IsMedian(f[b], f, P)
<1>. DEFINE half == Cardinality(P) \div 2
            Under(x) == {b \in P : f[b] < x}
            UpTo(x)  == {b \in P : f[b] <= x}
            Low == {b \in P : Cardinality(Under(f[b])) <= half}
<1>1. Cardinality(P) \in Nat /\ Cardinality(P) > 0 /\ half \in Nat /\ half < Cardinality(P)
  <2>1. Cardinality(P) \in Nat /\ Cardinality(P) # 0
    BY FS_CardinalityType, FS_EmptySet
  <2>. QED
    BY <2>1, Half
<1>2. Low # {}
  <2>1. PICK b \in P : \A c \in P : f[b] <= f[c]
    BY Lowest
  <2>2. Under(f[b]) = {}
    BY <2>1
  <2>3. Cardinality(Under(f[b])) = 0
    BY <2>2, FS_EmptySet
  <2>. QED
    BY <1>1, <2>3
<1>3. PICK b \in Low : \A c \in Low : f[c] <= f[b]
  <2>1. IsFiniteSet(Low)
    BY FS_Subset
  <2>2. \A c \in Low : f[c] \in Int
    OBVIOUS
  <2>. HIDE DEF Low
  <2>. QED
    BY <1>2, <2>1, <2>2, Highest
<1>4. UpTo(f[b]) \in SUBSET P /\ Cardinality(UpTo(f[b])) \in Nat
  BY Parts
<1>5. ASSUME Cardinality(UpTo(f[b])) <= half PROVE FALSE
  <2>. DEFINE Above == P \ UpTo(f[b])
  <2>1. Above # {}
    <3>1. UpTo(f[b]) # P
      BY <1>1, <1>5
    <3>. QED
      BY <1>4, <3>1
  <2>2. IsFiniteSet(Above) /\ \A c \in Above : f[c] \in Int
    BY FS_Subset
  <2>3. PICK c \in Above : \A d \in Above : f[c] <= f[d]
    <3>. HIDE DEF Above
    <3>. QED
      BY <2>1, <2>2, Lowest
  <2>4. c \in P /\ f[b] < f[c]
    OBVIOUS
  <2>5. Under(f[c]) = UpTo(f[b])
    BY <2>3, <2>4
  <2>6. c \in Low
    BY <1>5, <2>4, <2>5
  <2>. QED
    BY <1>3, <2>4, <2>6
<1>6. Cardinality(UpTo(f[b])) > half
  BY <1>1, <1>4, <1>5
<1>. QED
  BY <1>6 DEF IsMedian

LEMMA OneMedian ==
    ASSUME NEW P, IsFiniteSet(P), NEW f, \A b \in P : f[b] \in Int,
           NEW x \in Int, NEW y \in Int, IsMedian(x, f, P), IsMedian(y, f, P)
    PROVE  x = y
<1>1. ASSUME NEW u \in Int, NEW v \in Int, u < v, IsMedian(u, f, P), IsMedian(v, f, P)
      PROVE  FALSE
  <2>. DEFINE Under == {b \in P : f[b] < v}
              UpTo  == {b \in P : f[b] <= u}
  <2>1. Under \in SUBSET P /\ UpTo \in SUBSET Under
    BY <1>1
  <2>2. /\ IsFiniteSet(Under) /\ Cardinality(Under) \in Nat /\ Cardinality(P) \in Nat
        /\ Cardinality(UpTo) \in Nat /\ Cardinality(UpTo) <= Cardinality(Under)
    BY <2>1, Parts
  <2>3. Cardinality(Under) <= Cardinality(P) \div 2 /\ Cardinality(UpTo) > Cardinality(P) \div 2
    BY <1>1 DEF IsMedian
  <2>4. Cardinality(P) \div 2 \in Nat
    BY <2>2, Half
  <2>. HIDE DEF Under, UpTo
  <2>. QED
    BY <2>2, <2>3, <2>4
<1>. QED
  BY <1>1

\* What more than half of the members have is the median.
LEMMA MostIsMedian ==
    ASSUME NEW P, IsFiniteSet(P), NEW f, \A b \in P : f[b] \in Int, NEW x \in Int,
           2 * Cardinality({b \in P : f[b] = x}) > Cardinality(P)
    PROVE  IsMedian(x, f, P)
<1>. DEFINE Most  == {b \in P : f[b] = x}
            Under == {b \in P : f[b] < x}
            UpTo  == {b \in P : f[b] <= x}
<1>1. /\ Most \in SUBSET P /\ Under \in SUBSET P /\ UpTo \in SUBSET P
      /\ Most \cap Under = {} /\ Most \cup Under = UpTo
  OBVIOUS
<1>2. /\ IsFiniteSet(Most) /\ IsFiniteSet(Under) /\ Cardinality(P) \in Nat
      /\ Cardinality(Most) \in Nat /\ Cardinality(Under) \in Nat
      /\ Cardinality(UpTo) \in Nat /\ Cardinality(UpTo) <= Cardinality(P)
  BY <1>1, Parts
<1>3. Cardinality(UpTo) = Cardinality(Most) + Cardinality(Under)
  <2>1. Cardinality(Most \cup Under) =
            Cardinality(Most) + Cardinality(Under) - Cardinality(Most \cap Under)
    BY <1>2, FS_Union
  <2>2. Cardinality(Most \cap Under) = 0
    BY <1>1, FS_EmptySet
  <2>. HIDE DEF Most, Under, UpTo
  <2>3. Cardinality(UpTo) = Cardinality(Most) + Cardinality(Under) - 0
    BY <1>1, <2>1, <2>2, Zenon
  <2>. QED
    BY <1>2, <2>3
<1>4. 2 * Cardinality(Most) > Cardinality(P)
  OBVIOUS
<1>. HIDE DEF Most
<1>5. /\ Cardinality(Under) <= Cardinality(P) \div 2
      /\ Cardinality(UpTo) > Cardinality(P) \div 2
  <2>. DEFINE half == Cardinality(P) \div 2
  <2>1. half \in Nat /\ 2 * half <= Cardinality(P) /\ Cardinality(P) <= 2 * half + 1
    BY <1>2
  <2>. HIDE DEF Under, UpTo, half
  <2>2. Cardinality(Most) > half
    BY <1>2, <1>4, <2>1
  <2>3. Cardinality(Under) <= half /\ Cardinality(UpTo) > half
    BY <1>2, <1>3, <2>1, <2>2
  <2>. QED
    BY <2>3 DEF half
<1>. QED
  BY <1>5 DEF IsMedian

-----------------------------------------------------------------------------
(* The media clock: its invariant.                                         *)

CONSTANTS Buckets, BucketUs, EwmaDiv, GainDiv, SlewMax, Sample, Tick, Unset

VARIABLES bucket_min_us, bucket, phase, offset_us, err_ewma_us, initialized, steady

Media == INSTANCE MediaClock

\* Before the first frame the window is as rss_media_clock_init left it.
MediaInv ==
    /\ Media!TypeOK
    /\ ~initialized => bucket_min_us = Media!Cleared /\ bucket = 0 /\ phase = 0

\* One operator, by the two ways to it.
LEMMA SameCardinality == ASSUME NEW S PROVE Media!Cardinality(S) = Cardinality(S)
BY Zenon DEF Media!Cardinality, Cardinality

LEMMA TargetIsMedian ==
    ASSUME Media!ClockAssumption, NEW mins, Media!Populated(mins) # {},
           \A b \in Media!Populated(mins) : mins[b] \in Int
    PROVE  /\ IsFiniteSet(Media!Populated(mins))
           /\ Media!Target(mins) \in Int
           /\ IsMedian(Media!Target(mins), mins, Media!Populated(mins))
<1>. DEFINE P == Media!Populated(mins)
            S == {mins[b] : b \in P}
            M(x) == /\ Media!Cardinality({b \in P : mins[b] < x}) <= Media!Cardinality(P) \div 2
                    /\ Media!Cardinality({b \in P : mins[b] <= x}) > Media!Cardinality(P) \div 2
            c == CHOOSE x \in S : M(x)
<1>1. IsFiniteSet(P)
  <2>1. IsFiniteSet(Media!Slot)
    BY FS_Interval DEF Media!ClockAssumption, Media!Slot
  <2>2. P \in SUBSET Media!Slot
    BY DEF Media!Populated
  <2>. QED
    BY <2>1, <2>2, FS_Subset
<1>2. \A x : M(x) <=> IsMedian(x, mins, P)
  BY SameCardinality, Zenon DEF IsMedian
<1>3. Media!Target(mins) = c
  BY Zenon DEF Media!Target
<1>. HIDE DEF M
<1>4. \E x \in S : M(x)
  <2>1. \E b \in P : IsMedian(mins[b], mins, P)
    BY <1>1, MedianExists
  <2>. QED
    BY <1>2, <2>1
<1>5. c \in S /\ M(c)
  <2>. HIDE DEF S
  <2>. QED
    BY <1>4, Zenon
<1>. HIDE DEF c
<1>. QED
  BY <1>1, <1>2, <1>3, <1>5

\* The seconds that have passed when the window has not.
LEMMA Seconds ==
    ASSUME Media!ClockAssumption, NEW k \in Nat
    PROVE  /\ k \div BucketUs \in Nat /\ k % BucketUs \in 0..(BucketUs - 1)
           /\ BucketUs * Buckets = Buckets * BucketUs /\ Buckets * BucketUs \in Nat
           /\ k < Buckets * BucketUs => k \div BucketUs \in 0..(Buckets - 1)
<1>. DEFINE q == k \div BucketUs
            r == k % BucketUs
<1>1. BucketUs \in Nat \ {0} /\ Buckets \in Nat \ {0}
  BY DEF Media!ClockAssumption
<1>2. q \in Nat /\ r \in 0..(BucketUs - 1) /\ k = BucketUs * q + r
  BY <1>1
<1>. HIDE DEF q, r
<1>3. ASSUME q >= Buckets PROVE k >= Buckets * BucketUs
  <2>1. BucketUs * q >= BucketUs * Buckets
    BY <1>1, <1>2, <1>3
  <2>. QED
    BY <1>1, <1>2, <2>1
<1>4. k < Buckets * BucketUs => q < Buckets
  BY <1>1, <1>2, <1>3
<1>. QED
  BY <1>1, <1>2, <1>4 DEF q, r

\* The window of a frame, the minimum of its second not yet taken.
Entered(b, n) == IF b \in Media!Passed(n) THEN Unset ELSE bucket_min_us[b]

\* The window after a frame: anew, or n seconds on.
LEMMA MapWindow ==
    ASSUME Media!ClockAssumption, MediaInv, NEW s \in Sample, NEW t \in Tick, Media!Map(s, t)
    PROVE  LET k == phase + t
               n == k \div BucketUs
           IN  IF k >= Buckets * BucketUs
               THEN /\ bucket' = 0 /\ phase' = 0
                    /\ bucket_min_us' = [b \in Media!Slot |-> IF b = 0 THEN s ELSE Unset]
               ELSE /\ bucket' = (bucket + n) % Buckets /\ phase' = k % BucketUs
                    /\ bucket_min_us' =
                           [b \in Media!Slot |->
                               IF b = bucket' THEN Media!Window!Lower(s, Entered(b, n))
                                              ELSE Entered(b, n)]
<1>. DEFINE k == phase + t
            n == k \div BucketUs
            w == Media!Advanced(k)
<1>1. k \in Nat /\ phase \in Nat /\ Buckets \in Nat \ {0} /\ BucketUs \in Nat \ {0}
  BY DEF Media!ClockAssumption, MediaInv, Media!TypeOK
<1>2. BucketUs * Buckets = Buckets * BucketUs /\ Buckets * BucketUs \in Nat
  BY <1>1
<1>3. /\ bucket' = w.at /\ phase' = w.phase
      /\ bucket_min_us' = [w.mins EXCEPT ![w.at] = IF @ = Unset \/ s < @ THEN s ELSE @]
  <2>1. Media!Counted(w, s) =
            [w EXCEPT !.mins = [w.mins EXCEPT ![w.at] = IF @ = Unset \/ s < @ THEN s ELSE @]]
    BY DEF Media!Counted
  <2>2. /\ bucket' = Media!Counted(w, s).at /\ phase' = Media!Counted(w, s).phase
        /\ bucket_min_us' = Media!Counted(w, s).mins
    BY DEF Media!Map
  <2>3. DOMAIN w = {"mins", "at", "phase"}
    BY DEF Media!Advanced
  <2>. HIDE DEF w
  <2>. QED
    BY <2>1, <2>2, <2>3
<1>4. CASE k >= Buckets * BucketUs
  <2>1. w = [mins |-> Media!Cleared, at |-> 0, phase |-> 0]
    BY <1>1, <1>2, <1>4 DEF Media!Advanced
  <2>. QED
    BY <1>1, <1>3, <1>4, <2>1 DEF Media!Cleared, Media!Slot
<1>5. CASE ~(k >= Buckets * BucketUs)
  <2>1. w = [mins  |-> [b \in Media!Slot |-> IF b \in Media!Passed(n) THEN Unset
                                             ELSE bucket_min_us[b]],
             at    |-> (bucket + n) % Buckets,
             phase |-> k % BucketUs]
    BY <1>1, <1>2, <1>5 DEF Media!Advanced
  <2>. HIDE DEF w
  <2>. QED
    BY <1>1, <1>3, <1>5, <2>1 DEF Entered, Media!Window!Lower
<1>. QED
  BY <1>4, <1>5

LEMMA LowerTyped ==
    ASSUME NEW s \in Sample, NEW m \in Sample \cup {Unset}
    PROVE  Media!Window!Lower(s, m) \in Sample
BY DEF Media!Window!Lower

\* What half a median, and a filter, make of integers.
LEMMA FilterTyped ==
    ASSUME NEW a \in Int, NEW d \in Nat \ {0}
    PROVE  Media!Quotient(a, d) \in Int
BY DEF Media!Quotient

LEMMA MapTyped ==
    ASSUME Media!ClockAssumption, MediaInv, NEW s \in Sample, NEW t \in Tick, Media!Map(s, t)
    PROVE  /\ bucket_min_us' \in [Media!Slot -> Sample \cup {Unset}]
           /\ bucket' \in Media!Slot /\ bucket_min_us'[bucket'] \in Sample
           /\ phase' \in 0..(BucketUs - 1)
           /\ Media!Target(bucket_min_us') \in Int
           /\ offset_us' \in Int /\ err_ewma_us' \in Int
<1>. DEFINE k == phase + t
            n == k \div BucketUs
            P == Media!Populated(bucket_min_us')
<1>1. /\ Buckets \in Nat \ {0} /\ BucketUs \in Nat \ {0} /\ Sample \subseteq Int /\ Unset \notin Int
      /\ EwmaDiv \in Nat \ {0} /\ GainDiv \in Nat \ {0} /\ SlewMax \in Nat \ {0}
  BY DEF Media!ClockAssumption
<1>2. /\ k \in Nat /\ bucket \in 0..(Buckets - 1)
      /\ bucket_min_us \in [Media!Slot -> Sample \cup {Unset}]
      /\ offset_us \in Int /\ err_ewma_us \in Int
  BY DEF Media!ClockAssumption, MediaInv, Media!TypeOK, Media!Slot
<1>3. /\ bucket_min_us' \in [Media!Slot -> Sample \cup {Unset}]
      /\ bucket' \in Media!Slot /\ bucket_min_us'[bucket'] \in Sample
      /\ phase' \in 0..(BucketUs - 1)
  <2>1. CASE k >= Buckets * BucketUs
    BY <1>1, <2>1, MapWindow DEF Media!Slot
  <2>2. CASE ~(k >= Buckets * BucketUs)
    <3>1. n \in Nat /\ k % BucketUs \in 0..(BucketUs - 1)
      BY <1>2, Seconds
    <3>2. (bucket + n) % Buckets \in Media!Slot
      BY <1>1, <1>2, <3>1 DEF Media!Slot
    <3>3. \A b \in Media!Slot : Entered(b, n) \in Sample \cup {Unset}
      BY <1>2 DEF Entered
    <3>. HIDE DEF k, n
    <3>4. /\ bucket' = (bucket + n) % Buckets /\ phase' = k % BucketUs
          /\ bucket_min_us' = [b \in Media!Slot |->
                 IF b = bucket' THEN Media!Window!Lower(s, Entered(b, n)) ELSE Entered(b, n)]
      BY <2>2, MapWindow DEF k, n
    <3>. QED
      BY <3>1, <3>2, <3>3, <3>4, LowerTyped
  <2>. QED
    BY <2>1, <2>2
<1>4. Media!Target(bucket_min_us') \in Int
  <2>1. bucket' \in P /\ \A b \in P : bucket_min_us'[b] \in Int
    BY <1>1, <1>3 DEF Media!Populated
  <2>. QED
    BY <2>1, TargetIsMedian
<1>5. err_ewma_us' \in Int /\ offset_us' \in Int
  <2>. DEFINE err == Media!Target(bucket_min_us') - offset_us
  <2>1. /\ err_ewma_us' = err_ewma_us + Media!Quotient(err - err_ewma_us, EwmaDiv)
        /\ offset_us' = offset_us + Media!Clamp(Media!Quotient(err_ewma_us', GainDiv))
    BY DEF Media!Map, Media!Filtered
  <2>2. err - err_ewma_us \in Int
    BY <1>2, <1>4
  <2>3. err_ewma_us' \in Int
    BY <1>1, <1>2, <2>1, <2>2, FilterTyped
  <2>4. Media!Quotient(err_ewma_us', GainDiv) \in Int
    BY <1>1, <2>3, FilterTyped
  <2>5. Media!Clamp(Media!Quotient(err_ewma_us', GainDiv)) \in Int
    BY <1>1, <2>4 DEF Media!Clamp
  <2>. QED
    BY <1>2, <2>1, <2>3, <2>5
<1>. QED
  BY <1>3, <1>4, <1>5

LEMMA MediaInit == ASSUME Media!ClockAssumption, Media!Init PROVE MediaInv
<1>1. Buckets \in Nat \ {0} /\ BucketUs \in Nat \ {0}
  BY DEF Media!ClockAssumption
<1>2. Media!Cleared \in [Media!Slot -> Sample \cup {Unset}]
  BY DEF Media!Cleared
<1>3. 0 \in Media!Slot /\ 0 \in 0..(BucketUs - 1)
  BY <1>1 DEF Media!Slot
<1>4. Media!TypeOK
  <2>1. bucket_min_us \in [Media!Slot -> Sample \cup {Unset}] /\ bucket \in Media!Slot
    BY <1>2, <1>3 DEF Media!Init
  <2>2. phase \in 0..(BucketUs - 1) /\ offset_us \in Int /\ err_ewma_us \in Int
    BY <1>3 DEF Media!Init
  <2>3. initialized \in BOOLEAN /\ steady \in Sample \cup {Unset}
    BY DEF Media!Init
  <2>. QED
    BY <2>1, <2>2, <2>3, Zenon DEF Media!TypeOK
<1>5. bucket_min_us = Media!Cleared /\ bucket = 0 /\ phase = 0
  BY DEF Media!Init
<1>. QED
  BY <1>4, <1>5 DEF MediaInv

LEMMA MediaNext ==
    ASSUME Media!ClockAssumption, MediaInv, [Media!Next]_(Media!vars)
    PROVE  MediaInv'
<1>1. ASSUME NEW s \in Sample, Media!Frame(s), Media!First(s) PROVE MediaInv'
  <2>1. steady' \in Sample \cup {Unset}
    BY <1>1 DEF Media!Frame, MediaInv, Media!TypeOK
  <2>. QED
    BY <1>1, <2>1
       DEF Media!First, MediaInv, Media!TypeOK, Media!ClockAssumption, Media!Slot
<1>2. ASSUME NEW s \in Sample, NEW t \in Tick, Media!Frame(s), Media!Map(s, t) PROVE MediaInv'
  <2>1. steady' \in Sample \cup {Unset}
    BY <1>2 DEF Media!Frame, MediaInv, Media!TypeOK
  <2>2. initialized' = TRUE
    BY <1>2 DEF Media!Map, MediaInv, Media!TypeOK
  <2>. QED
    BY <1>2, <2>1, <2>2, MapTyped DEF MediaInv, Media!TypeOK
<1>3. CASE UNCHANGED Media!vars
  BY <1>3 DEF Media!vars, Media!window, Media!filter, MediaInv, Media!TypeOK
<1>. QED
  BY <1>1, <1>2, <1>3 DEF Media!Next, Media!Frame

LEMMA MediaInvariance ==
    ASSUME Media!ClockAssumption PROVE Media!Spec => []MediaInv
<1>1. Media!Init => MediaInv
  BY MediaInit
<1>2. MediaInv /\ [Media!Next]_(Media!vars) => MediaInv'
  BY MediaNext
<1>. QED
  BY <1>1, <1>2, PTL DEF Media!Spec

-----------------------------------------------------------------------------
(* The ring is the sliding window.                                         *)

\* Where the ring keeps the b-th of the last seconds.
Place(at, b) == (at + Buckets + 1 - b) % Buckets

LEMMA PlaceIs ==
    ASSUME Buckets \in Nat \ {0}, NEW at \in 0..(Buckets - 1), NEW b \in 1..Buckets
    PROVE  Place(at, b) = IF b <= at + 1 THEN at + 1 - b ELSE at + 1 - b + Buckets
<1>1. at + Buckets + 1 - b \in 0..(2 * Buckets - 1)
  OBVIOUS
<1>. DEFINE x == at + Buckets + 1 - b
<1>2. Place(at, b) = x % Buckets
  BY DEF Place
<1>. HIDE DEF x
<1>3. x % Buckets = IF x < Buckets THEN x ELSE x - Buckets
  BY <1>1, Around DEF x
<1>. QED
  BY <1>2, <1>3 DEF x

\* n seconds on, the first n of them are the slots advance_window has emptied,
\* and each later one stays where it was.
LEMMA PlaceMoves ==
    ASSUME Buckets \in Nat \ {0}, bucket \in 0..(Buckets - 1),
           NEW n \in 0..(Buckets - 1), NEW b \in 1..Buckets
    PROVE  LET at == (bucket + n) % Buckets IN
           /\ at \in 0..(Buckets - 1) /\ Place(at, b) \in Media!Slot
           /\ Place(at, b) = at <=> b = 1
           /\ Place(at, b) \in Media!Passed(n) <=> b <= n
           /\ b > n => Place(at, b) = Place(bucket, b - n)
<1>. DEFINE at == (bucket + n) % Buckets
            p == Place(at, b)
<1>0. ASSUME NEW k \in 0..n
      PROVE  (bucket + k) % Buckets =
                 IF bucket + k < Buckets THEN bucket + k ELSE bucket + k - Buckets
  <2>. DEFINE x == bucket + k
  <2>1. x \in 0..(2 * Buckets - 1)
    OBVIOUS
  <2>. HIDE DEF x
  <2>2. x % Buckets = IF x < Buckets THEN x ELSE x - Buckets
    BY <2>1, Around
  <2>. QED
    BY <2>2 DEF x
<1>1. at = IF bucket + n < Buckets THEN bucket + n ELSE bucket + n - Buckets
  BY <1>0
<1>2. at \in 0..(Buckets - 1)
  BY <1>1
<1>. HIDE DEF at
<1>3. p = IF b <= at + 1 THEN at + 1 - b ELSE at + 1 - b + Buckets
  BY <1>2, PlaceIs
<1>. HIDE DEF p
<1>4. p \in Media!Slot /\ (p = at <=> b = 1)
  BY <1>2, <1>3 DEF Media!Slot
<1>6. ASSUME b <= n PROVE p \in Media!Passed(n)
  <2>1. n + 1 - b \in 1..n
    BY <1>6
  <2>2. (bucket + (n + 1 - b)) % Buckets = p
    BY <1>1, <1>2, <1>3, <1>0, <2>1
  <2>. QED
    BY <2>1, <2>2 DEF Media!Passed
<1>7. ASSUME NEW k \in 1..n, p = (bucket + k) % Buckets PROVE b <= n
  <2>1. p = IF bucket + k < Buckets THEN bucket + k ELSE bucket + k - Buckets
    BY <1>0, <1>7
  <2>. QED
    BY <1>1, <1>2, <1>3, <2>1
<1>8. b > n => p = Place(bucket, b - n)
  <2>. SUFFICES ASSUME b > n PROVE p = Place(bucket, b - n)
    OBVIOUS
  <2>1. b - n \in 1..Buckets
    OBVIOUS
  <2>2. Place(bucket, b - n) = IF b - n <= bucket + 1 THEN bucket + 1 - (b - n)
                               ELSE bucket + 1 - (b - n) + Buckets
    BY <2>1, PlaceIs
  <2>. QED
    BY <1>1, <1>2, <1>3, <2>2
<1>9. p \in Media!Passed(n) => b <= n
  BY <1>7 DEF Media!Passed
<1>. QED
  BY <1>2, <1>4, <1>6, <1>8, <1>9 DEF p, at

\* The minima the ring stands for, the running second first.
Minima == [b \in 1..Buckets |-> bucket_min_us[Place(bucket, b)]]

LEMMA WindowAtFirst ==
    ASSUME Media!ClockAssumption, MediaInv, ~initialized
    PROVE  Minima = Media!Window!AllUnset /\ phase = 0
<1>1. Buckets \in Nat \ {0} /\ bucket = 0 /\ phase = 0 /\ bucket_min_us = Media!Cleared
  BY DEF Media!ClockAssumption, MediaInv
<1>2. ASSUME NEW b \in 1..Buckets PROVE bucket_min_us[Place(bucket, b)] = Unset
  <2>1. Place(0, b) \in Media!Slot
    BY <1>1, PlaceIs DEF Media!Slot
  <2>. QED
    BY <1>1, <2>1 DEF Media!Cleared
<1>. QED
  BY <1>1, <1>2 DEF Minima, Media!Window!AllUnset

LEMMA FirstSlides ==
    ASSUME Media!ClockAssumption, MediaInv, NEW s \in Sample, Media!First(s)
    PROVE  Media!Window!First(s)
<1>1. /\ Buckets \in Nat \ {0} /\ bucket = 0 /\ bucket' = 0 /\ phase' = 0
      /\ bucket_min_us' = [Media!Cleared EXCEPT ![0] = s]
  BY DEF Media!ClockAssumption, MediaInv, Media!First
<1>2. Minima = Media!Window!AllUnset
  BY WindowAtFirst DEF Media!First
<1>3. ASSUME NEW b \in 1..Buckets
      PROVE  bucket_min_us'[Place(bucket', b)] = IF b = 1 THEN s ELSE Unset
  <2>1. Place(0, b) \in Media!Slot /\ (Place(0, b) = 0 <=> b = 1)
    BY <1>1, PlaceIs DEF Media!Slot
  <2>. QED
    BY <1>1, <2>1 DEF Media!Cleared
<1>4. Minima' = [Media!Window!AllUnset EXCEPT ![1] = s]
  BY <1>1, <1>3 DEF Minima, Media!Window!AllUnset
<1>. QED
  BY <1>1, <1>2, <1>4 DEF Media!Window!First, Minima, Place

LEMMA MapSlides ==
    ASSUME Media!ClockAssumption, MediaInv, NEW s \in Sample, NEW t \in Tick, Media!Map(s, t)
    PROVE  Media!Window!Frame(s, t)
<1>. DEFINE k == phase + t
            n == k \div BucketUs
<1>1. /\ Buckets \in Nat \ {0} /\ bucket \in 0..(Buckets - 1) /\ k \in Nat
  BY DEF Media!ClockAssumption, MediaInv, Media!TypeOK, Media!Slot
<1>2. CASE k >= Buckets * BucketUs
  <2>1. /\ bucket' = 0 /\ phase' = 0
        /\ bucket_min_us' = [b \in Media!Slot |-> IF b = 0 THEN s ELSE Unset]
    BY <1>2, MapWindow
  <2>2. ASSUME NEW b \in 1..Buckets
        PROVE  bucket_min_us'[Place(bucket', b)] = IF b = 1 THEN s ELSE Unset
    <3>1. Place(0, b) \in Media!Slot /\ (Place(0, b) = 0 <=> b = 1)
      BY <1>1, PlaceIs DEF Media!Slot
    <3>. QED
      BY <2>1, <3>1
  <2>3. Minima' = [Media!Window!AllUnset EXCEPT
                      ![1] = Media!Window!Lower(s, Media!Window!AllUnset[1])]
    BY <1>1, <2>2 DEF Minima, Media!Window!AllUnset, Media!Window!Lower
  <2>4. Media!Window!Restarts(t)
    BY <1>2 DEF Media!Window!Restarts
  <2>. QED
    BY <2>1, <2>3, <2>4 DEF Media!Window!Frame, Minima, Place
<1>3. CASE ~(k >= Buckets * BucketUs)
  <2>1. n \in 0..(Buckets - 1)
    BY <1>1, <1>3, Seconds
  <2>. HIDE DEF k, n
  <2>2. /\ bucket' = (bucket + n) % Buckets /\ phase' = k % BucketUs
        /\ bucket_min_us' = [b \in Media!Slot |->
               IF b = bucket' THEN Media!Window!Lower(s, Entered(b, n)) ELSE Entered(b, n)]
    BY <1>3, MapWindow DEF k, n
  <2>3. Media!Window!Slid(n) =
            [b \in 1..Buckets |-> IF b > n THEN Minima[b - n] ELSE Unset]
    BY DEF Media!Window!Slid, Minima, Place
  <2>4. ASSUME NEW b \in 1..Buckets
        PROVE  /\ Entered(Place(bucket', b), n) = Media!Window!Slid(n)[b]
               /\ bucket_min_us'[Place(bucket', b)] =
                      IF b = 1 THEN Media!Window!Lower(s, Media!Window!Slid(n)[1])
                      ELSE Media!Window!Slid(n)[b]
    <3>1. /\ Place(bucket', b) \in Media!Slot
          /\ Place(bucket', b) = bucket' <=> b = 1
          /\ Place(bucket', b) \in Media!Passed(n) <=> b <= n
          /\ b > n => Place(bucket', b) = Place(bucket, b - n)
      BY <1>1, <2>1, <2>2, PlaceMoves
    <3>2. b > n => b - n \in 1..Buckets /\ Minima[b - n] = bucket_min_us[Place(bucket, b - n)]
      BY <1>1, <2>1 DEF Minima
    <3>3. Entered(Place(bucket', b), n) = Media!Window!Slid(n)[b]
      BY <1>1, <2>1, <2>3, <3>1, <3>2 DEF Entered
    <3>. QED
      BY <2>2, <3>1, <3>3
  <2>5. Minima' = [Media!Window!Slid(n) EXCEPT
                      ![1] = Media!Window!Lower(s, Media!Window!Slid(n)[1])]
    BY <1>1, <2>3, <2>4 DEF Minima
  <2>6. ~Media!Window!Restarts(t)
    BY <1>3 DEF Media!Window!Restarts, k
  <2>. QED
    BY <2>2, <2>5, <2>6 DEF Media!Window!Frame, Minima, Place, k, n
<1>. QED
  BY <1>2, <1>3

\* The ring of advance_window, whatever its size and the frames, is the
\* window that slides: no minimum is lost before its time, or kept after it.
THEOREM RingIsTheWindow ==
    ASSUME Media!ClockAssumption
    PROVE  Media!Spec => Media!WindowSpec
<1>1. ASSUME Media!Init PROVE Media!Window!WindowInit
  <2>1. MediaInv /\ ~initialized
    BY <1>1, MediaInit DEF Media!Init
  <2>. QED
    BY <2>1, WindowAtFirst DEF Media!Window!WindowInit, Minima, Place
<1>2. ASSUME MediaInv, [Media!Next]_(Media!vars)
      PROVE  [Media!Window!WindowNext]_<<Minima, phase>>
  <2>1. ASSUME NEW s \in Sample, Media!First(s) PROVE Media!Window!WindowNext
    BY <1>2, <2>1, FirstSlides DEF Media!Window!WindowNext
  <2>2. ASSUME NEW s \in Sample, NEW t \in Tick, Media!Map(s, t) PROVE Media!Window!WindowNext
    BY <1>2, <2>2, MapSlides DEF Media!Window!WindowNext
  <2>3. CASE UNCHANGED Media!vars
    BY <2>3 DEF Media!vars, Media!window, Minima
  <2>. QED
    BY <1>2, <2>1, <2>2, <2>3 DEF Media!Next, Media!Frame
<1>. QED
  BY <1>1, <1>2, MediaInvariance, PTL
     DEF Media!Spec, Media!WindowSpec, Media!Window!WindowSpec, Minima, Place

-----------------------------------------------------------------------------
(* Jitter.                                                                 *)

LEMMA FloorIsTarget ==
    ASSUME Media!ClockAssumption, NEW mins, NEW x \in Int, Media!Floor(mins, x),
           Media!Populated(mins) # {}, \A b \in Media!Populated(mins) : mins[b] \in Int
    PROVE  Media!Target(mins) = x
<1>. DEFINE P == Media!Populated(mins)
<1>1. /\ IsFiniteSet(P) /\ Media!Target(mins) \in Int
      /\ IsMedian(Media!Target(mins), mins, P)
  BY TargetIsMedian
<1>2. {b \in Media!Slot : mins[b] = x} = {b \in P : mins[b] = x}
  BY DEF Media!Populated, Media!ClockAssumption
<1>3. 2 * Cardinality({b \in P : mins[b] = x}) > Cardinality(P)
  BY <1>2, SameCardinality, Zenon DEF Media!Floor
<1>. HIDE DEF P
<1>4. IsMedian(x, mins, P)
  BY <1>1, <1>3, MostIsMedian DEF P
<1>. QED
  BY <1>1, <1>4, OneMedian DEF P

\* On a clock at rest no frame moves the offset while most of the seconds
\* of the window reach it, whatever the window, the filter and the slew.
THEOREM JitterIsIgnored ==
    ASSUME Media!ClockAssumption
    PROVE  Media!Spec => Media!JitterMovesNothing
<1>1. ASSUME MediaInv, NEW s \in Sample, NEW t \in Tick, Media!Map(s, t),
             err_ewma_us = 0, Media!Floor(bucket_min_us', offset_us)
      PROVE  UNCHANGED Media!filter
  <2>. DEFINE P == Media!Populated(bucket_min_us')
  <2>1. /\ bucket_min_us' \in [Media!Slot -> Sample \cup {Unset}]
        /\ bucket' \in Media!Slot /\ bucket_min_us'[bucket'] \in Sample
    BY <1>1, MapTyped
  <2>2. bucket' \in P /\ \A b \in P : bucket_min_us'[b] \in Int
    BY <2>1 DEF Media!Populated, Media!ClockAssumption
  <2>3. offset_us \in Int
    BY <1>1 DEF MediaInv, Media!TypeOK
  <2>4. Media!Target(bucket_min_us') = offset_us
    BY <1>1, <2>2, <2>3, FloorIsTarget
  <2>5. /\ err_ewma_us' = 0 + Media!Quotient((offset_us - offset_us) - 0, EwmaDiv)
        /\ offset_us' = offset_us + Media!Clamp(Media!Quotient(err_ewma_us', GainDiv))
    BY <1>1, <2>4 DEF Media!Map, Media!Filtered
  <2>6. Media!Quotient(0, EwmaDiv) = 0 /\ Media!Quotient(0, GainDiv) = 0 /\ Media!Clamp(0) = 0
    BY DEF Media!Quotient, Media!Clamp, Media!ClockAssumption
  <2>7. err_ewma_us' = 0
    BY <2>3, <2>5, <2>6
  <2>8. offset_us' = offset_us
    BY <2>3, <2>5, <2>6, <2>7
  <2>. QED
    BY <1>1, <2>7, <2>8 DEF Media!filter
<1>2. ASSUME MediaInv, [Media!Next]_(Media!vars)
      PROVE  [initialized /\ err_ewma_us = 0 /\ Media!Floor(bucket_min_us', offset_us)
                => UNCHANGED Media!filter]_(Media!vars)
  BY <1>1, <1>2 DEF Media!Next, Media!Frame, Media!First
<1>. QED
  BY <1>2, MediaInvariance, PTL DEF Media!Spec, Media!JitterMovesNothing
=============================================================================
