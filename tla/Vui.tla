--------------------------------- MODULE Vui ---------------------------------
(***************************************************************************)
(* rss_vui_set_full_range and rss_vui_set_matrix: find the flag of the    *)
(* range and the colour matrix in the SPS of an H.264 or H.265 stream, and *)
(* overwrite them in place.                                                *)
(***************************************************************************)
EXTENDS BitStrings

CONSTANT RbspMax            \* VUI_RBSP_MAX

-----------------------------------------------------------------------------
(* Emulation prevention.                                                   *)

\* The 03 of 00 00 03 0x.
Emulation(src, i) ==
    /\ i >= 3 /\ src[i] = 3 /\ src[i - 1] = 0 /\ src[i - 2] = 0
    /\ i < Len(src) /\ src[i + 1] <= 3

Unescape(src) ==
    Joined([i \in DOMAIN src |-> IF Emulation(src, i) THEN <<>> ELSE <<src[i]>>])

\* (mutant: the zeros are not counted from the start behind a 03)
EscapeCountsOn(src) ==
    LET e[i \in 0..Len(src)] ==
          IF i = 0 THEN [out |-> <<>>, zeros |-> 0]
          ELSE LET was   == e[i - 1]
                   guard == was.zeros >= 2 /\ src[i] <= 3
               IN [out   |-> was.out \o (IF guard THEN <<3>> ELSE <<>>) \o <<src[i]>>,
                   zeros |-> IF src[i] # 0 THEN 0 ELSE was.zeros + 1]
    IN e[Len(src)].out

Escape(src) ==
    LET e[i \in 0..Len(src)] ==
          IF i = 0 THEN [out |-> <<>>, zeros |-> 0]
          ELSE LET was   == e[i - 1]
                   guard == was.zeros >= 2 /\ src[i] <= 3
               IN [out   |-> was.out \o (IF guard THEN <<3>> ELSE <<>>) \o <<src[i]>>,
                   zeros |-> IF src[i] # 0 THEN 0
                             ELSE IF guard THEN 1 ELSE was.zeros + 1]
    IN e[Len(src)].out

-----------------------------------------------------------------------------
(* The reader: c.at is the next bit of c.bits.  Once a read goes past the  *)
(* end, c.at stays past it: what follows reads as zero.                    *)

Overflow(c) == c.at > Len(c.bits) + 1

Take(c, n) ==
    [c EXCEPT !.at = IF @ + n <= Len(c.bits) + 1 THEN @ + n ELSE Len(c.bits) + 2]

U(c, n) ==
    IF Overflow(Take(c, n)) THEN 0 ELSE NumberOf(SubSeq(c.bits, c.at, c.at + n - 1))

Flag(c) == U(c, 1) = 1

\* Exp-Golomb: n zeros, a one, and n bits.  (Of 32 zeros and more C leaves the
\* value open; no field of an SPS is that large.)
LeadingZeros(c) ==
    LET One(n) == c.at + n > Len(c.bits) \/ c.bits[c.at + n] = 1
    IN CHOOSE n \in 0..32 : One(n) /\ \A below \in 0..(n - 1) : ~One(below)

Ue(c) ==
    LET n == LeadingZeros(c) IN 2^n - 1 + U(Take(c, n + 1), n)

Se(c) == IF Ue(c) % 2 = 1 THEN (Ue(c) + 1) \div 2 ELSE 0 - (Ue(c) \div 2)

\* Fields to go over: n bits, or a code (0: its length is in it).
UE == 0

Skip(c, fields) ==
    LET s[i \in 0..Len(fields)] ==
          IF i = 0 THEN c
          ELSE LET was == s[i - 1] IN
               IF fields[i] = UE THEN Take(was, 2 * LeadingZeros(was) + 1)
               ELSE Take(was, fields[i])
    IN s[Len(fields)]

\* A flag, and fields that are there if it is set.
Optional(c, fields) == Skip(c, IF Flag(c) THEN <<1>> \o fields ELSE <<1>>)

\* return -1 from within: whatever follows reads past the end, too.
Failed(c) == Take(c, Len(c.bits) + 1)

Bad    == 0 - 1
Absent == 0 - 2

NotThere(c) == IF Overflow(Take(c, 1)) THEN Bad ELSE Absent

-----------------------------------------------------------------------------
(* The way to video_full_range_flag.                                       *)

Profiles == {100, 110, 122, 244, 44, 83, 86, 118, 128, 138, 139, 134, 135}

\* A delta that makes next zero ends the list: the rest is not coded.
ScalingList(c, size) ==
    LET s[j \in 0..size] ==
          IF j = 0 THEN [c |-> c, last |-> 8, next |-> 8]
          ELSE LET was  == s[j - 1]
                   next == (was.last + Se(was.c) + 256) % 256
               IN IF was.next = 0 THEN was
                  ELSE [c    |-> Skip(was.c, <<UE>>),
                        last |-> IF next = 0 THEN was.last ELSE next,
                        next |-> next]
    IN s[size].c

ScalingMatrix(c, lists) ==
    LET s[i \in 0..lists] ==
          IF i = 0 THEN Take(c, 1)
          ELSE LET was == s[i - 1] IN
               IF Flag(was) THEN ScalingList(Take(was, 1), IF i <= 6 THEN 16 ELSE 64)
               ELSE Take(was, 1)
    IN IF Flag(c) THEN s[lists] ELSE Take(c, 1)

AspectRatio(c) ==
    Optional(c, IF Flag(c) /\ U(Take(c, 1), 8) = 255 THEN <<8, 16, 16>> ELSE <<8>>)

SignalType(c) ==
    IF ~Flag(c) THEN NotThere(c)
    ELSE IF Overflow(Take(c, 4)) THEN Bad
    ELSE Take(c, 4).at

\* From vui_parameters_present on, the same in both.
VideoSignal(c) ==
    IF ~Flag(c) THEN NotThere(c) ELSE SignalType(Optional(AspectRatio(Take(c, 1)), <<1>>))

\* From chroma_format_idc to the scaling matrix.
HighProfile(c) ==
    LET matrix == Skip(c, (IF Ue(c) = 3 THEN <<UE, 1>> ELSE <<UE>>) \o <<UE, UE, 1>>)
    IN ScalingMatrix(matrix, IF Ue(c) = 3 THEN 12 ELSE 8)

OffsetsForRefFrames(c) ==
    IF Ue(c) > 255 THEN Failed(c) ELSE Skip(c, Times(Ue(c) + 1, UE))

PicOrderCount(c) ==
    CASE Ue(c) = 0 -> Skip(c, <<UE, UE>>)
      [] Ue(c) = 1 -> OffsetsForRefFrames(Skip(c, <<UE, 1, UE, UE>>))
      [] OTHER     -> Skip(c, <<UE>>)

FrameMbsOnly(c) == Skip(c, IF Flag(c) THEN <<1, 1>> ELSE <<1, 1, 1>>)

\* From log2_max_frame_num on.
H264Frames(c) ==
    VideoSignal(Optional(FrameMbsOnly(Skip(PicOrderCount(Skip(c, <<UE>>)), <<UE, 1, UE, UE>>)),
                         <<UE, UE, UE, UE>>))

H264FullRangeBit(c) ==
    LET id == Skip(c, <<8, 8, 8, UE>>)
    IN H264Frames(IF U(c, 8) \in Profiles THEN HighProfile(id) ELSE id)

\* The flags of all sub-layers come before what they announce.
ProfileTierLevel(c, sublayers) ==
    LET general == Skip(c, <<8, 32, 32, 16, 8>>)
        flags   == Skip(general, Times(sublayers, 2))
        aligned == IF sublayers = 0 THEN flags ELSE Skip(flags, Times(8 - sublayers, 2))
        sub[i \in 0..sublayers] ==
          IF i = 0 THEN aligned
          ELSE LET profile == Take(general, 2 * (i - 1)) IN
               Skip(sub[i - 1], (IF Flag(profile) THEN <<8, 32, 32, 16>> ELSE <<>>)
                             \o (IF Flag(Take(profile, 1)) THEN <<8>> ELSE <<>>))
    IN sub[sublayers]

Lists == [n \in 1..20 |-> IF n > 18 THEN 3 ELSE (n - 1) \div 6]   \* size_id of each

ScalingListData(c) ==
    LET s[n \in 0..Len(Lists)] ==
          IF n = 0 THEN c
          ELSE LET was   == s[n - 1]
                   size  == Lists[n]
                   coded == Times(IF size = 0 THEN 16 ELSE 64, UE)
               IN Skip(was, <<1>> \o (IF ~Flag(was) THEN <<UE>>
                                      ELSE IF size > 1 THEN <<UE>> \o coded ELSE coded))
    IN s[Len(Lists)]

\* (mutant: one flag for each picture of the set before, none for the set)
PredictedShort(c, prev) ==
    LET p[j \in 0..prev] ==
          IF j = 0 THEN [c |-> Skip(c, <<1, UE>>), kept |-> 0]
          ELSE LET was == p[j - 1]
                   use == Take(was.c, 1)
               IN [c    |-> IF Flag(was.c) THEN use ELSE Take(use, 1),
                   kept |-> was.kept + IF Flag(was.c) \/ Flag(use) THEN 1 ELSE 0]
    IN p[prev]

\* A set predicted from the one before it, which had prev pictures.
Predicted(c, prev) ==
    LET p[j \in 0..prev + 1] ==
          IF j = 0 THEN [c |-> Skip(c, <<1, UE>>), kept |-> 0]
          ELSE LET was == p[j - 1]
                   use == Take(was.c, 1)
               IN [c    |-> IF Flag(was.c) THEN use ELSE Take(use, 1),
                   kept |-> was.kept + IF Flag(was.c) \/ Flag(use) THEN 1 ELSE 0]
    IN p[prev + 1]

Explicit(c) ==
    LET neg == Ue(c)
        pos == Ue(Skip(c, <<UE>>))
    IN IF neg > 64 \/ pos > 64 THEN [c |-> Failed(c), kept |-> 0]
       ELSE [c    |-> Skip(c, <<UE, UE>> \o Joined(Times(neg + pos, <<UE, 1>>))),
             kept |-> neg + pos]

\* The sets one behind the other; c overflows when one of them fails.
RefPicSets(c, sets) ==
    LET s[i \in 0..sets] ==
          IF i = 0 THEN [c |-> c, kept |-> 0]
          ELSE LET was == s[i - 1] IN
               IF i = 1 THEN Explicit(was.c)
               ELSE IF Flag(was.c) THEN Predicted(Take(was.c, 1), was.kept)
               ELSE Explicit(Take(was.c, 1))
    IN IF sets > 64 THEN Failed(c) ELSE s[sets].c

PictureSize(c) == Skip(c, IF Ue(c) = 3 THEN <<UE, 1, UE, UE>> ELSE <<UE, UE, UE>>)

\* The sub-layers' ordering info, and six sizes of blocks.
OrderingInfo(c, sublayers) ==
    Skip(c, <<1>> \o Times(3 * (IF Flag(c) THEN sublayers + 1 ELSE 1) + 6, UE))

ScalingLists(c) ==
    IF Flag(c) /\ Flag(Take(c, 1)) THEN ScalingListData(Take(c, 2))
    ELSE Optional(c, <<1>>)

ShortTerm(c) == RefPicSets(Skip(c, <<UE>>), Ue(c))

LongTermPictures(c, pocbits) ==
    IF Ue(c) > 32 THEN Failed(c)
    ELSE Skip(c, <<UE>> \o Joined(Times(Ue(c), <<pocbits, 1>>)))

LongTerm(c, pocbits) ==
    IF Flag(c) THEN LongTermPictures(Take(c, 1), pocbits) ELSE Take(c, 1)

\* From log2_max_poc_lsb_minus4 on.
H265Pictures(c, sublayers) ==
    LET lists == ScalingLists(OrderingInfo(Skip(c, <<UE>>), sublayers))
    IN VideoSignal(Take(LongTerm(ShortTerm(Optional(Take(lists, 2), <<4, 4, UE, UE, 1>>)),
                                 Ue(c) + 4), 2))

H265FullRangeBit(c) ==
    LET sublayers == U(Take(c, 4), 3)
        id == Skip(ProfileTierLevel(Take(c, 8), sublayers), <<UE>>)
    IN H265Pictures(Skip(Optional(PictureSize(id), <<UE, UE, UE, UE>>), <<UE, UE>>), sublayers)

-----------------------------------------------------------------------------
(* The edit.                                                               *)

Coefficients(c) ==
    IF ~Flag(c) THEN NotThere(c)
    ELSE IF Overflow(Take(c, 17)) THEN Bad
    ELSE Take(c, 17).at

\* From the flag of the range to matrix_coefficients.
MatrixBit(c, range) == Coefficients(Take([c EXCEPT !.at = range], 1))

StartCode(nal) ==
    IF Len(nal) <= 4 THEN 0
    ELSE IF SubSeq(nal, 1, 3) = <<0, 0, 1>> THEN 3
    ELSE IF SubSeq(nal, 1, 4) = <<0, 0, 0, 1>> THEN 4
    ELSE 0

IsSps(h265, header) ==
    IF h265 THEN (header \div 2) % 64 = 33 ELSE header % 32 = 7

Overwritten(bits, at, by) ==
    SubSeq(bits, 1, at - 1) \o by \o SubSeq(bits, at + Len(by), Len(bits))

Unchanged(nal, rc) == [rc |-> rc, nal |-> nal]

\* Written only if no byte behind the SPS has to move.
Committed(nal, front, bits) ==
    LET escaped == Escape(Packed(bits)) IN
    IF Len(escaped) # Len(nal) - front THEN Unchanged(nal, Bad)
    ELSE [rc |-> 1, nal |-> SubSeq(nal, 1, front) \o escaped]

\* vui_edit: the new value is that of a field of Len(by) bits at place at, or
\* at is Bad or Absent.
Put(nal, front, c, at, by) ==
    IF at = Absent THEN Unchanged(nal, 0)
    ELSE IF at = Bad \/ at + Len(by) > Len(c.bits) + 1 THEN Unchanged(nal, Bad)
    ELSE IF SubSeq(c.bits, at, at + Len(by) - 1) = by THEN Unchanged(nal, 0)
    ELSE Committed(nal, front, Overwritten(c.bits, at, by))

\* range: where the flag of the range is.  matrix < 0 is for that flag.
PutAt(nal, front, c, range, matrix) ==
    IF matrix < 0 \/ range < 0 THEN Put(nal, front, c, range, <<1>>)
    ELSE Put(nal, front, c, MatrixBit(c, range), BitsOf(matrix, 8))

EditRbsp(nal, front, c, h265, matrix) ==
    PutAt(nal, front, c, IF h265 THEN H265FullRangeBit(c) ELSE H264FullRangeBit(c), matrix)

Edit(nal, h265, matrix) ==
    LET start == StartCode(nal)
        front == start + IF h265 THEN 2 ELSE 1
    IN IF Len(nal) < 4 \/ Len(nal) <= front \/ Len(nal) - front > RbspMax
       THEN Unchanged(nal, Bad)
       ELSE IF ~IsSps(h265, nal[start + 1]) THEN Unchanged(nal, Bad)
       ELSE EditRbsp(nal, front,
                     [bits |-> Unpacked(Unescape(SubSeq(nal, front + 1, Len(nal)))), at |-> 1],
                     h265, matrix)

SetFullRange(nal, h265) == Edit(nal, h265, 0 - 1)

SetMatrix(nal, h265, matrix) == Edit(nal, h265, matrix)
=============================================================================
