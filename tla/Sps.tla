--------------------------------- MODULE Sps ---------------------------------
(***************************************************************************)
(* The SPS an encoder writes, by the syntax tables of H.264 7.3.2.1.1 and  *)
(* H.265 7.3.2.2.1 as far as the range and the matrix: what rss_vui.c has  *)
(* to find its way through.  (Of fields that lead nowhere, one value.)     *)
(***************************************************************************)
EXTENDS BitStrings

UeCode(v) ==
    LET n == CHOOSE n \in 0..16 : 2^n <= v + 1 /\ v + 1 < 2^(n + 1)
    IN Times(n, 0) \o BitsOf(v + 1, n + 1)

SeCode(v) == UeCode(IF v > 0 THEN 2 * v - 1 ELSE 0 - 2 * v)

Codes(values) == Joined([i \in DOMAIN values |-> UeCode(values[i])])

If(condition, bits) == IF condition THEN <<1>> \o bits ELSE <<0>>

\* VUI: x.vui is "none", "plain" (no video_signal_type), "signal", "colour".
VuiBits(x) ==
    If(x.vui # "none",
       (IF x.aspect = 255 THEN <<1>> \o BitsOf(255, 8) \o Times(32, 0)
        ELSE If(x.aspect # 0, BitsOf(x.aspect, 8)))
       \o If(x.overscan, <<1>>)
       \o If(x.vui # "plain",
             BitsOf(x.format, 3) \o <<x.full>>
             \o If(x.vui = "colour", BitsOf(x.primaries, 8) \o BitsOf(x.transfer, 8)
                                     \o BitsOf(x.matrix, 8)))
       \o <<0, 0, 0>>)

ListBits(list) == Joined([j \in DOMAIN list |-> SeCode(list[j])])

H264Bits(x) ==
    BitsOf(IF x.high THEN 100 ELSE 66, 8) \o Times(8, 0) \o BitsOf(40, 8) \o UeCode(0)
    \o (IF ~x.high THEN <<>>
        ELSE UeCode(x.chroma) \o (IF x.chroma = 3 THEN <<0>> ELSE <<>>)
             \o UeCode(0) \o UeCode(0) \o <<0>>
             \o If(x.lists # <<>>,
                   Joined([i \in 1..(IF x.chroma = 3 THEN 12 ELSE 8) |->
                             If(i \in DOMAIN x.lists, ListBits(x.lists[i]))])))
    \o UeCode(4) \o UeCode(x.poc)
    \o (CASE x.poc = 0 -> UeCode(2)
          [] x.poc = 1 -> <<0>> \o SeCode(0 - 3) \o SeCode(1)
                          \o UeCode(Len(x.cycle)) \o ListBits(x.cycle)
          [] OTHER -> <<>>)
    \o UeCode(1) \o <<0>> \o UeCode(119) \o UeCode(67)
    \o (IF x.interlaced THEN <<0, 1>> ELSE <<1>>) \o <<1>>
    \o If(x.cropped, Codes(<<0, 0, 0, 4>>))
    \o VuiBits(x)

\* x.layers: for each sub-layer, whether it has a profile and a level.
ProfileBits(x) ==
    LET profile == BitsOf(1, 8) \o Times(80, x.compatible)
        n == Len(x.layers)
    IN profile \o BitsOf(120, 8)
       \o Joined([i \in 1..n |-> <<x.layers[i].profile, x.layers[i].level>>])
       \o (IF n = 0 THEN <<>> ELSE Times(2 * (8 - n), 0))
       \o Joined([i \in 1..n |->
            (IF x.layers[i].profile = 1 THEN profile ELSE <<>>)
            \o (IF x.layers[i].level = 1 THEN BitsOf(93, 8) ELSE <<>>)])

\* x.coded: the scaling lists that are coded, of the 20; the others refer.
ScalingBits(x) ==
    Joined([n \in 1..20 |->
        LET size == IF n > 18 THEN 3 ELSE (n - 1) \div 6 IN
        IF n \notin x.coded THEN <<0>> \o UeCode(0)
        ELSE <<1>> \o (IF size > 1 THEN SeCode(8) ELSE <<>>)
             \o ListBits(Times(IF size = 0 THEN 16 ELSE 64, 1))])

\* A set of reference pictures: neg and pos pictures of its own, or for each
\* picture of the set before it and the set itself 0 (dropped), 1 (used) or
\* 2 (kept, not used).
SetBits(set, first) ==
    IF set.of = "own"
    THEN (IF first THEN <<>> ELSE <<0>>) \o UeCode(set.neg) \o UeCode(set.pos)
         \o Joined(Times(set.neg + set.pos, UeCode(0) \o <<1>>))
    ELSE <<1, 1>> \o UeCode(0)
         \o Joined([j \in DOMAIN set.flags |->
                      CASE set.flags[j] = 1 -> <<1>>
                        [] set.flags[j] = 2 -> <<0, 1>>
                        [] OTHER -> <<0, 0>>])

H265Bits(x) ==
    BitsOf(0, 4) \o BitsOf(Len(x.layers), 3) \o <<1>> \o ProfileBits(x)
    \o UeCode(0) \o UeCode(x.chroma) \o (IF x.chroma = 3 THEN <<0>> ELSE <<>>)
    \o UeCode(1920) \o UeCode(1088) \o If(x.cropped, Codes(<<0, 0, 0, 4>>))
    \o UeCode(0) \o UeCode(0) \o UeCode(x.pocbits - 4)
    \o (IF x.ordering THEN <<1>> \o Joined(Times(Len(x.layers) + 1, Codes(<<1, 0, 0>>)))
        ELSE <<0>> \o Codes(<<1, 0, 0>>))
    \o Codes(<<0, 3, 0, 3, 0, 0>>)
    \o If(x.scaling # "off", If(x.scaling = "coded", ScalingBits(x)))
    \o <<1, 1>>
    \o If(x.pcm, BitsOf(119, 8) \o Codes(<<0, 2>>) \o <<1>>)
    \o UeCode(Len(x.sets)) \o Joined([i \in DOMAIN x.sets |-> SetBits(x.sets[i], i = 1)])
    \o If(x.longterm # 0, UeCode(x.longterm)
                          \o Joined(Times(x.longterm, Times(x.pocbits, 0) \o <<1>>)))
    \o <<1, 0>>
    \o VuiBits(x)

\* A 03 goes before a byte up to 03 with an even run of zeros before it: each
\* 03 ends the run, and what it guards begins one.
ZerosBefore(src, i) ==
    LET Run(n) == \A j \in (i - n)..(i - 1) : src[j] = 0
    IN CHOOSE n \in 0..(i - 1) : Run(n) /\ (n = i - 1 \/ ~Run(n + 1))

Guarded(src) ==
    Joined([i \in DOMAIN src |->
        IF src[i] <= 3 /\ ZerosBefore(src, i) > 0 /\ ZerosBefore(src, i) % 2 = 0
        THEN <<3, src[i]>> ELSE <<src[i]>>])

\* The stop bit, and zeros up to the byte.
Trailed(bits) == bits \o <<1>> \o Times((15 - (Len(bits) % 8)) % 8, 0)

\* The NAL unit.
SpsNal(x) ==
    x.start \o (IF x.h265 THEN <<66, 1>> ELSE <<103>>)
    \o Guarded(Packed(Trailed(IF x.h265 THEN H265Bits(x) ELSE H264Bits(x))))
=============================================================================
