------------------------------ MODULE MCFormats ------------------------------
(* The formats over small sets of what encoders, files and callers have.   *)
EXTENDS Formats

CONSTANTS SectionMaxLines, KeyMaxLines, Top, Osd, Log, k, l, v, w, h, k1, k2

-----------------------------------------------------------------------------
(* SPSs.                                                                   *)

H264Sps ==
    [h265 : {FALSE}, start : {<<0, 0, 1>>}, high : {TRUE}, chroma : {1, 3},
     lists : {<<>>, << <<0 - 8>> >>, << <<1, 0 - 9>>, Times(16, 1), <<0 - 8>> >>},
     poc : {1, 2}, cycle : {<<>>, <<0, 2>>}, interlaced : BOOLEAN, cropped : {TRUE},
     vui : {"colour"}, aspect : {0, 255}, overscan : {TRUE},
     format : {5}, full : {0}, primaries : {0, 1}, transfer : {0}, matrix : {1}]
    \cup
    [h265 : {FALSE}, start : {<<>>, <<0, 0, 0, 1>>}, high : {FALSE}, chroma : {1},
     lists : {<<>>}, poc : {0}, cycle : {<<>>}, interlaced : {TRUE}, cropped : BOOLEAN,
     vui : {"none", "plain", "signal", "colour"}, aspect : {0, 1}, overscan : BOOLEAN,
     format : {0, 5}, full : {0}, primaries : {0}, transfer : {0, 1}, matrix : {1}]

Plain265 ==
    [h265 |-> TRUE, start |-> <<>>, compatible |-> 0, layers |-> <<>>, chroma |-> 1,
     cropped |-> TRUE, pocbits |-> 8, ordering |-> TRUE, scaling |-> "off", coded |-> {},
     pcm |-> FALSE, sets |-> <<>>, longterm |-> 0, vui |-> "colour", aspect |-> 1,
     overscan |-> FALSE, format |-> 5, full |-> 0, primaries |-> 1, transfer |-> 1,
     matrix |-> 1]

Layer(profile, level) == [profile |-> profile, level |-> level]
Own(neg, pos) == [of |-> "own", neg |-> neg, pos |-> pos]
FromLast(flags)   == [of |-> "last", flags |-> flags]

H265Sps ==
    {[Plain265 EXCEPT !.layers = layers, !.ordering = o, !.compatible = c, !.vui = vui] :
        layers \in {<<>>, <<Layer(0, 0)>>, <<Layer(1, 0), Layer(0, 1)>>,
                    <<Layer(1, 1), Layer(1, 1)>>},
        o \in BOOLEAN, c \in {0, 1}, vui \in {"none", "plain", "signal", "colour"}}
    \cup
    {[Plain265 EXCEPT !.sets = sets, !.longterm = n, !.pocbits = p, !.chroma = c,
                      !.primaries = pr] :
        sets \in {<<Own(1, 0)>>,
                  <<Own(2, 1), FromLast(<<1, 2, 0, 1>>), FromLast(<<0, 1, 1, 1>>), Own(0, 0),
                    FromLast(<<1>>)>>},
        n \in {0, 2}, p \in {4, 8}, c \in {1, 3}, pr \in {0, 1}}
    \cup
    {[Plain265 EXCEPT !.scaling = s, !.coded = c, !.pcm = p, !.aspect = a] :
        s \in {"on", "coded"}, c \in {{1, 13}, {20}}, p \in BOOLEAN, a \in {0, 255}}

AnySps == H264Sps \cup H265Sps

-----------------------------------------------------------------------------
(* The other formats.                                                      *)

\* Another SEI message: its type and size, and as many bytes.
Message(type, size) ==
    Times(type \div 255, 255) \o <<type % 255>>
    \o Times(size \div 255, 255) \o <<size % 255>> \o Times(size, 128)

\* One with the identifier of the stamp, but too short for it.
Short(h265) == <<5, 16>> \o Uuid(h265)

Seis ==
    {[cap |-> 37, h265 |-> h265, prefix |-> prefix, time |-> time, status |-> status,
      before |-> before, after |-> after, padding |-> padding] :
        h265 \in BOOLEAN, prefix \in {"none", "annexb", "avcc"},
        time \in {Times(8, 0), Times(8, 255), <<0, 0, 0, 1, 0, 0, 0, 3>>, <<0, 6, 33, 0, 0, 1, 128, 0>>},
        status \in {0, 31, 159},
        before \in {<<>>, <<Message(128, 0)>>, <<Message(1, 2), Message(300, 1)>>,
                    <<Message(5, 255)>>, <<Short(FALSE), Short(TRUE)>>},
        after \in {<<>>, <<Message(6, 1)>>}, padding \in {0, 2}}
    \cup
    {[cap |-> cap, h265 |-> h265, prefix |-> prefix, time |-> Times(8, 1), status |-> 31,
      before |-> <<>>, after |-> <<>>, padding |-> 0] :
        cap \in 31..37, h265 \in BOOLEAN, prefix \in {"none", "annexb", "avcc"}}

Jpegs ==
    {[file |-> file, cap |-> Bytes(file) + room] :
        file \in {<<Soi, Image(k1), Eoi>>, <<Soi, Image(k1)>>},
        room \in {110, 2 * SigSegment, SigSegment + 2 * ExifSegment}}

Signing == {k1, k2}

Ascs == {[aot |-> aot, rate |-> rate, channels |-> channels] :
            aot \in {Lc, Sbr}, rate \in {Rates[i] : i \in DOMAIN Rates} \cup {44000},
            channels \in 0..8}

ByteStrings == UNION {[1..n -> {0, 58, 255}] : n \in 0..4}

Root == <<"r", "t">>

Good == {<<"$", "6", "$", "s", "$", "h">>, <<"$", "5", "$", "n", "$", "s", "$", "h">>}

Fields == Good \cup {<<>>, <<"!">>, <<"*">>, <<"$", "1", "$", "s", "$">>, <<"$", "1", "$", "s">>,
                     <<"!", "$", "1", "$", "s", "$", "h">>, <<"h", "h">>}

\* A field with more fields behind it, or nothing; a line with either end.
ShadowLine(name, field, more, end) ==
    [name |-> name, field |-> field, rest |-> <<":">> \o field \o more, end |-> end]

ShadowLines ==
    {ShadowLine(name, field, more, end) :
        name \in {Root, <<"r">>, <<"r", "t", "2">>}, field \in Fields,
        more \in {<<>>, <<":", "$", ":">>}, end \in {<<NewLine>>, <<Return, NewLine>>}}

\* A line that takes more than one buffer.
LongLine == [name |-> <<"l">>, field |-> <<>>, rest |-> Times(40, "x"), end |-> <<NewLine>>]

ShadowFiles ==
    {<<>>} \cup {<<line>> : line \in ShadowLines}
    \cup {<<LongLine, line, ShadowLine(Root, field, <<>>, <<>>)>> :
            line \in ShadowLines, field \in {<<>>, <<"*">>, <<"$", "6", "$", "s", "$", "h">>}}

-----------------------------------------------------------------------------
(* Config files: every file of up to so many lines of a small alphabet.    *)

Sections == {Top, Osd, Log}
Keys     == {k, l}
Values   == {v, w, h}

\* A long value: with a comment of 4 a line of the long spelling is too long,
\* with the long spelling alone it is too long, with the stored one it is not.
\* h is "v #": it reads back as v, with a comment.
Widths == (v :> 1) @@ (w :> 4) @@ (h :> 3)
Cuts   == (h :> v)

TextsOf(alphabet, max) == UNION {[1..n -> alphabet] : n \in 0..max}

\* Two sections of one key, opened and closed in every order.
SectionCase ==
    [texts    |-> TextsOf({Blank, Note, Header(Osd), Header(Log), KeyLine(k, v, 1, 0)},
                          SectionMaxLines),
     items    |-> Sections \X {k},
     sections |-> Sections,
     values   |-> {w}]

\* Two keys of one section, on lines of several widths.
KeyCase ==
    [texts    |-> TextsOf({Blank, Header(Osd), KeyLine(k, v, 3, 0), KeyLine(k, v, 1, 2),
                           KeyLine(k, v, 1, 4), KeyLine(l, v, 1, 0)},
                          KeyMaxLines),
     items    |-> {Top, Osd} \X Keys,
     sections |-> {Top, Osd},
     values   |-> {w, h}]

SectionAndKeyCases == {SectionCase, KeyCase}

ASSUME PlainCases
=============================================================================
