--------------------------------- MODULE Aac ---------------------------------
(* rss_aac_asc: the AudioSpecificConfig of AAC-LC and of HE-AAC.           *)
EXTENDS BitStrings

Rates == <<96000, 88200, 64000, 48000, 44100, 32000, 24000,
           22050, 16000, 12000, 11025, 8000, 7350>>

Known(rate) == \E i \in DOMAIN Rates : Rates[i] = rate

RateIndex(rate) == (CHOOSE i \in DOMAIN Rates : Rates[i] = rate) - 1

Lc  == 2
Sbr == 5

\* AOT, rate, channels, GASpecificConfig.
LcBits(rate, channels) ==
    BitsOf(Lc, 5) \o BitsOf(RateIndex(rate), 4) \o BitsOf(channels, 4) \o Times(3, 0)

\* (mutant: the core at the rate of the extension)
SbrBitsFull(rate, channels) ==
    LcBits(rate, channels)
    \o BitsOf(695, 11) \o BitsOf(Sbr, 5) \o <<1>> \o BitsOf(RateIndex(rate), 4) \o Times(3, 0)

\* An LC core at half the rate, and the announcement of the extension behind it
\* (the head of rss_aac.c promises the hierarchical form, with AOT 5 in front;
\* the code and its test have this one).
SbrBits(rate, channels) ==
    LcBits(rate \div 2, channels)
    \o BitsOf(695, 11) \o BitsOf(Sbr, 5) \o <<1>> \o BitsOf(RateIndex(rate), 4) \o Times(3, 0)

\* rss_aac_asc; <<>> for an error.
Asc(aot, rate, channels) ==
    IF channels \notin 1..7 \/ ~Known(rate) THEN <<>>
    ELSE IF aot = Lc THEN Packed(LcBits(rate, channels))
    ELSE IF aot = Sbr /\ Known(rate \div 2) THEN Packed(SbrBits(rate, channels))
    ELSE <<>>
=============================================================================
