------------------------------- MODULE MCTsMux -------------------------------
(* Frames that fit one and two packets to the byte, for TLC.              *)
EXTENDS TsMux

\* Bytes of a PES packet around the 176 of a packet with a PCR, the 184 of
\* one without, and the 360 of two: less 14 for its header.
Frames == {1} \cup UNION {(n - 15)..(n - 13) : n \in {176, 184, 360}}
Buffers == {1, 3}
Firsts == {0, 3}
Steps == {1, 3}
=============================================================================
