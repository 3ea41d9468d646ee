---------------------------- MODULE MCMediaClock ----------------------------
(* A window of three buckets of two ticks, and a coarse filter.    *)
EXTENDS MediaClock

Delays == {0, 5, 12}
Ticks  == {1, 3, 7}
=============================================================================
