---------------------------- MODULE MinimaWindow ----------------------------
(***************************************************************************)
(* What the buckets of the media clock are for: the minimum of each of the *)
(* last Buckets seconds, the running one first, as a window that slides.   *)
(***************************************************************************)
EXTENDS Integers

CONSTANTS
    Buckets,        \* RSS_MEDIA_CLOCK_BUCKETS
    BucketUs,       \* RSS_MEDIA_CLOCK_BUCKET_US
    Sample,         \* now - media of a frame: offset and delivery latency
    Tick,           \* from one frame to the next one
    Unset           \* INT64_MAX: a second without a frame

VARIABLES
    minima,         \* 1..Buckets -> the minimum of that second, or Unset
    phase           \* time since the running second began

AllUnset == [b \in 1..Buckets |-> Unset]

Lower(s, m) == IF m = Unset THEN s ELSE IF s < m THEN s ELSE m

\* After a gap of a window or more the seconds start anew with the frame.
Restarts(t) == phase + t >= Buckets * BucketUs

\* The window after n more seconds.
Slid(n) == [b \in 1..Buckets |-> IF b > n THEN minima[b - n] ELSE Unset]

WindowInit == minima = AllUnset /\ phase = 0

First(s) ==
    /\ minima = AllUnset
    /\ minima' = [AllUnset EXCEPT ![1] = s]
    /\ phase' = 0

Frame(s, t) ==
    LET seconds == (phase + t) \div BucketUs
        slid == IF Restarts(t) THEN AllUnset ELSE Slid(seconds)
    IN /\ minima' = [slid EXCEPT ![1] = Lower(s, slid[1])]
       /\ phase' = IF Restarts(t) THEN 0 ELSE (phase + t) % BucketUs

WindowNext == \E s \in Sample : First(s) \/ \E t \in Tick : Frame(s, t)

WindowSpec == WindowInit /\ [][WindowNext]_<<minima, phase>>
=============================================================================
