----------------------------- MODULE MediaClock -----------------------------
(***************************************************************************)
(* rss_media_clock: producer time stamps mapped to CLOCK_MONOTONIC.  The   *)
(* offset is estimated by the median of the minima of the last seconds,    *)
(* kept in a ring of buckets, and followed by a filtered, bounded slew.    *)
(* Times are relative to the last frame: phase is now - bucket_start_us.   *)
(***************************************************************************)
EXTENDS Integers, FiniteSets

CONSTANTS
    Buckets,        \* RSS_MEDIA_CLOCK_BUCKETS
    BucketUs,       \* RSS_MEDIA_CLOCK_BUCKET_US
    EwmaDiv, GainDiv, SlewMax,
    Sample,         \* now - media of a frame
    Tick,           \* from one frame to the next one
    Unset           \* INT64_MAX

ASSUME ClockAssumption ==
    /\ Buckets \in Nat \ {0}
    /\ BucketUs \in Nat \ {0}
    /\ EwmaDiv \in Nat \ {0} /\ GainDiv \in Nat \ {0} /\ SlewMax \in Nat \ {0}
    /\ Sample \subseteq Int
    /\ Tick \subseteq Nat
    /\ Unset \notin Int

VARIABLES
    bucket_min_us, bucket, phase,
    offset_us, err_ewma_us, initialized,
    steady          \* the delay all further frames have, or Unset: history

window == <<bucket_min_us, bucket, phase>>
filter == <<offset_us, err_ewma_us>>
vars == <<window, filter, initialized, steady>>

Slot == 0..(Buckets - 1)

Cleared == [b \in Slot |-> Unset]

\* rss_media_clock_init
Init ==
    /\ bucket_min_us = Cleared
    /\ bucket = 0
    /\ phase = 0
    /\ offset_us = 0
    /\ err_ewma_us = 0
    /\ initialized = FALSE
    /\ steady = Unset

\* Division of C, towards zero.
Quotient(a, d) == IF a >= 0 THEN a \div d ELSE -((-a) \div d)

Clamp(x) == IF x > SlewMax THEN SlewMax ELSE IF x < -SlewMax THEN -SlewMax ELSE x

-----------------------------------------------------------------------------
(* The window.                                                             *)

\* (mutant: the buckets a gap skips over keep their minima)
PassedLast(seconds) == IF seconds = 0 THEN {} ELSE {(bucket + seconds) % Buckets}

\* (mutant: the buckets that are entered keep their minima)
PassedNone(seconds) == {}

\* The buckets the loop of advance_window enters, and empties.
Passed(seconds) == {(bucket + n) % Buckets : n \in 1..seconds}

\* advance_window: the buckets, the current one and the phase at a frame.
Advanced(elapsed) ==
    IF elapsed < 0 \/ elapsed >= BucketUs * Buckets
    THEN [mins |-> Cleared, at |-> 0, phase |-> 0]
    ELSE LET seconds == elapsed \div BucketUs IN
         [mins  |-> [b \in Slot |-> IF b \in Passed(seconds) THEN Unset
                                    ELSE bucket_min_us[b]],
          at    |-> (bucket + seconds) % Buckets,
          phase |-> elapsed % BucketUs]

Counted(w, s) ==
    [w EXCEPT !.mins = [w.mins EXCEPT ![w.at] = IF @ = Unset \/ s < @ THEN s ELSE @]]

Populated(mins) == {b \in Slot : mins[b] # Unset}

\* (mutant: the minimum of the minima, which the median replaced)
TargetLowest(mins) ==
    CHOOSE x \in {mins[b] : b \in Populated(mins)} : \A b \in Populated(mins) : x <= mins[b]

\* The median: half of the minima, rounded down, sort before it.
Target(mins) ==
    LET half == Cardinality(Populated(mins)) \div 2 IN
    CHOOSE x \in {mins[b] : b \in Populated(mins)} :
        /\ Cardinality({b \in Populated(mins) : mins[b] < x}) <= half
        /\ Cardinality({b \in Populated(mins) : mins[b] <= x}) > half

-----------------------------------------------------------------------------
(* rss_media_clock_map.                                                    *)

Filtered(err) == err_ewma_us + Quotient(err - err_ewma_us, EwmaDiv)

First(s) ==
    /\ ~initialized
    /\ bucket_min_us' = [bucket_min_us EXCEPT ![0] = s]
    /\ offset_us' = s
    /\ phase' = 0
    /\ initialized' = TRUE
    /\ UNCHANGED <<bucket, err_ewma_us>>

Map(s, t) ==
    LET w == Counted(Advanced(phase + t), s)
        err == Target(w.mins) - offset_us
    IN /\ initialized
       /\ bucket_min_us' = w.mins
       /\ bucket' = w.at
       /\ phase' = w.phase
       /\ err_ewma_us' = Filtered(err)
       /\ offset_us' = offset_us + Clamp(Quotient(err_ewma_us', GainDiv))
       /\ UNCHANGED initialized

\* A frame, delivered late or not; at some time the delays may settle.
Frame(s) ==
    /\ steady \in {Unset, s}
    /\ steady' \in {steady, s}
    /\ First(s) \/ \E t \in Tick : Map(s, t)

Next == \E s \in Sample : Frame(s)

Spec == Init /\ [][Next]_vars

\* A stream that goes on.
FairSpec == Spec /\ WF_vars(Next)

-----------------------------------------------------------------------------
(* Properties.                                                             *)

\* The ring is the sliding window of the minima of the last Buckets seconds:
\* a pause of the stream leaves nothing of long ago in it.
Window == INSTANCE MinimaWindow
              WITH minima <- [b \in 1..Buckets |->
                                bucket_min_us[(bucket + Buckets + 1 - b) % Buckets]]

WindowSpec == Window!WindowSpec

\* An isolated faster frame moves nothing: on a clock at rest, as long as
\* most seconds reach the same floor, no frame moves the offset.
Floor(mins, x) ==
    2 * Cardinality({b \in Slot : mins[b] = x}) > Cardinality(Populated(mins))

JitterMovesNothing ==
    [][initialized /\ err_ewma_us = 0 /\ Floor(bucket_min_us', offset_us)
          => UNCHANGED filter]_vars

\* The loop neither runs away nor swings for ever: once the delays have
\* settled, the offset stays within what the two divisions truncate.
Distance(a, b) == IF a < b THEN b - a ELSE a - b

SettlesNearby ==
    <>[](steady # Unset => Distance(steady, offset_us) <= (EwmaDiv - 1) + (GainDiv - 1))

\* The buckets, the place in them and the phase have their types.
TypeOK ==
    /\ bucket_min_us \in [Slot -> Sample \cup {Unset}]
    /\ bucket \in Slot
    /\ phase \in 0..(BucketUs - 1)
    /\ offset_us \in Int
    /\ err_ewma_us \in Int
    /\ initialized \in BOOLEAN
    /\ steady \in Sample \cup {Unset}
=============================================================================
