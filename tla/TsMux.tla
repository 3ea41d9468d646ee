-------------------------------- MODULE TsMux --------------------------------
(***************************************************************************)
(* The MPEG-TS muxer: the packets each call writes, as the fields of their *)
(* headers and the bytes of the PES packet they carry, the continuity      *)
(* counters, and the program clock (PCR) drawn from the DTS of the video.  *)
(***************************************************************************)
EXTENDS Integers, Sequences, FiniteSetsExt

CONSTANTS
    PacketSize,     \* RSS_TS_PACKET_SIZE
    CcModulus,      \* values of a continuity counter
    Lead,           \* how far the PCR goes before the DTS (33 ms)
    Lengths,        \* lengths of the frames
    Rooms,          \* packets that fit the caller's buffer
    FirstDts,       \* the DTS of the first frame of a timeline
    Gaps,           \* from the DTS of a frame to the next one's
    MaxTime,        \* bound on the DTS
    Fresh            \* the state of a timeline without frames

ASSUME SizeAssumption == PacketSize \in Nat /\ PacketSize > 32
ASSUME CcAssumption == CcModulus \in Nat /\ CcModulus > 1
ASSUME LeadAssumption == Lead \in Nat
ASSUME InputAssumption ==
    /\ Lengths \subseteq Nat \ {0}
    /\ Rooms \subseteq Nat
    /\ FirstDts \subseteq Nat
    /\ Gaps \subseteq Nat \ {0}
    /\ MaxTime \in Nat
    /\ Fresh \notin Nat

VARIABLES
    cc,             \* Pid -> the continuity counter of its next packet
    last_pcr,
    counting,       \* pat_counter > 0
    dts,            \* of the last frame of the timeline, or Fresh
    out,            \* what the last call wrote
    shown           \* Pid -> the counter of the last packet a receiver saw,
                    \* or CcModulus (for the properties)

mux  == <<cc, last_pcr, counting>>
vars == <<mux, dts, out, shown>>

Pid == {"pat", "pmt", "video", "audio"}

NoPcr == -1

\* (mutant: the byte with the length of the field is forgotten)
FieldSizeShort(hasPcr, rai) ==
    IF hasPcr THEN 1 + 6 ELSE IF rai THEN 1 ELSE 0

\* The adaptation field of the first packet: its length byte, flags, PCR.
FieldSize(hasPcr, rai) ==
    IF hasPcr THEN 2 + 6 ELSE IF rai THEN 2 ELSE 0

\* A packet: its header, with a field of size bytes, and the bytes of the PES
\* packet or of the table behind it.
Packet(pid, first, size, counter, pcr, random, from, to) ==
    [pid |-> pid, unit_start |-> first, cc |-> counter,
     adapted |-> size > 0, af_len |-> IF size > 0 THEN size - 1 ELSE 0,
     pcr |-> pcr, random |-> random, from |-> from, to |-> to]

\* What the k-th packet has room for, when the field of the first one takes
\* field bytes, and where it starts in the PES packet.
Space(field, k) == PacketSize - 4 - (IF k = 1 THEN field ELSE 0)

From(field, k) == IF k = 1 THEN 0 ELSE Space(field, 1) + (k - 2) * Space(field, 2)

\* write_pes_packets: the packets of one PES packet of total bytes.  Bytes
\* that do not fill the last packet are made up for in its field.
PesPackets(pid, total, pcr, rai, room) ==
    LET field   == FieldSize(pcr # NoPcr, rai)
        take(k) == Min({Space(field, k), total - From(field, k)})
        size(k) == (IF k = 1 THEN field ELSE 0) + Space(field, k) - take(k)
    IN  [k \in {j \in 1..room : From(field, j) < total} |->
            Packet(pid, k = 1, size(k), (cc[pid] + k - 1) % CcModulus,
                   IF k = 1 THEN pcr ELSE NoPcr, k = 1 /\ rai,
                   From(field, k), From(field, k) + take(k))]

\* (mutant: one step for a whole PES packet)
CountedOnce(packets) ==
    [p \in Pid |-> IF \E k \in DOMAIN packets : packets[k].pid = p
                   THEN (cc[p] + 1) % CcModulus ELSE cc[p]]

\* The counters after a call that wrote these packets (packets with the same
\* pid follow each other).
Counted(packets) ==
    [p \in Pid |-> (cc[p] + Cardinality({k \in DOMAIN packets : packets[k].pid = p}))
                       % CcModulus]

Sent(packets, total, room) ==
    /\ cc' = Counted(packets)
    /\ out' = [packets |-> packets, total |-> total, room |-> room, before |-> shown]
    /\ shown' = [p \in Pid |->
           LET mine == {k \in DOMAIN packets : packets[k].pid = p}
           IN  IF mine = {} THEN shown[p] ELSE packets[Max(mine)].cc]

Init ==
    /\ cc = [p \in Pid |-> 0]
    /\ last_pcr = 0
    /\ counting = FALSE
    /\ dts = Fresh
    /\ out = [packets |-> <<>>, total |-> 0, room |-> 0, before |-> [p \in Pid |-> CcModulus]]
    /\ shown = [p \in Pid |-> CcModulus]

Section(pid) ==
    Packet(pid, TRUE, 0, cc[pid], NoPcr, FALSE, 0, PacketSize - 4)

\* rss_ts_write_pat_pmt: one packet each, or nothing.
WritePatPmt(room) ==
    /\ room >= 2
    /\ Sent(<<Section("pat"), Section("pmt")>>, 2 * (PacketSize - 4), room)
    /\ counting' = FALSE
    /\ UNCHANGED last_pcr

\* The timeline goes on: PAT and PMT are repeated between two frames.
RepeatTables ==
    /\ \E room \in Rooms : WritePatPmt(room)
    /\ UNCHANGED dts

\* The caller rebases its timestamps, and opens the new stream with a PAT.
Rebase ==
    /\ \E room \in Rooms : WritePatPmt(room)
    /\ dts' = Fresh

\* (mutant: a PAT does not lift the guard)
ClockGuardedAlways(t) ==
    LET led == IF t > Lead THEN t - Lead ELSE 0
    IN  IF led <= last_pcr THEN last_pcr + 1 ELSE led

\* (mutant: no guard)
ClockUnguarded(t) == IF t > Lead THEN t - Lead ELSE 0

\* The PCR of a frame with DTS t.
Clock(t) ==
    LET led == IF t > Lead THEN t - Lead ELSE 0
    IN  IF led <= last_pcr /\ counting THEN last_pcr + 1 ELSE led

\* The DTS the next frame may have.
NextDts == IF dts = Fresh THEN FirstDts ELSE {dts + gap : gap \in Gaps}

\* rss_ts_write_video: the PES header has 14 bytes, or 19 with a DTS of its
\* own.  The clock goes on also when the buffer takes only a part.
WriteVideo ==
    \E len \in Lengths, t \in NextDts, room \in Rooms, has_dts, is_idr \in BOOLEAN :
        LET total == (IF has_dts THEN 19 ELSE 14) + len
        IN  /\ t <= MaxTime
            /\ dts' = t
            /\ last_pcr' = Clock(t)
            /\ counting' = TRUE
            /\ Sent(PesPackets("video", total, Clock(t), is_idr, room), total, room)

\* rss_ts_write_audio: no PCR, no field but for stuffing.
WriteAudio ==
    \E len \in Lengths, room \in Rooms :
        /\ Sent(PesPackets("audio", 14 + len, NoPcr, FALSE, room), 14 + len, room)
        /\ UNCHANGED <<last_pcr, counting, dts>>

Next == RepeatTables \/ Rebase \/ WriteVideo \/ WriteAudio

Spec == Init /\ [][Next]_vars

-----------------------------------------------------------------------------
(* Properties.                                                             *)

\* The bytes a receiver, who knows the header only, takes for the payload.
Received(packet) ==
    PacketSize - 4 - (IF packet.adapted THEN 1 + packet.af_len ELSE 0)

\* However the frame fits the packets of write_pes_packets, by one byte too
\* few or too many, what a receiver puts together from the headers is the PES
\* packet from its first byte on -- all of it, or as many whole packets as the
\* buffer takes -- and the field that has a PCR has room for it.
PacketsReassemble ==
    LET pes == out.packets IN
    \A k \in DOMAIN pes : pes[k].pid \in {"video", "audio"} =>
        /\ Received(pes[k]) = pes[k].to - pes[k].from
        /\ pes[k].from = IF k = 1 THEN 0 ELSE pes[k - 1].to
        /\ pes[k].unit_start <=> k = 1
        /\ pes[k].pcr # NoPcr => pes[k].adapted /\ pes[k].af_len >= 7
        /\ k = Len(pes) => pes[k].to = out.total \/ k = out.room

\* Tables, video and audio in any order, and frames cut short by a small
\* buffer: no receiver ever sees a gap or a repetition in the counter of a
\* pid, which it would take for lost packets.
CountersContinue ==
    \A k \in DOMAIN out.packets :
        LET pid    == out.packets[k].pid
            prior  == {j \in 1..(k - 1) : out.packets[j].pid = pid}
            before == IF prior = {} THEN out.before[pid] ELSE out.packets[Max(prior)].cc
        IN  before = CcModulus \/ out.packets[k].cc = (before + 1) % CcModulus

\* The clock of rss_ts_write_video stays within the lead of the DTS: behind
\* it at the clamped head of a timeline, where the guard pushes it on, and at
\* the head of the next one, wherever that starts.
PcrLeadsDts ==
    dts # Fresh => last_pcr <= dts /\ dts - last_pcr <= Lead

\* "PCR must be strictly monotonic even when the DTS-derived value clamps at
\* a rebased stream head" (tests/test_ts.c): from a frame to the next one the
\* clock goes on, if no tables came between them, which lift the guard, or if
\* it has left the head, where it is behind the lead.  With tables between
\* them at the head the code repeats the clock, or sets it back.
PcrIncreases ==
    [][/\ dts # Fresh /\ dts' \notin {dts, Fresh}
       /\ counting \/ last_pcr + Lead = dts
       => last_pcr' > last_pcr]_vars

\* The two rules of the clock together: it follows the DTS, and it goes on.
ClockHolds == []PcrLeadsDts /\ PcrIncreases
=============================================================================
