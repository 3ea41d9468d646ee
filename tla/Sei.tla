--------------------------------- MODULE Sei ---------------------------------
(***************************************************************************)
(* rss_sei_build_timestamp and rss_sei_parse_timestamp: a time of eight    *)
(* bytes and a status, in an SEI message that other SEI messages surround. *)
(***************************************************************************)
EXTENDS BitStrings

Uuid(h265) ==
    IF h265
    THEN <<168, 104, 125, 212, 215, 89, 55, 88, 165, 206, 240, 51, 139, 101, 69, 241>>
    ELSE <<77, 73, 83, 80, 109, 105, 99, 114, 111, 115, 101, 99, 116, 105, 109, 101>>

UserData == 5                   \* SEI_PAYLOAD_TYPE_UDU
StampSize == 28                 \* SEI_PAYLOAD_SIZE

SeiHeader(h265) == IF h265 THEN <<78, 1>> ELSE <<6>>

\* (mutant: the reserved bits are left to the caller)
StatusAsGiven(status) == status

\* status | 0x1f
Status(status) == 32 * (status \div 32) + 31

Stamp(h265, time, status) ==
    Uuid(h265) \o <<Status(status)>>
    \o SubSeq(time, 1, 2) \o <<255>> \o SubSeq(time, 3, 4) \o <<255>>
    \o SubSeq(time, 5, 6) \o <<255>> \o SubSeq(time, 7, 8)

\* rss_sei_build_timestamp; <<>> for an error.
BuildTimestamp(cap, h265, prefix, time, status) ==
    LET nal   == SeiHeader(h265) \o <<UserData, StampSize>>
                 \o Stamp(h265, time, status) \o <<128>>
        front == CASE prefix = "annexb" -> <<0, 0, 0, 1>>
                   [] prefix = "avcc"   -> <<0, 0, 0, Len(nal)>>
                   [] OTHER             -> <<>>
    IN IF cap < Len(front) + Len(nal) THEN <<>> ELSE front \o nal

-----------------------------------------------------------------------------
NotFound == [rc |-> "ENOENT"]

\* A type or a size: 255 for each 255 byte, and the byte that is none; next is
\* 0 when the NAL ends before it.
SeiNumber(nal, p) ==
    LET Run(n) == p + n > Len(nal) \/ nal[p + n] # 255
        n == CHOOSE n \in 0..Len(nal) : Run(n) /\ \A m \in 0..(n - 1) : ~Run(m)
    IN IF p + n > Len(nal) THEN [value |-> 0, next |-> 0]
       ELSE [value |-> 255 * n + nal[p + n], next |-> p + n + 1]

\* (mutant: the first 0x80 where a type may be ends the messages)
TrailingAlways(nal, p) == nal[p] = 128

\* The stop bit with nothing but padding behind it; else 0x80 is a type.
Trailing(nal, p) == nal[p] = 128 /\ \A q \in (p + 1)..Len(nal) : nal[q] = 0

IsStamp(nal, body, type, size, h265) ==
    type = UserData /\ size >= StampSize /\ SubSeq(nal, body, body + 15) = Uuid(h265)

ReadStamp(d) ==
    IF d[4] # 255 \/ d[7] # 255 \/ d[10] # 255 THEN [rc |-> "EBADMSG"]
    ELSE [rc |-> "ok", status |-> d[1],
          time |-> SubSeq(d, 2, 3) \o SubSeq(d, 5, 6) \o SubSeq(d, 8, 9) \o SubSeq(d, 11, 12)]

\* rss_sei_parse_timestamp, message by message.
ParseTimestamp(nal, h265) ==
    LET walk[p \in 1..Len(nal) + 1] ==
          IF p > Len(nal) \/ Trailing(nal, p) THEN NotFound
          ELSE LET type == SeiNumber(nal, p)
                   size == SeiNumber(nal, type.next)
                   body == size.next
               IN IF \/ type.next = 0 \/ size.next = 0
                     \/ Len(nal) - body + 1 < size.value
                  THEN NotFound
                  ELSE IF IsStamp(nal, body, type.value, size.value, h265)
                  THEN ReadStamp(SubSeq(nal, body + 16, body + StampSize - 1))
                  ELSE walk[body + size.value]
        header == Len(SeiHeader(h265))
        isSei  == IF h265 THEN (nal[1] \div 2) % 64 = 39 ELSE nal[1] % 32 = 6
    IN IF Len(nal) < header \/ ~isSei THEN NotFound ELSE walk[header + 1]
=============================================================================
