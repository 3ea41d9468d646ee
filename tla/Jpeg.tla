-------------------------------- MODULE Jpeg --------------------------------
(***************************************************************************)
(* rss_jpeg.c on a JPEG as its pieces -- SOI, segments, the scan, EOI --   *)
(* each with its size: the capture time goes in behind SOI, a signature    *)
(* over all that is before it in front of EOI.                             *)
(***************************************************************************)
EXTENDS Integers, Sequences

ExifSegment == 112              \* EXIF_SEGMENT
SigSegment  == 93               \* RSS_JPEG_SIG_SEGMENT

Soi == [kind |-> "soi", size |-> 2]
Eoi == [kind |-> "eoi", size |-> 2]
Image(content) == [kind |-> "scan", size |-> 40, content |-> content]
Exif(time) == [kind |-> "exif", size |-> ExifSegment, time |-> time]
Signature(key, over) == [kind |-> "sig", size |-> SigSegment, key |-> key, over |-> over]

Bytes(jpeg) ==
    LET b[i \in 0..Len(jpeg)] == IF i = 0 THEN 0 ELSE b[i - 1] + jpeg[i].size
    IN b[Len(jpeg)]

Begins(jpeg) == jpeg # <<>> /\ jpeg[1] = Soi
Ends(jpeg)   == jpeg # <<>> /\ jpeg[Len(jpeg)] = Eoi
BeforeEoi(jpeg) == SubSeq(jpeg, 1, Len(jpeg) - 1)

\* (mutant: room for the payload is taken for room for the segment)
HasRoomForPayload(jpeg, cap, size) == cap >= Bytes(jpeg) + size - 4

HasRoom(jpeg, cap, size) == cap >= Bytes(jpeg) + size

Refused(jpeg, rc) == [rc |-> rc, jpeg |-> jpeg]

InsertExif(jpeg, cap, time) ==
    IF ~Begins(jpeg) \/ Bytes(jpeg) < 4 THEN Refused(jpeg, "EINVAL")
    ELSE IF ~HasRoom(jpeg, cap, ExifSegment) THEN Refused(jpeg, "ENOSPC")
    ELSE [rc |-> "ok", jpeg |-> <<Soi, Exif(time)>> \o Tail(jpeg)]

\* (mutant: what decoders show is signed, without the segments)
CoveredScan(pieces) == SelectSeq(pieces, LAMBDA piece : piece.kind = "scan")

\* What a signature behind these pieces is over: every byte.
Covered(pieces) == pieces

Sign(jpeg, cap, key) ==
    IF ~Begins(jpeg) \/ ~Ends(jpeg) \/ Bytes(jpeg) < 4 THEN Refused(jpeg, "EINVAL")
    ELSE IF ~HasRoom(jpeg, cap, SigSegment) THEN Refused(jpeg, "ENOSPC")
    ELSE [rc   |-> "ok",
          jpeg |-> BeforeEoi(jpeg) \o <<Signature(key, Covered(BeforeEoi(jpeg))), Eoi>>]

\* (mutant: the first signature of the file is checked)
SignaturePlaceFirst(jpeg) ==
    CHOOSE i \in 1..Len(jpeg) :
        jpeg[i].kind = "sig" /\ \A h \in 1..(i - 1) : jpeg[h].kind # "sig"

\* buf + len - 2 - RSS_JPEG_SIG_SEGMENT: the piece in front of EOI.
SignaturePlace(jpeg) == Len(jpeg) - 1

Verify(jpeg, pub) ==
    IF ~Begins(jpeg) \/ ~Ends(jpeg) \/ Bytes(jpeg) < 4 THEN "EINVAL"
    ELSE IF Bytes(jpeg) < SigSegment + 4 \/ jpeg[Len(jpeg) - 1].kind # "sig" THEN "ENOENT"
    ELSE LET place == SignaturePlace(jpeg)
             sig   == jpeg[place]
         IN IF sig.key = pub /\ sig.over = Covered(SubSeq(jpeg, 1, place - 1))
            THEN "ok" ELSE "EBADMSG"

\* (mutant: the walk goes on to the last EXIF)
FirstOfLast(places) == CHOOSE i \in places : \A j \in places : j <= i

FirstOf(places) == CHOOSE i \in places : \A j \in places : i <= j

NoTime == 0              \* ENOENT; no capture time is 0

\* rss_jpeg_get_exif_time: the first EXIF before the scan.
GetExifTime(jpeg) ==
    LET stops == {i \in 2..Len(jpeg) : jpeg[i].kind \in {"exif", "scan", "eoi"}}
        first == FirstOf(stops)
    IN IF ~Begins(jpeg) \/ stops = {} THEN NoTime
       ELSE IF jpeg[first].kind = "exif" THEN jpeg[first].time ELSE NoTime
=============================================================================
