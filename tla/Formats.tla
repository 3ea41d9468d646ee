------------------------------- MODULE Formats -------------------------------
(***************************************************************************)
(* The buffers and files that the library edits in place or builds for its *)
(* callers, and sequences of calls on them: an SPS, an SEI time stamp, a   *)
(* JPEG, an AudioSpecificConfig, base64, /etc/shadow, a config file.       *)
(* Each behaviour is about one of them, named by subject.                  *)
(***************************************************************************)
EXTENDS ConfigEdit, Vui, Sps, Sei, Jpeg, Aac, Base64, Shadow

CONSTANTS
    SpsCases,       \* the SPSs encoders write, as records of Sps
    Matrices,       \* the colour matrices that are declared
    SeiCases,       \* records: capacity, codec, framing, time, status, other messages
    JpegCases,      \* records: a file, and the capacity of its buffer
    CaptureTimes,
    Signers,        \* signing keys
    MaxSignatures,  \* the bound on the signatures that are made in all
    AscCases,       \* records: AOT, rate, channels
    Base64Cases,    \* byte strings
    ShadowCases,    \* files, as records of their lines
    Hashes,         \* fields a password can be checked against
    User            \* the account asked for

VARIABLES
    subject,        \* what the behaviour is about
    meant,          \* what the caller has asked for so far
    buf             \* what is in the buffer

call   == <<subject, meant, buf>>
vars   == <<call, conf, owed>>
config == <<conf, owed>>

NoText == conf = <<>> /\ owed = [view |-> EmptyContents, touched |-> {}, dropped |-> {}]

-----------------------------------------------------------------------------
SpsInit ==
    /\ subject = "sps"
    /\ meant \in SpsCases
    /\ buf = SpsNal(meant)

\* A daemon corrects the SPS of each stream as it goes by.
DeclareFullRange ==
    LET e == SetFullRange(buf, meant.h265) IN
    /\ subject = "sps"
    /\ buf' = e.nal
    /\ meant' = IF e.rc = 1 THEN [meant EXCEPT !.full = 1] ELSE meant
    /\ UNCHANGED <<subject, config>>

DeclareMatrix(m) ==
    LET e == SetMatrix(buf, meant.h265, m) IN
    /\ subject = "sps"
    /\ buf' = e.nal
    /\ meant' = IF e.rc = 1 THEN [meant EXCEPT !.matrix = m] ELSE meant
    /\ UNCHANGED <<subject, config>>

SeiInit ==
    /\ subject = "sei"
    /\ meant \in SeiCases
    /\ buf = <<>>

StampFrame ==
    /\ subject = "sei" /\ buf = <<>>
    /\ buf' = BuildTimestamp(meant.cap, meant.h265, meant.prefix, meant.time, meant.status)
    /\ UNCHANGED <<subject, meant, config>>

\* meant: the capacity, and what each key has signed: the time that was read
\* from the file then, and its image.
JpegInit ==
    \E c \in JpegCases :
        /\ subject = "jpeg"
        /\ meant = [cap |-> c.cap, signed |-> {}, signatures |-> 0]
        /\ buf = c.file

InsertTime(t) ==
    /\ subject = "jpeg"
    /\ buf' = InsertExif(buf, meant.cap, t).jpeg
    /\ UNCHANGED <<subject, meant, config>>

ImagesOf(jpeg) == SelectSeq(jpeg, LAMBDA piece : piece.kind = "scan")

SignImage(k) ==
    LET s == Sign(buf, meant.cap, k) IN
    /\ subject = "jpeg" /\ meant.signatures < MaxSignatures
    /\ buf' = s.jpeg
    /\ meant' = IF s.rc = "ok"
                THEN [meant EXCEPT !.signatures = @ + 1,
                                   !.signed = @ \cup {[key   |-> k, time |-> GetExifTime(buf),
                                                       image |-> ImagesOf(buf)]}]
                ELSE meant
    /\ UNCHANGED <<subject, config>>

\* Another program takes out a segment, or puts another image into the file.
StripSegment(i) ==
    /\ subject = "jpeg"
    /\ buf[i].kind \in {"exif", "sig"}
    /\ buf' = SubSeq(buf, 1, i - 1) \o SubSeq(buf, i + 1, Len(buf))
    /\ UNCHANGED <<subject, meant, config>>

ReplaceImage(i, content) ==
    /\ subject = "jpeg"
    /\ buf[i].kind = "scan"
    /\ buf' = [buf EXCEPT ![i] = Image(content)]
    /\ UNCHANGED <<subject, meant, config>>

FileOf(lines) ==
    Joined([n \in DOMAIN lines |-> lines[n].name \o lines[n].rest \o lines[n].end])

\* The formats that are read or built in one call.
CallInit ==
    \/ subject = "asc"    /\ meant \in AscCases    /\ buf = <<>>
    \/ subject = "base64" /\ meant \in Base64Cases /\ buf = <<>>
    \/ subject = "shadow" /\ meant \in ShadowCases /\ buf = FileOf(meant)

BuildAsc ==
    /\ subject = "asc" /\ buf = <<>>
    /\ buf' = Asc(meant.aot, meant.rate, meant.channels)
    /\ UNCHANGED <<subject, meant, config>>

SaveConfig ==
    /\ subject = "config"
    /\ ConfigSave
    /\ UNCHANGED call

Init ==
    \/ (SpsInit \/ SeiInit \/ JpegInit \/ CallInit) /\ NoText
    \/ subject = "config" /\ meant = <<>> /\ buf = <<>> /\ EditInit

Next ==
    \/ DeclareFullRange
    \/ \E m \in Matrices : DeclareMatrix(m)
    \/ StampFrame
    \/ \E t \in CaptureTimes : InsertTime(t)
    \/ \E k \in Signers : SignImage(k)
    \/ \E i \in DOMAIN buf : StripSegment(i) \/ \E k \in Signers : ReplaceImage(i, k)
    \/ BuildAsc
    \/ SaveConfig

Spec == Init /\ [][Next]_vars

-----------------------------------------------------------------------------
(* Properties.                                                             *)

\* vui_edit says 0 only if there is nothing to do, and declines only if the SPS
\* would get longer or shorter.
Declared(x, f, m) ==
    IF x.vui \in {"none", "plain"} THEN x
    ELSE IF f THEN [x EXCEPT !.full = 1]
    ELSE IF x.vui = "colour" THEN [x EXCEPT !.matrix = m] ELSE x

Expected(x) ==
    IF x = meant THEN 0 ELSE IF Len(SpsNal(x)) = Len(buf) THEN 1 ELSE Bad

\* Whatever optional parts an encoder puts before them, an edit changes the
\* flag or the matrix and no other bit of the SPS, however many daemons correct
\* the same stream and in whatever order; and its answer is the right one.
SpsEdits ==
    subject = "sps" =>
        /\ buf = SpsNal(meant)
        /\ SetFullRange(buf, meant.h265).rc = Expected(Declared(meant, TRUE, 0))
        /\ \A m \in Matrices :
             SetMatrix(buf, meant.h265, m).rc = Expected(Declared(meant, FALSE, m))

CutTo(n, nal) == SubSeq(nal, 1, n)

PrefixSize == IF meant.prefix = "none" THEN 0 ELSE 4

BareNal == SubSeq(buf, PrefixSize + 1, Len(buf))

\* The stamp needs no emulation prevention: no two zeros are followed by a byte
\* up to 3, whatever the time; RSS_SEI_TS_MAX bytes are always enough, and the
\* length in front of it is its length.
FitsTheStream ==
    /\ \A i \in 3..Len(BareNal) :
         BareNal[i] <= 3 => BareNal[i - 1] # 0 \/ BareNal[i - 2] # 0
    /\ meant.prefix = "avcc" => NumberOf(Unpacked(CutTo(4, buf))) = Len(BareNal)
    /\ Len(buf) <= 37

\* The time that was stamped is the time that is read, by who reads that codec
\* and no other, between whatever messages, and never from a part of the stamp;
\* and nothing on the way takes a byte of it for another thing.
SeiReadsBack ==
    (subject = "sei" /\ buf # <<>>) =>
        LET header  == Len(SeiHeader(meant.h265))
            stamped == CutTo(header, BareNal) \o Joined(meant.before)
                       \o SubSeq(BareNal, header + 1, Len(BareNal) - 1)
            nal     == stamped \o Joined(meant.after) \o <<128>> \o Times(meant.padding, 0)
        IN /\ FitsTheStream
           /\ ParseTimestamp(nal, meant.h265) =
                 [rc |-> "ok", time |-> meant.time,
                  status |-> meant.status - (meant.status % 32) + 31]
           /\ ParseTimestamp(nal, ~meant.h265) = NotFound
           /\ \A n \in 0..Len(stamped) - 1 :
                ParseTimestamp(CutTo(n, nal), meant.h265) = NotFound

\* A file that verifies with a key shows the image and the time that the owner
\* of the key signed, whatever was inserted, signed, stripped or replaced since.
JpegVerified ==
    subject = "jpeg" =>
        \A k \in Signers :
            Verify(buf, k) = "ok" =>
                [key |-> k, time |-> GetExifTime(buf), image |-> ImagesOf(buf)] \in meant.signed

\* No edit writes behind the capacity of the buffer; the time of a file is the
\* one inserted last; a file that was just signed verifies, and without that
\* signature as it did before: signatures are added to what is signed already.
JpegEdits ==
    [][subject = "jpeg" /\ buf' # buf =>
         /\ Bytes(buf') <= meant.cap
         /\ \A t \in CaptureTimes : InsertTime(t) => GetExifTime(buf') = t
         /\ \A k \in Signers : SignImage(k) =>
              /\ Verify(buf', k) = "ok"
              /\ SubSeq(buf', 1, Len(buf') - 2) \o <<Eoi>> = buf]_vars

ReadAsc(bits) ==
    LET Field(from, n) == NumberOf(SubSeq(bits, from, from + n - 1)) IN
    [aot |-> Field(1, 5), rate |-> Rates[Field(6, 4) + 1], channels |-> Field(10, 4),
     ext |-> IF Len(bits) <= 16 THEN <<>>
             ELSE <<Field(17, 11), Field(28, 5), Field(33, 1), Rates[Field(34, 4) + 1]>>]

\* A receiver that reads the configuration field by field gets the rates of the
\* core and the extension, and the channels.
AscReadsBack ==
    (subject = "asc" /\ buf # <<>>) =>
        ReadAsc(Unpacked(buf)) =
            [aot |-> Lc, channels |-> meant.channels,
             rate |-> IF meant.aot = Lc THEN meant.rate ELSE meant.rate \div 2,
             ext  |-> IF meant.aot = Lc THEN <<>> ELSE <<695, Sbr, 1, meant.rate>>]

Encoded(bytes) ==
    LET bits == Unpacked(bytes) \o Times((6 - ((8 * Len(bytes)) % 6)) % 6, 0) IN
    [i \in 1..Len(bits) \div 6 |-> NumberOf(SubSeq(bits, 6 * i - 5, 6 * i))]

\* Any bytes come back from their encoding, with padding, without it, and with
\* line breaks in it, if they fit; if they do not, none are taken for the whole.
Base64Inverts ==
    subject = "base64" =>
        LET code == Encoded(meant) IN
        \A in \in {code, code \o <<Pad, Pad>>} \cup
                  {CutTo(n, code) \o <<Junk>> \o SubSeq(code, n + 1, Len(code)) : n \in DOMAIN code} :
            \A outmax \in 0..Len(meant) + 1 :
                LET d == Base64Decode(in, outmax) IN
                IF outmax < Len(meant) THEN d.full ELSE ~d.full /\ d.out = meant

\* The first line that names the account decides, as the login stack has it, and
\* only a field that crypt can use is handed out.
ShadowFirstLine ==
    subject = "shadow" =>
        LET own   == {n \in DOMAIN meant : meant[n].name = User}
            field == meant[Min(own)].field
            state == CASE own = {}         -> "missing"
                       [] field = <<>>     -> "unset"
                       [] field \in Hashes -> "set"
                       [] OTHER            -> "locked"
        IN /\ ShadowState(buf, User) = state
           /\ ShadowHash(buf, User, LineSize) = IF state = "set" THEN <<field>> ELSE <<>>
=============================================================================
