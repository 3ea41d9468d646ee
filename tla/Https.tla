------------------------------- MODULE Https -------------------------------
(***************************************************************************)
(* TLS connections and what is served over them: rss_tls_accept and        *)
(* rss_tls_connect with their shared configuration, the loops of           *)
(* rss_tls_read and rss_tls_write over a record layer that may ask to be   *)
(* called again, and basic authentication with its lazily filled table.    *)
(* Every connection has a thread of its own.                               *)
(***************************************************************************)
EXTENDS Integers, Sequences, FiniteSets

CONSTANTS
    Conn,           \* places for connections
    Size,           \* bytes of a response, or of a push
    Record,         \* bytes a TLS record takes at most
    Room,           \* bytes the socket buffers
    Timeout         \* timeouts callers ask for

ASSUME SizeAssumption ==
    /\ Size \in Nat \ {0} /\ Record \in Nat \ {0} /\ Room \in Nat \ {0}
    /\ Timeout \subseteq Nat

VARIABLES
    pc,             \* Conn -> where its thread is
    role,           \* Conn -> "server", "client"
    since,          \* Conn -> the timeouts that connections of its role were
                    \* opened with since it was, its own first (a history)
    read_timeout,   \* role -> the timeout in the context's conf
    alive,          \* the connections that are allocated
    b64,            \* the decoder: [table, ready]
    verdict,        \* Conn -> [ok: what the authentication said, off: it is
                    \* disabled, raced: another thread filled the table]
    written,        \* Conn -> bytes rss_tls_write counts
    rec,            \* Conn -> bytes of the pending record still to be sent
    stream,         \* Conn -> the bytes put on the wire
    result,         \* Conn -> what rss_tls_write returned, Size + 1 before
    peer            \* Conn -> [said, cred, took, gone]: external

opened == <<role, since, read_timeout, alive>>
writing == <<written, rec, stream, result>>
vars == <<pc, opened, b64, verdict, writing, peer>>

Roles == {"server", "client"}
Pending == Size + 1

NewPeer == [said |-> "nothing", cred |-> "none", took |-> 0, gone |-> FALSE]
NoVerdict == [ok |-> FALSE, off |-> FALSE, raced |-> FALSE]

Init ==
    /\ pc = [c \in Conn |-> "idle"]
    /\ role = [c \in Conn |-> "server"]
    /\ since = [c \in Conn |-> {}]
    /\ read_timeout = [r \in Roles |-> 0]
    /\ alive = {}
    /\ b64 \in {[table |-> "zero", ready |-> FALSE],
               [table |-> "filled", ready |-> TRUE]}    \* rss_base64_init
    /\ verdict = [c \in Conn |-> NoVerdict]
    /\ written = [c \in Conn |-> 0]
    /\ rec = [c \in Conn |-> <<>>]
    /\ stream = [c \in Conn |-> <<>>]
    /\ result = [c \in Conn |-> Pending]
    /\ peer = [c \in Conn |-> NewPeer]

Goto(c, label) == pc' = [pc EXCEPT ![c] = label]

\* The connection is freed; its caller closes the socket.
Freed(c) ==
    /\ alive' = alive \ {c}
    /\ verdict' = [verdict EXCEPT ![c] = NoVerdict]
    /\ written' = [written EXCEPT ![c] = 0]
    /\ rec' = [rec EXCEPT ![c] = <<>>]
    /\ stream' = [stream EXCEPT ![c] = <<>>]
    /\ result' = [result EXCEPT ![c] = Pending]
    /\ peer' = [peer EXCEPT ![c] = NewPeer]
    /\ role' = [role EXCEPT ![c] = "server"]
    /\ since' = [since EXCEPT ![c] = {}]
    /\ Goto(c, "idle")
    /\ UNCHANGED <<read_timeout, b64>>

-----------------------------------------------------------------------------
(* Opening a connection.                                                   *)

\* (mutant: a timeout of 0 leaves the conf as it is)
ConfTimeoutIfAny(r, t) ==
    read_timeout' = IF t = 0 THEN read_timeout ELSE [read_timeout EXCEPT ![r] = t]

\* mbedtls_ssl_conf_read_timeout, unconditionally.
ConfTimeout(r, t) == read_timeout' = [read_timeout EXCEPT ![r] = t]

\* The calls that may wait for the peer, with the timeout in the conf.
Waits(c) == pc[c] \in {"setup", "handshake", "read"}

\* After the last of them the history of c's timeout ends.
Waited(c) ==
    /\ since' = IF Waits(c)' THEN since ELSE [since EXCEPT ![c] = {}]
    /\ UNCHANGED <<role, read_timeout, alive>>

\* rss_tls_accept and rss_tls_connect allocate and set the timeout, for the
\* other connections of the context, too: mbedTLS does not copy its conf.
Open(c, r, t) ==
    /\ pc[c] = "idle"
    /\ role' = [role EXCEPT ![c] = r]
    /\ since' = [d \in Conn |-> IF d = c THEN {t}
                               ELSE IF Waits(d) /\ role[d] = r THEN since[d] \cup {t}
                               ELSE since[d]]
    /\ ConfTimeout(r, t)
    /\ alive' = alive \cup {c}
    /\ Goto(c, "setup")
    /\ UNCHANGED <<b64, verdict, writing, peer>>

\* ssl_setup, set_bio, and for a client set_hostname.
Setup(c) ==
    /\ pc[c] = "setup"
    /\ Goto(c, "handshake")
    /\ UNCHANGED <<opened, b64, verdict, writing, peer>>

\* The peer answers; WANT_READ and WANT_WRITE only go round the loop.
Handshake(c) ==
    /\ pc[c] = "handshake"
    /\ peer[c].said # "nothing"
    /\ Goto(c, IF role[c] = "server" THEN "read" ELSE "write")
    /\ Waited(c)
    /\ UNCHANGED <<b64, verdict, writing, peer>>

\* ssl_setup or set_hostname fails; the handshake fails, on a silent peer with
\* MBEDTLS_ERR_SSL_TIMEOUT: the connection is freed.
Refused(c) == pc[c] \in {"setup", "handshake"} /\ Freed(c)

-----------------------------------------------------------------------------
(* The request.                                                            *)

\* rss_tls_read answers the request, or 0 or -1: the peer has closed, or is
\* silent for the conf's timeout.
Read(c) ==
    /\ pc[c] = "read"
    /\ Goto(c, IF peer[c].said = "request" THEN "auth" ELSE "close")
    /\ Waited(c)
    /\ UNCHANGED <<b64, verdict, writing, peer>>

Answer(c, v) ==
    /\ verdict' = [verdict EXCEPT ![c] = v]
    /\ Goto(c, "answered")
    /\ UNCHANGED <<opened, b64, writing, peer>>

\* rss_http_check_basic_auth: an empty user disables the authentication.
AuthOff(c) == pc[c] = "auth" /\ Answer(c, [NoVerdict EXCEPT !.ok = TRUE, !.off = TRUE])

\* With a user, a request without an Authorization header (which is not right)
\* is refused, and the credentials of the others are decoded.
AuthOn(c) ==
    /\ pc[c] = "auth"
    /\ \/ peer[c].cred = "wrong" /\ Answer(c, NoVerdict)
       \/ Goto(c, "test") /\ UNCHANGED <<opened, b64, verdict, writing, peer>>

\* (mutant: rss_base64_decode leaves the table to rss_base64_init)
TestForgotten(c) ==
    /\ pc[c] = "test"
    /\ Goto(c, "decode")
    /\ UNCHANGED <<opened, b64, verdict, writing, peer>>

\* b64_ensure_init: the flag is looked at, the table emptied (memset) and
\* filled, and the flag set.
Test(c) ==
    /\ pc[c] = "test"
    /\ Goto(c, IF b64.ready THEN "decode" ELSE "clear")
    /\ UNCHANGED <<opened, b64, verdict, writing, peer>>

Table(c, at, b, then) ==
    /\ pc[c] = at
    /\ b64' = b
    /\ Goto(c, then)
    /\ UNCHANGED <<opened, verdict, writing, peer>>

Clear(c) == Table(c, "clear", [b64 EXCEPT !.table = "cleared"], "fill")
Fill(c)  == Table(c, "fill", [b64 EXCEPT !.table = "filled"], "flag")
Flag(c)  == Table(c, "flag", [b64 EXCEPT !.ready = TRUE], "decode")

EnsureInit(c) == Test(c) \/ Clear(c) \/ Fill(c) \/ Flag(c)

\* Threads that still have the table to empty or to fill.
Filling == {c \in Conn : pc[c] \in {"clear", "fill"}}

\* The rest of rss_http_check_basic_auth.  From an empty table nothing is
\* decoded, from one of zeros no colon; while another thread writes to the
\* table, which is a data race, the verdict is anything.
CheckAuth(c) ==
    /\ pc[c] = "decode"
    /\ \E ok \in IF Filling # {} THEN BOOLEAN
                ELSE {b64.table = "filled" /\ peer[c].cred = "right"} :
         Answer(c, [ok |-> ok, off |-> FALSE, raced |-> Filling # {}])

\* The server acts on the verdict: it writes one response or another.
Respond(c) ==
    /\ pc[c] = "answered"
    /\ verdict' = [verdict EXCEPT ![c] = NoVerdict]
    /\ Goto(c, "write")
    /\ UNCHANGED <<opened, b64, writing, peer>>

-----------------------------------------------------------------------------
(* rss_tls_write.                                                          *)

Least(a, b) == IF a < b THEN a ELSE b

\* mbedtls_ssl_write makes a record of the bytes it is given, or, with one
\* pending, goes on sending that one whatever it is given.
Write(c) ==
    /\ pc[c] = "write"
    /\ written[c] < Size
    /\ rec' = [rec EXCEPT ![c] =
                 IF rec[c] # <<>> THEN rec[c]
                 ELSE [i \in 1..Least(Size - written[c], Record) |-> written[c] + i]]
    /\ Goto(c, "send")
    /\ UNCHANGED <<opened, b64, verdict, written, stream, result, peer>>

Free(c) == Room - (Len(stream[c]) - peer[c].took)

\* bio_send: write(2) takes what the socket buffer has room for.
Send(c) ==
    /\ pc[c] = "send"
    /\ \E n \in 1..Least(Len(rec[c]), Free(c)) :
         /\ stream' = [stream EXCEPT ![c] = @ \o SubSeq(rec[c], 1, n)]
         /\ rec' = [rec EXCEPT ![c] = SubSeq(rec[c], n + 1, Len(rec[c]))]
    /\ UNCHANGED <<pc, opened, b64, verdict, written, result, peer>>

\* (mutant: the count of the last call replaces the sum)
SentAssigns(c) ==
    /\ pc[c] = "send"
    /\ rec[c] = <<>>
    /\ written' = [written EXCEPT ![c] = Least(Size - @, Record)]
    /\ Goto(c, "write")
    /\ UNCHANGED <<opened, b64, verdict, rec, stream, result, peer>>

\* The record is out: the call returns the bytes it took of those it was given.
Sent(c) ==
    /\ pc[c] = "send"
    /\ rec[c] = <<>>
    /\ written' = [written EXCEPT ![c] = @ + Least(Size - @, Record)]
    /\ Goto(c, "write")
    /\ UNCHANGED <<opened, b64, verdict, rec, stream, result, peer>>

\* MBEDTLS_ERR_SSL_WANT_WRITE: written is not advanced.
Want(c) ==
    /\ pc[c] = "send"
    /\ rec[c] # <<>> /\ Free(c) = 0 /\ ~peer[c].gone
    /\ Goto(c, "poll")
    /\ UNCHANGED <<opened, b64, verdict, writing, peer>>

\* (mutant: the wait is for the peer to say something, without a limit)
PollForInput(c) ==
    /\ pc[c] = "poll"
    /\ peer[c].said = "more"
    /\ Goto(c, "write")
    /\ UNCHANGED <<opened, b64, verdict, writing, peer>>

\* The socket becomes ready, or 100 ms pass: the call is made again.
Poll(c) ==
    /\ pc[c] = "poll"
    /\ Goto(c, "write")
    /\ UNCHANGED <<opened, b64, verdict, writing, peer>>

Returns(c, n) ==
    /\ result' = [result EXCEPT ![c] = n]
    /\ Goto(c, "close")
    /\ UNCHANGED <<opened, b64, verdict, written, rec, stream, peer>>

Written(c) == pc[c] = "write" /\ written[c] = Size /\ Returns(c, Size)

\* (mutant: an error after a part of the bytes reports them all)
BrokenReportsAll(c) ==
    /\ pc[c] = "send" /\ rec[c] # <<>> /\ peer[c].gone
    /\ Returns(c, IF written[c] > 0 THEN Size ELSE -1)

\* MBEDTLS_ERR_NET_SEND_FAILED: what was written, or -1.
Broken(c) ==
    /\ pc[c] = "send" /\ rec[c] # <<>> /\ peer[c].gone
    /\ Returns(c, IF written[c] > 0 THEN written[c] ELSE -1)

\* rss_tls_close
Close(c) == pc[c] = "close" /\ Freed(c)

-----------------------------------------------------------------------------
(* The peers.                                                              *)

PeerDoes(c, p) ==
    /\ pc[c] # "idle"
    /\ ~peer[c].gone
    /\ peer' = [peer EXCEPT ![c] = p]
    /\ UNCHANGED <<pc, opened, b64, verdict, writing>>

Hello(c) == peer[c].said = "nothing" /\ PeerDoes(c, [peer[c] EXCEPT !.said = "hello"])

Request(c, cred) ==
    /\ peer[c].said = "hello"
    /\ role[c] = "server"
    /\ pc[c] = "read"
    /\ PeerDoes(c, [peer[c] EXCEPT !.said = "request", !.cred = cred])

Take(c) ==
    /\ peer[c].took < Len(stream[c])
    /\ PeerDoes(c, [peer[c] EXCEPT !.took = @ + 1])

Leave(c) == PeerDoes(c, [peer[c] EXCEPT !.gone = TRUE])

Thread(c) ==
    \/ Setup(c) \/ Handshake(c) \/ Refused(c)
    \/ Read(c) \/ AuthOff(c) \/ AuthOn(c) \/ EnsureInit(c) \/ CheckAuth(c)
    \/ Respond(c)
    \/ Write(c) \/ Send(c) \/ Sent(c) \/ Want(c) \/ Poll(c)
    \/ Written(c) \/ Broken(c) \/ Close(c)

Peer(c) ==
    \/ Hello(c) \/ Take(c) \/ Leave(c)
    \/ \E cred \in {"right", "wrong"} : Request(c, cred)

Next ==
    \E c \in Conn :
       \/ \E r \in Roles, t \in Timeout : Open(c, r, t)
       \/ Thread(c) \/ Peer(c)

Spec == Init /\ [][Next]_vars

\* Threads are scheduled, and a peer that stays takes what is on the wire.
FairSpec == Spec /\ \A c \in Conn : WF_vars(Thread(c)) /\ WF_vars(Take(c))

-----------------------------------------------------------------------------
(* Properties.                                                             *)

\* A peer receives every byte once and in order, however often the record
\* layer asks to be called again.
BytesInOrder == \A c \in Conn : stream[c] = [i \in 1..Len(stream[c]) |-> i]

\* What rss_tls_write reports is on the wire, and what it does not report is
\* there only as a part of one record the error came in.
ReportIsTrue ==
    \A c \in Conn : result[c] # Pending =>
        LET reported == IF result[c] = -1 THEN 0 ELSE result[c] IN
        /\ reported <= Len(stream[c])
        /\ Len(stream[c]) < reported + Record

\* rss_tls_write: what it puts on the wire, and what it says of it.
WritesAreTrue == BytesInOrder /\ ReportIsTrue

\* A handshake, or the read of a request, never runs under the timeout of a
\* connection that was there before its own was opened.  (Connections opened
\* after it leave theirs in the conf that it uses.)
NoStaleTimeout ==
    \A c \in Conn : Waits(c) => read_timeout[role[c]] \in since[c]

\* Whoever fills the table, and however many do at first: once the others are
\* done with it, and before they come to it, the right credentials and no
\* others are accepted, and any when the authentication is disabled.
AuthAnswers ==
    \A c \in Conn : role[c] = "server" /\ pc[c] = "answered" /\ ~verdict[c].raced
        => verdict[c].ok <=> (verdict[c].off \/ peer[c].cred = "right")

\* Every call comes back, and its connection is freed: with a silent peer, one
\* that leaves, and one that takes its bytes slowly.
CallsReturn == \A c \in Conn : pc[c] # "idle" ~> pc[c] = "idle" /\ c \notin alive
=============================================================================
