---------------------------- MODULE HttpsProofs ----------------------------
(* What TLS connections and the authentication keep, for any connections,   *)
(* timeouts, and sizes of responses, records and socket buffers.            *)
EXTENDS Https, TLAPS

Labels == {"idle", "setup", "handshake", "read", "auth", "test", "clear", "fill", "flag",
           "decode", "answered", "write", "send", "poll", "close"}

Peers == [said : {"nothing", "hello", "request"}, cred : {"none", "right", "wrong"},
          took : Nat, gone : BOOLEAN]

Verdicts == [ok : BOOLEAN, off : BOOLEAN, raced : BOOLEAN]

TypeOK ==
    /\ pc \in [Conn -> Labels]
    /\ role \in [Conn -> Roles]
    /\ since \in [Conn -> SUBSET Nat]
    /\ read_timeout \in [Roles -> Nat]
    /\ b64 \in [table : {"zero", "cleared", "filled"}, ready : BOOLEAN]
    /\ verdict \in [Conn -> Verdicts]
    /\ written \in [Conn -> 0..Size]
    /\ rec \in [Conn -> Seq(Nat)]
    /\ stream \in [Conn -> Seq(Nat)]
    /\ result \in [Conn -> Int]
    /\ peer \in [Conn -> Peers]

\* Where the table is relied on, it is filled, or a thread is yet to fill it.
TableIsFilled ==
    b64.ready \/ (\E c \in Conn : pc[c] \in {"flag", "decode"})
        => b64.table = "filled" \/ Filling # {}

\* Credentials are what they were when the verdict was made.
Answered(c) ==
    role[c] = "server" /\ pc[c] = "answered" /\ ~verdict[c].raced
        => verdict[c].ok <=> (verdict[c].off \/ peer[c].cred = "right")

\* The pending record goes on where the stream ends, and what is counted and
\* what the pending call was given make up both of them.
Pends(c) ==
    /\ \A i \in 1..Len(stream[c]) : stream[c][i] = i
    /\ \A i \in 1..Len(rec[c]) : rec[c][i] = Len(stream[c]) + i
    /\ IF pc[c] = "send" \/ rec[c] # <<>>
       THEN /\ written[c] < Size /\ written[c] <= Len(stream[c])
            /\ Len(stream[c]) + Len(rec[c]) = written[c] + Least(Size - written[c], Record)
       ELSE Len(stream[c]) = written[c]

Reports(c) ==
    result[c] # Pending =>
        /\ pc[c] = "close"
        /\ result[c] = written[c] \/ (result[c] = -1 /\ written[c] = 0)

Writer(c) == Pends(c) /\ Reports(c)

Inv ==
    /\ TypeOK
    /\ TableIsFilled
    /\ NoStaleTimeout
    /\ \A c \in Conn : Answered(c) /\ Writer(c)

\* Before the server starts there is no connection.
LEMMA InitInv == Init => Inv
<1>. SUFFICES ASSUME Init PROVE Inv
  OBVIOUS
<1>1. pc = [c \in Conn |-> "idle"] /\ verdict = [c \in Conn |-> NoVerdict]
  BY DEF Init
<1>2. NoVerdict \in Verdicts /\ NewPeer \in Peers
  BY DEF NoVerdict, Verdicts, NewPeer, Peers
<1>3. TypeOK
  <2>1. b64 \in [table : {"zero", "cleared", "filled"}, ready : BOOLEAN]
    <3>1. CASE b64 = [table |-> "zero", ready |-> FALSE]
      BY <3>1
    <3>2. CASE b64 = [table |-> "filled", ready |-> TRUE]
      BY <3>2
    <3>. QED
      BY <3>1, <3>2 DEF Init
  <2>. QED
    BY <1>1, <1>2, <2>1, SizeAssumption DEF Init, TypeOK, Labels, Roles, Pending
<1>4. TableIsFilled /\ NoStaleTimeout /\ \A c \in Conn : Answered(c)
  BY <1>1 DEF Init, TableIsFilled, NoStaleTimeout, Waits, Answered
<1>5. ASSUME NEW c \in Conn PROVE Writer(c)
  BY <1>1, SizeAssumption DEF Init, Writer, Pends, Reports, Pending
<1>. QED
  BY <1>3, <1>4, <1>5 DEF Inv

\* What is written is sent in parts.
LEMMA Parts ==
    ASSUME NEW s \in Seq(Nat), NEW n \in 1..Len(s)
    PROVE  /\ SubSeq(s, 1, n) \in Seq(Nat) /\ Len(SubSeq(s, 1, n)) = n
           /\ \A i \in 1..n : SubSeq(s, 1, n)[i] = s[i]
           /\ SubSeq(s, n + 1, Len(s)) \in Seq(Nat)
           /\ Len(SubSeq(s, n + 1, Len(s))) = Len(s) - n
           /\ \A i \in 1..(Len(s) - n) : SubSeq(s, n + 1, Len(s))[i] = s[n + i]
OBVIOUS

\* A record of the bytes that follow.
LEMMA Numbered ==
    ASSUME NEW n \in Nat, NEW m \in Nat
    PROVE  /\ [i \in 1..n |-> m + i] \in Seq(Nat)
           /\ Len([i \in 1..n |-> m + i]) = n
           /\ \A j \in 1..n : [i \in 1..n |-> m + i][j] = m + j
OBVIOUS

\* A part behind what was sent before.
LEMMA Appended ==
    ASSUME NEW s \in Seq(Nat), NEW t \in Seq(Nat)
    PROVE  /\ s \o t \in Seq(Nat) /\ Len(s \o t) = Len(s) + Len(t)
           /\ \A i \in 1..Len(s) : (s \o t)[i] = s[i]
           /\ \A i \in 1..Len(t) : (s \o t)[Len(s) + i] = t[i]
OBVIOUS

\* A stream of its own indices.
LEMMA Counting ==
    ASSUME NEW s \in Seq(Nat), \A i \in 1..Len(s) : s[i] = i
    PROVE  s = [i \in 1..Len(s) |-> i]
OBVIOUS

\* What mbedtls_ssl_write takes of the bytes it is given.
LEMMA Taken ==
    ASSUME NEW c \in Conn, written[c] \in 0..Size
    PROVE  /\ Least(Size - written[c], Record) \in Nat
           /\ Least(Size - written[c], Record) <= Record
           /\ written[c] + Least(Size - written[c], Record) \in 0..Size
           /\ written[c] < Size => Least(Size - written[c], Record) > 0
BY SizeAssumption DEF Least

\* What write(2) takes of a record is a part of it.
LEMMA PartOf ==
    ASSUME TypeOK, NEW c \in Conn, NEW n \in 1..Least(Len(rec[c]), Free(c))
    PROVE  n \in 1..Len(rec[c])
<1>1. Len(rec[c]) \in Nat /\ Len(stream[c]) \in Nat
  BY DEF TypeOK
<1>2. peer[c].took \in Nat
  BY DEF TypeOK, Peers
<1>3. Free(c) \in Int
  BY <1>1, <1>2, SizeAssumption DEF Free
<1>. QED
  BY <1>1, <1>3 DEF Least

\* What a peer does next.
LEMMA PeerGoesOn ==
    ASSUME NEW p \in Peers
    PROVE  /\ [p EXCEPT !.said = "hello"] \in Peers
           /\ [p EXCEPT !.gone = TRUE] \in Peers
           /\ [p EXCEPT !.took = @ + 1] \in Peers
<1>1. [p EXCEPT !.said = "hello"] \in Peers /\ [p EXCEPT !.gone = TRUE] \in Peers
  BY DEF Peers
<1>2. [p EXCEPT !.took = @ + 1] \in Peers
  BY DEF Peers
<1>. QED
  BY <1>1, <1>2

\* A peer's request has credentials.
LEMMA PeerAsks ==
    ASSUME NEW p \in Peers, NEW cred \in {"right", "wrong"}
    PROVE  [p EXCEPT !.said = "request", !.cred = cred] \in Peers
BY DEF Peers

\* As long as a part of a record is pending, less than a record was sent of it.
LEMMA Short ==
    ASSUME NEW sent \in Nat, NEW left \in Nat, NEW count \in Nat, NEW given \in Nat,
           NEW most \in Nat, left > 0, sent + left = count + given, given <= most
    PROVE  sent < count + most
OBVIOUS

\* Each step keeps the types.
LEMMA NextTypeOK == ASSUME Inv, [Next]_vars PROVE TypeOK'
<1>. USE SizeAssumption DEF Inv, TypeOK, Labels, Goto, opened, writing
<1>0. UNCHANGED vars => TypeOK'
  BY DEF vars
<1>1. ASSUME NEW p \in Conn, EnsureInit(p) PROVE TypeOK'
  <2>1. PICK l \in Labels : pc' = [pc EXCEPT ![p] = l]
    <3>1. CASE Test(p)
      BY <3>1 DEF Test
    <3>2. CASE Clear(p) \/ Fill(p) \/ Flag(p)
      BY <3>2 DEF Clear, Fill, Flag, Table
    <3>. QED
      BY <1>1, <3>1, <3>2 DEF EnsureInit
  <2>2. PICK t \in {"zero", "cleared", "filled"}, y \in BOOLEAN : b64' = [table |-> t, ready |-> y]
    <3>1. CASE Test(p)
      BY <3>1 DEF Test
    <3>2. CASE Clear(p)
      BY <3>2 DEF Clear, Table
    <3>3. CASE Fill(p)
      BY <3>3 DEF Fill, Table
    <3>4. CASE Flag(p)
      BY <3>4 DEF Flag, Table
    <3>. QED
      BY <1>1, <3>1, <3>2, <3>3, <3>4 DEF EnsureInit
  <2>3. UNCHANGED <<opened, verdict, writing, peer>>
    BY <1>1 DEF EnsureInit, Test, Clear, Fill, Flag, Table
  <2>4. pc' \in [Conn -> Labels]
    BY <2>1
  <2>. QED
    BY <2>2, <2>3, <2>4
<1>2. ASSUME NEW c \in Conn, NEW r \in Roles, NEW t \in Timeout, Open(c, r, t) PROVE TypeOK'
  BY <1>2 DEF Open, ConfTimeout
<1>a. ASSUME NEW c \in Conn, Handshake(c) \/ Read(c) PROVE TypeOK'
  <2>1. PICK l \in Labels : pc' = [pc EXCEPT ![c] = l]
    BY <1>a DEF Handshake, Read
  <2>2. since' = since \/ since' = [since EXCEPT ![c] = {}]
    BY <1>a DEF Handshake, Read, Waited
  <2>3. UNCHANGED <<role, read_timeout, alive, b64, verdict, writing, peer>>
    BY <1>a DEF Handshake, Read, Waited
  <2>. QED
    BY <2>1, <2>2, <2>3
<1>b. ASSUME NEW c \in Conn, AuthOff(c) \/ AuthOn(c) \/ CheckAuth(c) \/ Respond(c) PROVE TypeOK'
  <2>1. PICK l \in Labels : pc' = [pc EXCEPT ![c] = l]
    BY <1>b DEF AuthOff, AuthOn, CheckAuth, Respond, Answer
  <2>2. verdict' \in [Conn -> Verdicts]
    <3>1. verdict' = verdict \/ \E v \in Verdicts : verdict' = [verdict EXCEPT ![c] = v]
      <4>1. CASE CheckAuth(c)
        BY <4>1 DEF CheckAuth, Answer, Verdicts
      <4>2. CASE AuthOff(c) \/ AuthOn(c) \/ Respond(c)
        BY <4>2 DEF AuthOff, AuthOn, Respond, Answer, Verdicts, NoVerdict
      <4>. QED
        BY <1>b, <4>1, <4>2
    <3>. QED
      BY <3>1
  <2>3. UNCHANGED <<opened, b64, writing, peer>>
    BY <1>b DEF AuthOff, AuthOn, CheckAuth, Respond, Answer
  <2>4. pc' \in [Conn -> Labels]
    BY <2>1
  <2>. QED
    BY <2>2, <2>3, <2>4
<1>3. ASSUME NEW c \in Conn, Setup(c) \/ Want(c) \/ Poll(c)
      PROVE  TypeOK'
  <2>1. UNCHANGED <<opened, b64, verdict, writing, peer>>
    BY <1>3 DEF Setup, Want, Poll
  <2>2. PICK l \in Labels : pc' = [pc EXCEPT ![c] = l]
    BY <1>3 DEF Setup, Want, Poll
  <2>3. pc' \in [Conn -> Labels]
    BY <2>2
  <2>. QED
    BY <2>1, <2>3
<1>4. ASSUME NEW c \in Conn, Refused(c) \/ Close(c) PROVE TypeOK'
  <2>1. NewPeer \in Peers /\ Pending \in Int /\ "server" \in Roles /\ NoVerdict \in Verdicts
    BY DEF NewPeer, Peers, Pending, Roles, NoVerdict, Verdicts
  <2>2. <<>> \in Seq(Nat)
    OBVIOUS
  <2>3. Freed(c)
    BY <1>4 DEF Refused, Close
  <2>4. pc' \in [Conn -> Labels] /\ role' \in [Conn -> Roles] /\ since' \in [Conn -> SUBSET Nat]
    BY <2>1, <2>3 DEF Freed
  <2>5. verdict' \in [Conn -> Verdicts] /\ written' \in [Conn -> 0..Size] /\ result' \in [Conn -> Int]
    BY <2>1, <2>3 DEF Freed
  <2>6. rec' \in [Conn -> Seq(Nat)] /\ stream' \in [Conn -> Seq(Nat)] /\ peer' \in [Conn -> Peers]
    BY <2>1, <2>2, <2>3 DEF Freed
  <2>7. read_timeout' \in [Roles -> Nat] /\ b64' = b64
    BY <2>3 DEF Freed
  <2>. QED
    BY <2>4, <2>5, <2>6, <2>7
<1>6. ASSUME NEW c \in Conn, Write(c) PROVE TypeOK'
  <2>. DEFINE n == Least(Size - written[c], Record)
              new == [i \in 1..n |-> written[c] + i]
  <2>0. rec' = [rec EXCEPT ![c] = IF rec[c] # <<>> THEN rec[c] ELSE new]
    BY <1>6 DEF Write
  <2>1. n \in Nat /\ written[c] \in Nat
    BY Taken
  <2>. HIDE DEF n
  <2>2. new \in Seq(Nat)
    <3>1. ASSUME NEW k \in Nat, NEW m \in Nat PROVE [i \in 1..k |-> m + i] \in Seq(Nat)
      BY Numbered
    <3>. QED
      BY <2>1, <3>1
  <2>. HIDE DEF new
  <2>3. PICK s \in Seq(Nat) : rec' = [rec EXCEPT ![c] = s]
    <3>1. CASE rec[c] = <<>>
      BY <2>0, <2>2, <3>1
    <3>2. CASE rec[c] # <<>>
      BY <2>0, <3>2
    <3>. QED
      BY <3>1, <3>2
  <2>4. /\ pc' = [pc EXCEPT ![c] = "send"]
        /\ UNCHANGED <<opened, b64, verdict, written, stream, result, peer>>
    BY <1>6 DEF Write
  <2>5. rec' \in [Conn -> Seq(Nat)] /\ pc' \in [Conn -> Labels]
    BY <2>3, <2>4
  <2>. QED
    BY <2>4, <2>5
<1>7. ASSUME NEW c \in Conn, Send(c) PROVE TypeOK'
  <2>1. PICK n \in 1..Least(Len(rec[c]), Free(c)) :
           /\ stream' = [stream EXCEPT ![c] = @ \o SubSeq(rec[c], 1, n)]
           /\ rec' = [rec EXCEPT ![c] = SubSeq(rec[c], n + 1, Len(rec[c]))]
    BY <1>7 DEF Send
  <2>2. n \in 1..Len(rec[c])
    BY <2>1, PartOf
  <2>3. SubSeq(rec[c], 1, n) \in Seq(Nat) /\ SubSeq(rec[c], n + 1, Len(rec[c])) \in Seq(Nat)
    BY <2>2, Parts
  <2>4. stream[c] \o SubSeq(rec[c], 1, n) \in Seq(Nat)
    BY <2>3
  <2>. QED
    BY <1>7, <2>1, <2>3, <2>4 DEF Send
<1>8. ASSUME NEW c \in Conn, Sent(c) PROVE TypeOK'
  <2>1. written[c] + Least(Size - written[c], Record) \in 0..Size
    BY Taken
  <2>. QED
    BY <1>8, <2>1 DEF Sent
<1>9. ASSUME NEW c \in Conn, Written(c) \/ Broken(c) PROVE TypeOK'
  <2>1. PICK n \in Int : result' = [result EXCEPT ![c] = n]
    BY <1>9 DEF Written, Broken, Returns
  <2>2. /\ pc' = [pc EXCEPT ![c] = "close"]
        /\ UNCHANGED <<opened, b64, verdict, written, rec, stream, peer>>
    BY <1>9 DEF Written, Broken, Returns
  <2>3. result' \in [Conn -> Int] /\ pc' \in [Conn -> Labels]
    BY <2>1, <2>2
  <2>. QED
    BY <2>2, <2>3
<1>10. ASSUME NEW c \in Conn, Peer(c) PROVE TypeOK'
  <2>1. PICK x \in Peers : peer' = [peer EXCEPT ![c] = x]
    <3>1. PICK x : /\ PeerDoes(c, x)
                   /\ \/ x \in {[peer[c] EXCEPT !.said = "hello"], [peer[c] EXCEPT !.gone = TRUE],
                               [peer[c] EXCEPT !.took = @ + 1]}
                      \/ \E cred \in {"right", "wrong"} :
                           x = [peer[c] EXCEPT !.said = "request", !.cred = cred]
      BY <1>10 DEF Peer, Hello, Take, Leave, Request
    <3>2. peer[c] \in Peers
      OBVIOUS
    <3>3. x \in Peers
      <4>1. CASE x \in {[peer[c] EXCEPT !.said = "hello"], [peer[c] EXCEPT !.gone = TRUE],
                        [peer[c] EXCEPT !.took = @ + 1]}
        BY <3>2, <4>1, PeerGoesOn
      <4>2. ASSUME NEW cred \in {"right", "wrong"},
                   x = [peer[c] EXCEPT !.said = "request", !.cred = cred]
            PROVE  x \in Peers
        BY <3>2, <4>2, PeerAsks
      <4>. QED
        BY <3>1, <4>1, <4>2
    <3>. QED
      BY <3>1, <3>3 DEF PeerDoes
  <2>2. UNCHANGED <<pc, opened, b64, verdict, writing>>
    BY <1>10 DEF Peer, Hello, Take, Leave, Request, PeerDoes
  <2>. QED
    BY <2>1, <2>2
<1>. QED
  BY <1>0, <1>1, <1>2, <1>a, <1>b, <1>3, <1>4, <1>6, <1>7, <1>8, <1>9, <1>10 DEF Next, Thread

Same(d) ==
    /\ pc'[d] = pc[d] /\ role'[d] = role[d] /\ verdict'[d] = verdict[d]
    /\ peer'[d] = peer[d] /\ written'[d] = written[d] /\ rec'[d] = rec[d]
    /\ stream'[d] = stream[d] /\ result'[d] = result[d]

ConnStep(c) ==
    Thread(c) \/ Peer(c) \/ \E r \in Roles, t \in Timeout : Open(c, r, t)

\* What a connection does is nothing to another one.
LEMMA OthersSame ==
    ASSUME TypeOK, NEW c \in Conn, ConnStep(c), NEW d \in Conn, d # c
    PROVE  Same(d)
<1>. USE DEF TypeOK, Goto, opened, writing, Same
<1>1. CASE Setup(c) \/ Handshake(c) \/ Read(c) \/ Want(c) \/ Poll(c)
  BY <1>1 DEF Setup, Handshake, Read, Want, Poll, Waited
<1>8. CASE AuthOff(c) \/ AuthOn(c) \/ CheckAuth(c) \/ Respond(c)
  BY <1>8 DEF AuthOff, AuthOn, CheckAuth, Respond, Answer
<1>2. CASE Refused(c) \/ Close(c)
  BY <1>2 DEF Refused, Close, Freed
<1>3. CASE Write(c) \/ Send(c) \/ Sent(c)
  BY <1>3 DEF Write, Send, Sent
<1>4. CASE Written(c) \/ Broken(c)
  BY <1>4 DEF Written, Broken, Returns
<1>5. CASE Peer(c)
  BY <1>5 DEF Peer, Hello, Take, Leave, Request, PeerDoes
<1>6. CASE EnsureInit(c)
  BY <1>6 DEF EnsureInit, Test, Clear, Fill, Flag, Table
<1>7. ASSUME NEW r \in Roles, NEW t \in Timeout, Open(c, r, t) PROVE Same(d)
  BY <1>7 DEF Open
<1>. QED
  BY <1>1, <1>2, <1>3, <1>4, <1>5, <1>6, <1>7, <1>8 DEF Thread, ConnStep

\* The steps of a connection other than those of b64_ensure_init.
Apart(c) == Thread(c) /\ ~EnsureInit(c)

\* They leave the table alone, and take no thread to it or from it.
LEMMA ApartFromTable ==
    ASSUME TypeOK, NEW c \in Conn,
           Apart(c) \/ Peer(c) \/ \E r \in Roles, t \in Timeout : Open(c, r, t)
    PROVE  /\ UNCHANGED b64
           /\ \A d \in Conn : pc'[d] \in {"clear", "fill", "flag", "decode"} => pc'[d] = pc[d]
           /\ pc[c] \notin {"clear", "fill"} \/ pc' = pc
<1>. USE DEF TypeOK, Goto
<1>1. CASE Setup(c) \/ Handshake(c) \/ Read(c) \/ Want(c) \/ Poll(c)
  BY <1>1 DEF Setup, Handshake, Read, Want, Poll
<1>2. CASE AuthOff(c) \/ AuthOn(c) \/ CheckAuth(c) \/ Respond(c)
  BY <1>2 DEF AuthOff, AuthOn, CheckAuth, Respond, Answer
<1>3. CASE Refused(c) \/ Close(c)
  BY <1>3 DEF Refused, Close, Freed
<1>4. CASE Write(c) \/ Send(c) \/ Sent(c)
  BY <1>4 DEF Write, Send, Sent
<1>5. CASE Written(c) \/ Broken(c)
  BY <1>5 DEF Written, Broken, Returns
<1>6. CASE Peer(c)
  BY <1>6 DEF Peer, Hello, Take, Leave, Request, PeerDoes
<1>7. ASSUME NEW r \in Roles, NEW t \in Timeout, Open(c, r, t)
      PROVE  /\ UNCHANGED b64
             /\ \A d \in Conn : pc'[d] \in {"clear", "fill", "flag", "decode"} => pc'[d] = pc[d]
             /\ pc[c] \notin {"clear", "fill"}
  BY <1>7 DEF Open
<1>. QED
  BY <1>1, <1>2, <1>3, <1>4, <1>5, <1>6, <1>7 DEF Apart, Thread

\* Whoever empties the table fills it again before it goes on, and who has seen
\* the flag finds the table filled or somebody about to fill it.
LEMMA NextTableIsFilled == ASSUME Inv, [Next]_vars PROVE TableIsFilled'
<1>. USE DEF Inv, TypeOK, TableIsFilled, Filling, Goto
<1>1. ASSUME NEW c \in Conn, Test(c) PROVE TableIsFilled'
  BY <1>1 DEF Test
<1>2. ASSUME NEW c \in Conn, Clear(c) PROVE TableIsFilled'
  BY <1>2 DEF Clear, Table
<1>3. ASSUME NEW c \in Conn, Fill(c) PROVE TableIsFilled'
  BY <1>3 DEF Fill, Table
<1>4. ASSUME NEW c \in Conn, Flag(c) PROVE TableIsFilled'
  BY <1>4 DEF Flag, Table
<1>5. ASSUME NEW c \in Conn,
             Apart(c) \/ Peer(c) \/ \E r \in Roles, t \in Timeout : Open(c, r, t)
      PROVE  TableIsFilled'
  <2>1. /\ UNCHANGED b64
        /\ \A d \in Conn : pc'[d] \in {"clear", "fill", "flag", "decode"} => pc'[d] = pc[d]
        /\ pc[c] \notin {"clear", "fill"} \/ pc' = pc
    BY <1>5, ApartFromTable
  <2>2. \A d \in Conn : d # c => pc'[d] = pc[d]
    BY <1>5, OthersSame DEF Apart, ConnStep, Same
  <2>. QED
    BY <2>1, <2>2
<1>6. CASE UNCHANGED vars
  BY <1>6 DEF vars
<1>. QED
  BY <1>1, <1>2, <1>3, <1>4, <1>5, <1>6 DEF Next, Apart, EnsureInit

\* A connection's own steps leave the timeouts alone, and the history of each
\* connection that goes on waiting.
LEMMA ThreadKeepsTimeouts ==
    ASSUME TypeOK, NEW c \in Conn, Thread(c) \/ Peer(c)
    PROVE  /\ UNCHANGED read_timeout
           /\ \A d \in Conn : Waits(d)' =>
                Waits(d) /\ role'[d] = role[d] /\ since'[d] = since[d]
<1>. USE DEF TypeOK, Goto, opened, Waits
<1>1. CASE Setup(c) \/ Want(c) \/ Poll(c)
  BY <1>1 DEF Setup, Want, Poll
<1>2. CASE Handshake(c) \/ Read(c)
  BY <1>2 DEF Handshake, Read, Waited
<1>3. CASE AuthOff(c) \/ AuthOn(c) \/ CheckAuth(c) \/ Respond(c)
  BY <1>3 DEF AuthOff, AuthOn, CheckAuth, Respond, Answer
<1>4. CASE Refused(c) \/ Close(c)
  BY <1>4 DEF Refused, Close, Freed
<1>5. CASE Write(c) \/ Send(c) \/ Sent(c)
  BY <1>5 DEF Write, Send, Sent
<1>6. CASE Written(c) \/ Broken(c)
  BY <1>6 DEF Written, Broken, Returns
<1>7. CASE Peer(c)
  BY <1>7 DEF Peer, Hello, Take, Leave, Request, PeerDoes
<1>8. CASE EnsureInit(c)
  BY <1>8 DEF EnsureInit, Test, Clear, Fill, Flag, Table
<1>. QED
  BY <1>1, <1>2, <1>3, <1>4, <1>5, <1>6, <1>7, <1>8 DEF Thread

\* Only the opening of a connection sets the timeout of the conf, and it goes
\* into the history of every connection of its role that waits.
LEMMA NextNoStaleTimeout == ASSUME Inv, [Next]_vars PROVE NoStaleTimeout'
<1>. USE DEF Inv, NoStaleTimeout
<1>1. ASSUME NEW c \in Conn, NEW r \in Roles, NEW t \in Timeout, Open(c, r, t)
      PROVE  NoStaleTimeout'
  <2>1. /\ pc' = [pc EXCEPT ![c] = "setup"] /\ role' = [role EXCEPT ![c] = r]
        /\ read_timeout' = [read_timeout EXCEPT ![r] = t]
        /\ \A d \in Conn : since'[d] = IF d = c THEN {t}
                              ELSE IF Waits(d) /\ role[d] = r THEN since[d] \cup {t}
                              ELSE since[d]
    BY <1>1 DEF Open, ConfTimeout, Goto
  <2>2. ASSUME NEW d \in Conn, Waits(d)' PROVE read_timeout'[role'[d]] \in since'[d]
    <3>1. CASE d = c
      BY <2>1, <3>1 DEF TypeOK
    <3>2. CASE d # c /\ role[d] = r
      BY <2>1, <2>2, <3>2 DEF TypeOK, Waits
    <3>3. CASE d # c /\ role[d] # r
      BY <2>1, <2>2, <3>3 DEF TypeOK, Waits
    <3>. QED
      BY <3>1, <3>2, <3>3
  <2>. QED
    BY <2>2
<1>2. ASSUME NEW c \in Conn, Thread(c) \/ Peer(c) PROVE NoStaleTimeout'
  BY <1>2, ThreadKeepsTimeouts
<1>3. CASE UNCHANGED vars
  BY <1>3 DEF vars, opened, Waits
<1>. QED
  BY <1>1, <1>2, <1>3 DEF Next

\* The verdict is made with the filled table, and the peer's credentials came before.
LEMMA StepAnswers == ASSUME Inv, NEW c \in Conn, ConnStep(c) PROVE Answered(c)'
<1>0. TypeOK /\ Answered(c)
  BY DEF Inv
<1>. USE <1>0 DEF TypeOK, Goto, opened, writing, Answered
<1>1. CASE Setup(c) \/ Handshake(c) \/ Read(c) \/ Want(c) \/ Poll(c) \/ EnsureInit(c)
  BY <1>1 DEF Setup, Handshake, Read, Want, Poll, EnsureInit, Test, Clear, Fill, Flag, Table
<1>2. CASE AuthOff(c)
  <2>1. verdict'[c] = [NoVerdict EXCEPT !.ok = TRUE, !.off = TRUE]
    BY <1>2 DEF AuthOff, Answer
  <2>2. verdict'[c] = [ok |-> TRUE, off |-> TRUE, raced |-> FALSE]
    BY <2>1 DEF NoVerdict
  <2>3. verdict'[c].ok = TRUE /\ verdict'[c].off = TRUE
    BY <2>2
  <2>4. verdict'[c].ok <=> (verdict'[c].off \/ peer'[c].cred = "right")
    BY <2>3, Zenon
  <2>. QED
    BY <2>4
<1>11. CASE AuthOn(c)
  <2>1. pc'[c] = "answered" =>
          verdict'[c] = NoVerdict /\ peer[c].cred = "wrong" /\ peer' = peer
    BY <1>11 DEF AuthOn, Answer
  <2>. QED
    BY <2>1 DEF NoVerdict
<1>12. CASE Respond(c)
  BY <1>12 DEF Respond
<1>3. CASE CheckAuth(c)
  <2>1. PICK ok \in IF Filling # {} THEN BOOLEAN
                    ELSE {b64.table = "filled" /\ peer[c].cred = "right"} :
          verdict' = [verdict EXCEPT ![c] =
                        [ok |-> ok, off |-> FALSE, raced |-> Filling # {}]]
    BY <1>3 DEF CheckAuth, Answer
  <2>2. Filling = {} => b64.table = "filled"
    BY <1>3 DEF CheckAuth, Inv, TableIsFilled
  <2>3. Filling = {} => verdict'[c].ok <=> (verdict'[c].off \/ peer[c].cred = "right")
    BY <2>1, <2>2
  <2>4. verdict'[c].raced = (Filling # {}) /\ peer' = peer
    BY <1>3, <2>1 DEF CheckAuth, Answer
  <2>. QED
    BY <2>3, <2>4
<1>4. CASE Refused(c) \/ Close(c)
  BY <1>4 DEF Refused, Close, Freed
<1>5. CASE Write(c) \/ Send(c) \/ Sent(c)
  BY <1>5 DEF Write, Send, Sent
<1>6. CASE Written(c) \/ Broken(c)
  BY <1>6 DEF Written, Broken, Returns
<1>7. CASE Hello(c) \/ Take(c) \/ Leave(c)
  <2>1. peer'[c].cred = peer[c].cred
    BY <1>7 DEF Hello, Take, Leave, PeerDoes, Peers
  <2>. QED
    BY <1>7, <2>1 DEF Hello, Take, Leave, PeerDoes
<1>8. ASSUME NEW x \in {"right", "wrong"}, Request(c, x) PROVE Answered(c)'
  BY <1>8 DEF Request, PeerDoes
<1>10. ASSUME NEW r \in Roles, NEW t \in Timeout, Open(c, r, t) PROVE Answered(c)'
  BY <1>10 DEF Open
<1>. QED
  BY <1>1, <1>2, <1>3, <1>4, <1>5, <1>6, <1>7, <1>8, <1>10, <1>11, <1>12
     DEF ConnStep, Thread, Peer

\* A record is made of bytes that were not sent before, and sent to its end before
\* it is counted, whatever interrupts the loop of rss_tls_write.
LEMMA StepWrites == ASSUME Inv, NEW c \in Conn, ConnStep(c) PROVE Writer(c)'
<1>0. TypeOK /\ Pends(c) /\ Reports(c)
  BY DEF Inv, Writer
<1>. USE DEF Writer
<1>a. /\ written[c] \in Nat /\ written[c] \in 0..Size /\ Size \in Nat
      /\ rec[c] \in Seq(Nat) /\ stream[c] \in Seq(Nat)
  BY <1>0, SizeAssumption DEF TypeOK
<1>b. /\ c \in DOMAIN pc /\ pc = [p \in DOMAIN pc |-> pc[p]]
      /\ c \in DOMAIN written /\ c \in DOMAIN rec
      /\ c \in DOMAIN stream /\ c \in DOMAIN result
  BY <1>0 DEF TypeOK
<1>c. stream \in [Conn -> Seq(Nat)] /\ rec \in [Conn -> Seq(Nat)] /\ written \in [Conn -> 0..Size]
  BY <1>0 DEF TypeOK
<1>1. ASSUME UNCHANGED writing, pc[c] # "close" \/ pc'[c] = "close",
             pc[c] = "send" => pc'[c] = "send" \/ rec[c] # <<>>,
             pc'[c] = "send" => pc[c] = "send"
      PROVE  Writer(c)'
  BY <1>0, <1>1 DEF writing, Pends, Reports
<1>2. CASE Setup(c) \/ Handshake(c) \/ Read(c) \/ Want(c) \/ Poll(c)
  BY <1>1, <1>2, <1>b DEF Setup, Handshake, Read, Want, Poll, Goto, writing
<1>12. CASE AuthOff(c) \/ AuthOn(c) \/ CheckAuth(c) \/ Respond(c)
  BY <1>1, <1>12, <1>b DEF AuthOff, AuthOn, CheckAuth, Respond, Answer, Goto
<1>3. CASE Refused(c) \/ Close(c)
  <2>1. /\ rec'[c] = <<>> /\ stream'[c] = <<>> /\ written'[c] = 0
        /\ result'[c] = Pending /\ pc'[c] = "idle"
    BY <1>3, <1>b DEF Refused, Close, Freed, Goto
  <2>2. Len(<<>>) = 0
    OBVIOUS
  <2>. QED
    BY <2>1, <2>2 DEF Pends, Reports
<1>4. CASE Write(c)
  <2>. DEFINE n == Least(Size - written[c], Record)
              new == [i \in 1..n |-> written[c] + i]
  <2>1. /\ pc'[c] = "send" /\ UNCHANGED <<written, stream, result>>
        /\ rec'[c] = IF rec[c] # <<>> THEN rec[c] ELSE new
        /\ pc[c] = "write" /\ written[c] < Size
    BY <1>4, <1>b DEF Write, Goto
  <2>2. CASE rec[c] # <<>>
    BY <1>0, <2>1, <2>2 DEF Pends, Reports
  <2>3. CASE rec[c] = <<>>
    <3>1. n \in Nat /\ n > 0
      BY <1>a, <2>1, Taken
    <3>2. Len(new) = n /\ \A j \in 1..n : new[j] = written[c] + j
      BY <3>1, <1>a, Numbered
    <3>3. Len(stream[c]) = written[c]
      BY <1>0, <2>1, <2>3 DEF Pends
    <3>4. rec'[c] = new
      BY <2>1, <2>3
    <3>. HIDE DEF new, n
    <3>5. Pends(c)'
      BY <1>0, <1>a, <2>1, <3>1, <3>2, <3>3, <3>4 DEF Pends, n
    <3>. QED
      BY <1>0, <2>1, <3>5 DEF Reports
  <2>. QED
    BY <2>2, <2>3
<1>5. CASE Send(c)
  <2>1. PICK n \in 1..Least(Len(rec[c]), Free(c)) :
           /\ stream' = [stream EXCEPT ![c] = @ \o SubSeq(rec[c], 1, n)]
           /\ rec' = [rec EXCEPT ![c] = SubSeq(rec[c], n + 1, Len(rec[c]))]
    BY <1>5 DEF Send
  <2>2. n \in 1..Len(rec[c])
    BY <1>0, <2>1, PartOf
  <2>. DEFINE front == SubSeq(rec[c], 1, n)
              back  == SubSeq(rec[c], n + 1, Len(rec[c]))
  <2>3. /\ front \in Seq(Nat) /\ Len(front) = n /\ \A i \in 1..n : front[i] = rec[c][i]
        /\ back \in Seq(Nat) /\ Len(back) = Len(rec[c]) - n
        /\ \A i \in 1..(Len(rec[c]) - n) : back[i] = rec[c][n + i]
    BY <1>a, <2>2, Parts
  <2>4. stream'[c] = stream[c] \o front /\ rec'[c] = back
    BY <1>b, <2>1
  <2>. HIDE DEF front, back
  <2>5. /\ Len(stream[c] \o front) = Len(stream[c]) + n
        /\ \A i \in 1..Len(stream[c]) : (stream[c] \o front)[i] = stream[c][i]
        /\ \A i \in 1..n : (stream[c] \o front)[Len(stream[c]) + i] = front[i]
    <3>1. /\ Len(stream[c] \o front) = Len(stream[c]) + Len(front)
          /\ \A i \in 1..Len(stream[c]) : (stream[c] \o front)[i] = stream[c][i]
          /\ \A i \in 1..Len(front) : (stream[c] \o front)[Len(stream[c]) + i] = front[i]
      BY <1>a, <2>3, Appended
    <3>. QED
      BY <2>3, <3>1
  <2>a. /\ n \in Nat /\ Len(stream[c]) \in Nat /\ Len(rec[c]) \in Nat
        /\ Len(stream'[c]) = Len(stream[c]) + n /\ Len(rec'[c]) = Len(rec[c]) - n
    <3>1. Len(stream[c]) \in Nat /\ Len(rec[c]) \in Nat
      BY <1>a
    <3>2. n \in Nat
      BY <2>2, <3>1
    <3>3. Len(stream'[c]) = Len(stream[c]) + n /\ Len(rec'[c]) = Len(rec[c]) - n
      BY <2>3, <2>4, <2>5
    <3>. QED
      BY <3>1, <3>2, <3>3
  <2>6. pc'[c] = "send" /\ pc[c] = "send" /\ UNCHANGED <<written, result>>
    BY <1>5 DEF Send
  <2>7. \A i \in 1..Len(stream'[c]) : stream'[c][i] = i
    <3>1. TAKE i \in 1..Len(stream'[c])
    <3>2. CASE i <= Len(stream[c])
      BY <1>0, <2>a, <2>4, <2>5, <3>2 DEF Pends
    <3>3. CASE i > Len(stream[c])
      <4>1. PICK j \in 1..n : i = Len(stream[c]) + j
        <5>1. i - Len(stream[c]) \in 1..n /\ i = Len(stream[c]) + (i - Len(stream[c]))
          BY <2>a, <3>3
        <5>. QED
          BY <5>1
      <4>2. front[j] = Len(stream[c]) + j
        <5>1. j \in 1..Len(rec[c])
          BY <2>2, <2>a
        <5>. QED
          BY <1>0, <2>3, <5>1 DEF Pends
      <4>. QED
        BY <2>4, <2>5, <4>1, <4>2
    <3>. QED
      BY <2>a, <3>2, <3>3
  <2>8. \A i \in 1..Len(rec'[c]) : rec'[c][i] = Len(stream'[c]) + i
    <3>1. \A i \in 1..(Len(rec[c]) - n) : rec[c][n + i] = Len(stream[c]) + n + i
      BY <1>0, <2>a, <2>2 DEF Pends
    <3>. QED
      <4>1. \A i \in 1..(Len(rec[c]) - n) : rec'[c][i] = rec[c][n + i]
        BY <2>3, <2>4
      <4>. QED
        BY <2>a, <3>1, <4>1
  <2>9. Len(stream'[c]) + Len(rec'[c]) = Len(stream[c]) + Len(rec[c])
    BY <1>c, <2>a
  <2>10. /\ written[c] < Size /\ written[c] <= Len(stream[c])
         /\ Len(stream[c]) + Len(rec[c]) = written[c] + Least(Size - written[c], Record)
    BY <1>0, <2>6 DEF Pends
  <2>11. written[c] <= Len(stream'[c])
    BY <1>c, <2>a, <2>10
  <2>12. Pends(c)'
    BY <2>6, <2>7, <2>8, <2>9, <2>10, <2>11 DEF Pends
  <2>. QED
    BY <1>0, <2>6, <2>12 DEF Reports
<1>6. CASE Sent(c)
  <2>1. /\ written'[c] = written[c] + Least(Size - written[c], Record)
        /\ pc'[c] = "write" /\ pc[c] = "send" /\ rec[c] = <<>>
        /\ UNCHANGED <<rec, stream, result>>
    BY <1>6, <1>b DEF Sent, Goto
  <2>2. Len(stream[c]) = written[c] + Least(Size - written[c], Record)
    <3>1. Len(rec[c]) = 0 /\ Len(stream[c]) \in Nat
      BY <1>a, <2>1
    <3>. QED
      BY <1>0, <1>a, <2>1, <3>1, Taken DEF Pends
  <2>. QED
    BY <1>0, <2>1, <2>2 DEF Pends, Reports
<1>7. CASE Written(c)
  BY <1>0, <1>a, <1>b, <1>7 DEF Written, Returns, Goto, Pends, Reports
<1>8. CASE Broken(c)
  BY <1>0, <1>a, <1>b, <1>8 DEF Broken, Returns, Goto, Pends, Reports
<1>9. CASE Peer(c)
  BY <1>1, <1>9, <1>b DEF Peer, Hello, Take, Leave, Request, PeerDoes
<1>10. CASE EnsureInit(c)
  BY <1>1, <1>10, <1>b DEF EnsureInit, Test, Clear, Fill, Flag, Table, Goto
<1>11. ASSUME NEW r \in Roles, NEW t \in Timeout, Open(c, r, t) PROVE Writer(c)'
  BY <1>1, <1>11, <1>b DEF Open, Goto
<1>. QED
  BY <1>2, <1>3, <1>4, <1>5, <1>6, <1>7, <1>8, <1>9, <1>10, <1>11, <1>12
     DEF ConnStep, Thread

\* Every step of a connection and of its peer keeps the inductive invariant.
LEMMA NextInv == ASSUME Inv, [Next]_vars PROVE Inv'
<1>1. TypeOK' /\ TableIsFilled' /\ NoStaleTimeout'
  BY NextTypeOK, NextTableIsFilled, NextNoStaleTimeout
<1>2. ASSUME NEW c \in Conn, ConnStep(c), NEW d \in Conn PROVE Answered(d)' /\ Writer(d)'
  <2>1. CASE d = c
    BY <1>2, <2>1, StepAnswers, StepWrites
  <2>2. CASE d # c
    <3>1. Same(d) /\ Answered(d) /\ Writer(d)
      BY <1>2, <2>2, OthersSame DEF Inv
    <3>. QED
      BY <3>1 DEF Same, Answered, Writer, Pends, Reports
  <2>. QED
    BY <2>1, <2>2
<1>3. ASSUME NEW d \in Conn, Same(d) PROVE Answered(d)' /\ Writer(d)'
  <2>1. Answered(d) /\ Pends(d) /\ Reports(d)
    BY DEF Inv, Writer
  <2>2. Answered(d)'
    BY <1>3, <2>1 DEF Same, Answered
  <2>3. Pends(d)' /\ Reports(d)'
    BY <1>3, <2>1 DEF Same, Pends, Reports
  <2>. QED
    BY <2>2, <2>3 DEF Writer
<1>4. CASE UNCHANGED vars
  <2>1. \A d \in Conn : Same(d)
    BY <1>4 DEF opened, writing, vars, Same
  <2>. QED
    BY <1>1, <1>3, <2>1 DEF Inv
<1>. QED
  BY <1>1, <1>2, <1>4 DEF Next, ConnStep, Inv

\* Connections of a context keep the inductive invariant, for any number of them,
\* timeouts, and sizes of responses, records and socket buffers.
THEOREM Invariance == Spec => []Inv
<1>1. Init => Inv
  BY InitInv
<1>2. Inv /\ [Next]_vars => Inv'
  BY NextInv
<1>. QED
  BY <1>1, <1>2, PTL DEF Spec

\* rss_tls_write puts every byte on the wire once and in order, and reports what
\* is there.
THEOREM WritesTrue == Spec => []WritesAreTrue
<1>1. Inv => WritesAreTrue
  <2>. SUFFICES ASSUME Inv, NEW c \in Conn
                PROVE  /\ stream[c] = [i \in 1..Len(stream[c]) |-> i]
                       /\ result[c] # Pending =>
                            LET reported == IF result[c] = -1 THEN 0 ELSE result[c] IN
                            /\ reported <= Len(stream[c])
                            /\ Len(stream[c]) < reported + Record
    BY DEF WritesAreTrue, BytesInOrder, ReportIsTrue
  <2>1. /\ stream[c] \in Seq(Nat) /\ rec[c] \in Seq(Nat) /\ written[c] \in 0..Size
        /\ Pends(c) /\ Reports(c)
    BY DEF Inv, TypeOK, Writer
  <2>2. stream[c] = [i \in 1..Len(stream[c]) |-> i]
    BY <2>1, Counting DEF Pends
  <2>3. pc[c] = "close" =>
          written[c] <= Len(stream[c]) /\ Len(stream[c]) < written[c] + Record
    <3>1. CASE pc[c] = "close" /\ rec[c] # <<>>
      <4>1. Len(rec[c]) > 0 /\ Len(rec[c]) \in Nat /\ Len(stream[c]) \in Nat
        BY <2>1, <3>1
      <4>2. /\ Least(Size - written[c], Record) \in Nat
            /\ Least(Size - written[c], Record) <= Record
        BY <2>1, Taken
      <4>3. /\ Len(stream[c]) + Len(rec[c]) = written[c] + Least(Size - written[c], Record)
            /\ written[c] <= Len(stream[c])
        BY <2>1, <3>1 DEF Pends
      <4>4. written[c] \in Nat /\ Record \in Nat
        BY <2>1, SizeAssumption
      <4>. QED
        BY <4>1, <4>2, <4>3, <4>4, Short
    <3>2. CASE pc[c] = "close" /\ rec[c] = <<>>
      BY <2>1, <3>2, SizeAssumption DEF Pends
    <3>. QED
      BY <3>1, <3>2
  <2>. QED
    BY <2>1, <2>2, <2>3, SizeAssumption DEF Reports
<1>. QED
  BY <1>1, Invariance, PTL

\* However many connections of a context are opened at a time, none waits under
\* a timeout that was in the conf before it was opened.
THEOREM TimeoutsAreNotStale == Spec => []NoStaleTimeout
<1>1. Inv => NoStaleTimeout
  BY DEF Inv
<1>. QED
  BY <1>1, Invariance, PTL

\* Whichever threads fill the table, and however many at first: a verdict made
\* while no other thread is about to write to it is right, and TRUE when the
\* authentication is disabled.
THEOREM VerdictsAreRight == Spec => []AuthAnswers
<1>1. Inv => AuthAnswers
  BY DEF Inv, Answered, AuthAnswers
<1>. QED
  BY <1>1, Invariance, PTL
=============================================================================
