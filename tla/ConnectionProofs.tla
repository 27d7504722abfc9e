-------------------------- MODULE ConnectionProofs --------------------------
(***************************************************************************)
(* How peers connect, and the transports under a connection: the wrappers, *)
(* the in-process bus and the handshake.                                   *)
(***************************************************************************)
EXTENDS Handshake, Dtls, External, Loopback, FiniteSetTheorems, TLAPS

\* A leaf that names no prover is left to Zenon; the others need arithmetic.
USE ZenonT(60)

-----------------------------------------------------------------------------
(***************************************************************************)
(* DtlsTransport and ExternalTransport: the bridges to a TLS engine and to *)
(* a host.                                                                 *)
(***************************************************************************)

(* DtlsTransport.                                                          *)

\* What DtlsInv needs to be inductive: a context is that of some handshake, and
\* the one being made is that of a new one.
DtlsIInv ==
    /\ DtlsInv
    /\ ctx # "none" => session \in 1 .. handshakes
    /\ ctx = "ready" => session \notin sessions
    /\ ctx = "session" => session \in sessions /\ (inner_bound \/ session \in untold)

\* The state tells whether there is a session, and a session that close() ends
\* is announced unless the inner transport was closed under it or refused the
\* notice, however handshakes, failures, closes of both transports and data
\* follow each other; one that a renewed handshake() replaces is not announced
\* (dtls_transport.cpp).
THEOREM DtlsCorrect == DtlsSpec => []DtlsInv
<1> USE DEF DtlsIInv, DtlsInv, DtlsTypeOK, SessionIffConnected, EndAnnounced, DtlsState
<1>1. DtlsInit => DtlsIInv
  <2> SUFFICES ASSUME DtlsInit PROVE DtlsIInv
    OBVIOUS
  <2>1. inner_bound \in BOOLEAN
    BY DEF DtlsInit
  <2> QED
    BY <2>1, DtlsAssumption, SMTT(60) DEF DtlsInit
<1>2. DtlsIInv /\ [DtlsNext]_dtlsVars => DtlsIInv'
  <2> SUFFICES ASSUME DtlsIInv, [DtlsNext]_dtlsVars PROVE DtlsIInv'
    OBVIOUS
  <2>1. CASE dtls_bind
    BY <2>1 DEF dtls_bind
  <2>2. CASE dtls_close
    <3>1. /\ ctx' # "session" /\ ctx' # "ready" /\ ctx' \in {"none", "partial", "ready", "session"}
          /\ ctx' # "none" => ctx # "none"
          /\ dtls_state' = "CLOSED" /\ inner_bound' = FALSE
          /\ UNCHANGED <<session, handshakes, sessions>>
      BY <2>2 DEF dtls_close, teardown_context, InHandshake
    <3>2. CASE ctx = "session"
      <4>1. inner_bound \/ session \in untold
        BY <3>2
      <4>2. /\ told' \subseteq sessions /\ untold' \subseteq sessions
            /\ told \subseteq told' /\ untold \subseteq untold' /\ session \in told' \cup untold'
        BY <2>2, <3>2, <4>1 DEF dtls_close, teardown_context
      <4> QED
        BY <3>1, <3>2, <4>2
    <3>3. CASE ctx # "session"
      <4>1. UNCHANGED <<told, untold>>
        BY <2>2, <3>3 DEF dtls_close
      <4> QED
        BY <3>1, <3>3, <4>1
    <3> QED
      BY <3>2, <3>3
  <2>3. ASSUME NEW ok \in BOOLEAN, handshake(ok) PROVE DtlsIInv'
    <3>1. /\ ctx' \in {"ready", "partial"} /\ (dtls_state' = "HANDSHAKING" <=> ctx' = "ready")
          /\ dtls_state' \in {"HANDSHAKING", "ERROR"} /\ session' = handshakes'
          /\ handshakes' = handshakes + 1 /\ handshakes < MaxHandshakes
          /\ UNCHANGED <<inner_bound, sessions, told>>
      BY <2>3 DEF handshake, setup_context
    <3>2. /\ handshakes' \in 0 .. MaxHandshakes /\ session' \in 1 .. handshakes'
          /\ session' \in 0 .. handshakes' /\ sessions \subseteq 1 .. handshakes' /\ session' \notin sessions
      BY <3>1, DtlsAssumption, SMTT(60)
    <3>3. untold \subseteq untold' /\ untold' \subseteq sessions /\ (ctx = "session" => session \in untold')
      BY <2>3 DEF handshake, Unsaid
    <3> QED
      BY <3>1, <3>2, <3>3
  <2>4. CASE HandshakeDone
    BY <2>4, SMTT(60) DEF HandshakeDone, InHandshake
  <2>5. CASE HandshakeFailed
    BY <2>5 DEF HandshakeFailed, teardown_context, InHandshake
  <2>6. CASE dtls_send_to \/ dtls_recv_from
    BY <2>6 DEF dtls_send_to, dtls_recv_from
  <2>7. CASE InnerClosed
    <3>1. untold \subseteq untold' /\ untold' \subseteq sessions /\ (ctx = "session" => session \in untold')
      BY <2>7 DEF InnerClosed, Unsaid
    <3> QED
      BY <2>7, <3>1 DEF InnerClosed
  <2>8. CASE UNCHANGED dtlsVars
    BY <2>8 DEF dtlsVars
  <2> QED
    BY <2>1, <2>2, <2>3, <2>4, <2>5, <2>6, <2>7, <2>8 DEF DtlsNext
<1>3. DtlsIInv => DtlsInv
  OBVIOUS
<1> QED
  BY <1>1, <1>2, <1>3, PTL DEF DtlsSpec

-----------------------------------------------------------------------------
(* ExternalTransport: queues of packets in the order of their numbers.     *)

Ordered(q) == \A i, j \in DOMAIN q : i < j => q[i].no < q[j].no

Ahead(q, r) == \A i \in DOMAIN q, j \in DOMAIN r : q[i].no < r[j].no

\* A queue of packets numbered up to n.
Known(q, n) ==
    /\ q \in Seq(ExtPacket)
    /\ \A i \in DOMAIN q : q[i].kept <= q[i].size /\ q[i].no <= n

\* A packet at the end.
LEMMA AtTheEnd ==
    ASSUME NEW q \in Seq(ExtPacket), NEW p \in ExtPacket, Ordered(q),
           \A i \in DOMAIN q : q[i].no < p.no
    PROVE  /\ Append(q, p) \in Seq(ExtPacket) /\ Ordered(Append(q, p))
           /\ \A r : Ahead(r, q) /\ (\A i \in DOMAIN r : r[i].no < p.no) => Ahead(r, Append(q, p))
           /\ \A r : Ahead(q, r) /\ (\A i \in DOMAIN r : p.no < r[i].no) => Ahead(Append(q, p), r)
           /\ \A n : Known(q, n) /\ p.kept <= p.size /\ p.no <= n => Known(Append(q, p), n)
<1> DEFINE s == Append(q, p)
           L == Len(q)
<1>1. /\ s \in Seq(ExtPacket) /\ Len(s) = L + 1 /\ DOMAIN s = 1 .. L + 1 /\ s[L + 1] = p
      /\ DOMAIN q = 1 .. L /\ L \in Nat /\ \A i \in DOMAIN q : s[i] = q[i]
  BY SMTT(60)
<1> HIDE DEF s
<1>2. \A i \in DOMAIN s : i \in DOMAIN q \/ i = L + 1
  BY <1>1, SMTT(60)
<1>3. Ordered(s)
  <2> SUFFICES ASSUME NEW i \in DOMAIN s, NEW j \in DOMAIN s, i < j PROVE s[i].no < s[j].no
    BY DEF Ordered
  <2>1. i \in DOMAIN q
    BY <1>1, SMTT(60)
  <2> QED
    BY <1>1, <1>2, <2>1 DEF Ordered
<1>4. ASSUME NEW r, Ahead(r, q), \A i \in DOMAIN r : r[i].no < p.no PROVE Ahead(r, s)
  BY <1>1, <1>2, <1>4 DEF Ahead
<1>5. ASSUME NEW r, Ahead(q, r), \A i \in DOMAIN r : p.no < r[i].no PROVE Ahead(s, r)
  BY <1>1, <1>2, <1>5 DEF Ahead
<1>6. ASSUME NEW n, Known(q, n), p.kept <= p.size, p.no <= n PROVE Known(s, n)
  BY <1>1, <1>2, <1>6 DEF Known
<1> QED
  BY <1>1, <1>3, <1>4, <1>5, <1>6 DEF s

\* The packet at the front, and the rest.
LEMMA FromTheFront ==
    ASSUME NEW q \in Seq(ExtPacket), q # <<>>, Ordered(q)
    PROVE  /\ Head(q) \in ExtPacket /\ Tail(q) \in Seq(ExtPacket) /\ Ordered(Tail(q))
           /\ \A i \in DOMAIN Tail(q) : Head(q).no < Tail(q)[i].no
           /\ \A r : Ahead(r, q) => Ahead(r, Tail(q)) /\ \A i \in DOMAIN r : r[i].no < Head(q).no
           /\ \A r : Ahead(q, r) => Ahead(Tail(q), r) /\ \A i \in DOMAIN r : Head(q).no < r[i].no
           /\ \A n : Known(q, n) => Known(Tail(q), n) /\ Head(q).kept <= Head(q).size /\ Head(q).no <= n
           /\ \A n : (\A i \in DOMAIN q : q[i].no > n) => \A i \in DOMAIN Tail(q) : Tail(q)[i].no > n
<1> DEFINE t == Tail(q)
           L == Len(q)
<1>1. /\ L \in Nat /\ L >= 1 /\ DOMAIN q = 1 .. L /\ t \in Seq(ExtPacket) /\ DOMAIN t = 1 .. L - 1
      /\ \A i \in 1 .. L - 1 : t[i] = q[i + 1] /\ i + 1 \in DOMAIN q
      /\ 1 \in DOMAIN q /\ Head(q) = q[1] /\ q[1] \in ExtPacket
  <2>1. L \in Nat /\ L >= 1 /\ DOMAIN q = 1 .. L
    BY SMTT(60)
  <2>2. t \in Seq(ExtPacket) /\ Len(t) = L - 1 /\ DOMAIN t = 1 .. L - 1
    BY <2>1, SMTT(60)
  <2>3. \A i \in 1 .. L - 1 : t[i] = q[i + 1] /\ i + 1 \in DOMAIN q
    BY <2>1, SMTT(60)
  <2>4. 1 \in DOMAIN q /\ Head(q) = q[1] /\ q[1] \in ExtPacket
    BY <2>1, SMTT(60)
  <2> QED
    BY <2>1, <2>2, <2>3, <2>4
<1> HIDE DEF t
<1>2. Ordered(t) /\ \A i \in DOMAIN t : q[1].no < t[i].no
  <2>1. ASSUME NEW i \in DOMAIN t, NEW j \in DOMAIN t, i < j PROVE t[i].no < t[j].no
    <3>1. t[i] = q[i + 1] /\ t[j] = q[j + 1] /\ i + 1 \in DOMAIN q /\ j + 1 \in DOMAIN q /\ i + 1 < j + 1
      BY <1>1, <2>1, SMTT(60)
    <3> QED
      BY <3>1 DEF Ordered
  <2>2. ASSUME NEW i \in DOMAIN t PROVE q[1].no < t[i].no
    <3>1. t[i] = q[i + 1] /\ i + 1 \in DOMAIN q /\ 1 < i + 1
      BY <1>1, SMTT(60)
    <3> QED
      BY <1>1, <3>1 DEF Ordered
  <2> QED
    BY <2>1, <2>2 DEF Ordered
<1>3. ASSUME NEW r, Ahead(r, q) PROVE Ahead(r, t) /\ \A i \in DOMAIN r : r[i].no < q[1].no
  BY <1>1, <1>3 DEF Ahead
<1>4. ASSUME NEW r, Ahead(q, r) PROVE Ahead(t, r) /\ \A i \in DOMAIN r : q[1].no < r[i].no
  BY <1>1, <1>4 DEF Ahead
<1>5. ASSUME NEW n, Known(q, n) PROVE Known(t, n) /\ q[1].kept <= q[1].size /\ q[1].no <= n
  BY <1>1, <1>5 DEF Known
<1>6. ASSUME NEW n, \A i \in DOMAIN q : q[i].no > n PROVE \A i \in DOMAIN t : t[i].no > n
  BY <1>1, <1>6
<1> QED
  BY <1>1, <1>2, <1>3, <1>4, <1>5, <1>6 DEF t

\* Two queues, one ahead of the other, in a row.
LEMMA InARow ==
    ASSUME NEW q \in Seq(ExtPacket), NEW r \in Seq(ExtPacket), Ordered(q), Ordered(r), Ahead(q, r)
    PROVE  /\ q \o r \in Seq(ExtPacket) /\ Ordered(q \o r)
           /\ \A s : Ahead(q, s) /\ Ahead(r, s) => Ahead(q \o r, s)
<1> DEFINE w == q \o r
           m == Len(q)
           n == Len(r)
<1>1. /\ w \in Seq(ExtPacket) /\ m \in Nat /\ n \in Nat /\ DOMAIN w = 1 .. m + n
      /\ DOMAIN q = 1 .. m /\ DOMAIN r = 1 .. n
      /\ \A i \in 1 .. m : w[i] = q[i]
      /\ \A i \in m + 1 .. m + n : w[i] = r[i - m] /\ i - m \in DOMAIN r
  BY SMTT(60)
<1> HIDE DEF w
<1>2. \A i \in DOMAIN w : i \in 1 .. m \/ i \in m + 1 .. m + n
  BY <1>1, SMTT(60)
<1>3. Ordered(w)
  <2> SUFFICES ASSUME NEW i \in DOMAIN w, NEW j \in DOMAIN w, i < j PROVE w[i].no < w[j].no
    BY DEF Ordered
  <2>1. CASE i \in 1 .. m /\ j \in 1 .. m
    BY <1>1, <2>1 DEF Ordered
  <2>2. CASE i \in 1 .. m /\ j \in m + 1 .. m + n
    BY <1>1, <2>2 DEF Ahead
  <2>3. CASE i \in m + 1 .. m + n /\ j \in m + 1 .. m + n
    <3>1. i - m < j - m
      BY <1>1, <2>3, SMTT(60)
    <3> QED
      BY <1>1, <2>3, <3>1 DEF Ordered
  <2>4. CASE i \in m + 1 .. m + n /\ j \in 1 .. m
    BY <1>1, <2>4, SMTT(60)
  <2> QED
    BY <1>2, <2>1, <2>2, <2>3, <2>4
<1>4. ASSUME NEW s, Ahead(q, s), Ahead(r, s) PROVE Ahead(w, s)
  BY <1>1, <1>2, <1>4 DEF Ahead
<1> QED
  BY <1>1, <1>3, <1>4 DEF w

\* Queues g, r, c and s follow each other; n packets were sent.
InOrder(g, r, c, s, n) ==
    /\ Known(g, n) /\ Known(r, n) /\ Known(c, n) /\ Known(s, n)
    /\ Ordered(g) /\ Ordered(r) /\ Ordered(c) /\ Ordered(s)
    /\ Ahead(g, r) /\ Ahead(g, c) /\ Ahead(g, s)
    /\ Ahead(r, c) /\ Ahead(r, s) /\ Ahead(c, s)

\* What ExternalInv needs to be inductive.
ExternalIInv ==
    /\ ext_bound \in [{"from", "to"} -> BOOLEAN]
    /\ ext_sent \in 0 .. MaxExtSends
    /\ ext_closed \in [{"from", "to"} -> 0 .. ext_sent]
    /\ InOrder(ext_got, recv_queue, carried, send_queue, ext_sent)
    /\ ext_pushed \in 0 .. ext_sent /\ ext_closed["to"] <= ext_pushed
    /\ \A i \in DOMAIN carried : carried[i].no > ext_pushed
    /\ \A i \in DOMAIN send_queue : send_queue[i].no > ext_pushed
    /\ ClosedQueueGone

\* An empty queue is in order with any.
LEMMA EmptyQueue ==
    /\ \A n : Known(<<>>, n)
    /\ Ordered(<<>>) /\ \A q : Ahead(q, <<>>) /\ Ahead(<<>>, q)
  BY SMTT(60) DEF Known, Ordered, Ahead

\* A datagram sent goes behind those sent before it.
LEMMA SendInOrder ==
    ASSUME ExternalIInv, NEW size \in ExtSize, external_send_to(size)
    PROVE  ExternalIInv'
<1> DEFINE n == ext_sent + 1
           p == [no |-> n, size |-> size, kept |-> size]
<1>1. /\ ext_sent < MaxExtSends /\ ext_sent' = n /\ send_queue' = Append(send_queue, p)
      /\ UNCHANGED <<ext_bound, carried, recv_queue, ext_got, ext_pushed, ext_closed>>
  BY DEF external_send_to
<1>2. ext_sent \in Nat /\ MaxExtSends \in Nat /\ n \in 1 .. MaxExtSends /\ ext_sent < n
  BY <1>1, ExternalAssumption, SMTT(60) DEF ExternalIInv
<1>3. p \in ExtPacket /\ p.no = n /\ p.kept <= p.size
  BY <1>2, ExternalAssumption, SMTT(60) DEF ExtPacket
<1>4. \A q : Known(q, ext_sent) => Known(q, n) /\ \A i \in DOMAIN q : q[i].no < n
  <2> SUFFICES ASSUME NEW q, Known(q, ext_sent) PROVE Known(q, n) /\ \A i \in DOMAIN q : q[i].no < n
    OBVIOUS
  <2>1. \A i \in DOMAIN q : q[i] \in ExtPacket
    BY SMTT(60) DEF Known
  <2>2. \A i \in DOMAIN q : q[i].no \in Nat
    BY <1>2, <2>1, SMTT(60) DEF ExtPacket
  <2> QED
    BY <1>2, <2>2, SMTT(60) DEF Known
<1> HIDE DEF p, n
<1>5. InOrder(ext_got, recv_queue, carried, send_queue, ext_sent)
  BY DEF ExternalIInv
<1>6. send_queue \in Seq(ExtPacket) /\ Known(send_queue, n) /\ p.no <= n
  <2>1. Known(send_queue, ext_sent)
    BY <1>5 DEF InOrder
  <2>2. Known(send_queue, n)
    BY <1>4, <2>1
  <2>3. send_queue \in Seq(ExtPacket)
    BY <2>2 DEF Known
  <2>4. p.no <= n
    BY <1>2, <1>3, SMTT(60)
  <2> QED
    BY <2>2, <2>3, <2>4
<1>7. InOrder(ext_got, recv_queue, carried, send_queue', n)
  BY <1>1, <1>3, <1>4, <1>5, <1>6, AtTheEnd DEF InOrder
<1>8. ClosedQueueGone'
  <2>1. \A i \in DOMAIN send_queue' : (i \in DOMAIN send_queue /\ send_queue'[i] = send_queue[i]) \/ send_queue'[i] = p
    BY <1>1, <1>3, <1>6, SMTT(60)
  <2>2. ext_closed["from"] \in 0 .. ext_sent
    BY DEF ExternalIInv
  <2>3. n > ext_closed["from"]
    BY <1>2, <2>2, SMTT(60)
  <2>4. \A i \in DOMAIN send_queue' : send_queue'[i].no > ext_closed["from"]
    BY <1>3, <2>1, <2>3 DEF ExternalIInv, ClosedQueueGone
  <2> QED
    BY <1>1, <2>4 DEF ExternalIInv, ClosedQueueGone
<1>9. ext_closed' \in [{"from", "to"} -> 0 .. n]
  <2>1. 0 .. ext_sent \subseteq 0 .. n
    BY <1>2, SMTT(60)
  <2> QED
    BY <1>1, <2>1 DEF ExternalIInv
<1>10. ext_sent' \in 0 .. MaxExtSends
  BY <1>1, <1>2, SMTT(60)
<1>11. ext_pushed' \in 0 .. n /\ \A i \in DOMAIN send_queue' : send_queue'[i].no > ext_pushed'
  <2>1. ext_pushed' \in 0 .. n /\ n > ext_pushed'
    BY <1>1, <1>2, SMTT(60) DEF ExternalIInv
  <2>2. \A i \in DOMAIN send_queue' : (i \in DOMAIN send_queue /\ send_queue'[i] = send_queue[i]) \/ send_queue'[i] = p
    BY <1>1, <1>3, <1>6, SMTT(60)
  <2> QED
    BY <1>1, <1>3, <2>1, <2>2 DEF ExternalIInv
<1> QED
  BY <1>1, <1>7, <1>8, <1>9, <1>10, <1>11 DEF ExternalIInv

\* The host takes the oldest datagram of the send queue, cut to its buffer.
LEMMA PopInOrder ==
    ASSUME ExternalIInv, pop_send
    PROVE  ExternalIInv'
<1> DEFINE p == Head(send_queue)
           cut == [p EXCEPT !.kept = IF @ < HostBuffer THEN @ ELSE HostBuffer]
<1>1. /\ send_queue # <<>> /\ carried' = Append(carried, cut) /\ send_queue' = Tail(send_queue)
      /\ UNCHANGED <<ext_bound, recv_queue, ext_got, ext_sent, ext_pushed, ext_closed>>
  BY DEF pop_send
<1>2. InOrder(ext_got, recv_queue, carried, send_queue, ext_sent)
  BY DEF ExternalIInv
<1>3. send_queue \in Seq(ExtPacket) /\ carried \in Seq(ExtPacket) /\ Ordered(send_queue) /\ Ordered(carried)
  BY <1>2 DEF InOrder, Known
<1>4. /\ p \in ExtPacket /\ send_queue' \in Seq(ExtPacket) /\ Ordered(send_queue')
      /\ \A i \in DOMAIN send_queue' : p.no < send_queue'[i].no
      /\ \A r : Ahead(r, send_queue) => Ahead(r, send_queue') /\ \A i \in DOMAIN r : r[i].no < p.no
      /\ Known(send_queue', ext_sent) /\ p.kept <= p.size /\ p.no <= ext_sent
      /\ \A n : (\A i \in DOMAIN send_queue : send_queue[i].no > n)
                 => \A i \in DOMAIN send_queue' : send_queue'[i].no > n
  <2>1. Known(send_queue, ext_sent)
    BY <1>2 DEF InOrder
  <2> QED
    BY <1>1, <1>3, <2>1, FromTheFront
<1>5. cut \in ExtPacket /\ cut.no = p.no /\ cut.kept <= cut.size
  <2> DEFINE left == IF p.kept < HostBuffer THEN p.kept ELSE HostBuffer
  <2>1. p.kept \in Nat /\ p.size \in Nat /\ HostBuffer \in Nat
    BY <1>4, ExternalAssumption DEF ExtPacket
  <2>2. left \in Nat /\ left <= p.size
    BY <1>4, <2>1, SMTT(60)
  <2>3. cut = [p EXCEPT !.kept = left]
    OBVIOUS
  <2> HIDE DEF left, cut, p
  <2> QED
    BY <1>4, <2>2, <2>3 DEF ExtPacket
<1> HIDE DEF p, cut
<1>6. /\ carried' \in Seq(ExtPacket) /\ Ordered(carried') /\ Known(carried', ext_sent)
      /\ Ahead(ext_got, carried') /\ Ahead(recv_queue, carried') /\ Ahead(carried', send_queue')
  <2>1. \A i \in DOMAIN carried : carried[i].no < cut.no
    BY <1>2, <1>4, <1>5 DEF InOrder
  <2>2. /\ \A i \in DOMAIN ext_got : ext_got[i].no < cut.no
        /\ \A i \in DOMAIN recv_queue : recv_queue[i].no < cut.no
    BY <1>2, <1>4, <1>5 DEF InOrder
  <2>3. Ahead(carried, send_queue') /\ \A i \in DOMAIN send_queue' : cut.no < send_queue'[i].no
    BY <1>2, <1>4, <1>5 DEF InOrder
  <2>4. Known(carried, ext_sent) /\ Ahead(ext_got, carried) /\ Ahead(recv_queue, carried) /\ cut.no <= ext_sent
    BY <1>2, <1>4, <1>5 DEF InOrder
  <2> QED
    BY <1>1, <1>3, <1>5, <2>1, <2>2, <2>3, <2>4, AtTheEnd
<1>7. InOrder(ext_got, recv_queue, carried', send_queue', ext_sent)
  BY <1>2, <1>4, <1>6 DEF InOrder
<1>8. ClosedQueueGone'
  BY <1>1, <1>4 DEF ExternalIInv, ClosedQueueGone
<1>9. /\ \A i \in DOMAIN carried' : carried'[i].no > ext_pushed
      /\ \A i \in DOMAIN send_queue' : send_queue'[i].no > ext_pushed
  <2>1. 1 \in DOMAIN send_queue /\ send_queue[1] = p
    BY <1>1, <1>3, SMTT(60) DEF p
  <2>2. cut.no > ext_pushed
    BY <1>5, <2>1 DEF ExternalIInv
  <2>3. \A i \in DOMAIN carried' : (i \in DOMAIN carried /\ carried'[i] = carried[i]) \/ carried'[i] = cut
    BY <1>1, <1>3, <1>5, SMTT(60)
  <2> QED
    BY <1>4, <2>2, <2>3 DEF ExternalIInv
<1> QED
  BY <1>1, <1>7, <1>8, <1>9 DEF ExternalIInv

\* The oldest datagram carried by the host joins the receive queue.
LEMMA PushInOrder ==
    ASSUME ExternalIInv, push_recv
    PROVE  ExternalIInv'
<1> DEFINE p == Head(carried)
<1>1. /\ carried # <<>> /\ carried' = Tail(carried)
      /\ recv_queue' = (IF p.kept = p.size THEN Append(recv_queue, p) ELSE recv_queue)
      /\ ext_pushed' = (IF p.kept = p.size THEN p.no ELSE ext_pushed)
      /\ UNCHANGED <<ext_bound, send_queue, ext_got, ext_sent, ext_closed>>
  BY DEF push_recv
<1>2. InOrder(ext_got, recv_queue, carried, send_queue, ext_sent)
  BY DEF ExternalIInv
<1>3. carried \in Seq(ExtPacket) /\ recv_queue \in Seq(ExtPacket) /\ Ordered(carried) /\ Ordered(recv_queue)
  BY <1>2 DEF InOrder, Known
<1>4. /\ p \in ExtPacket /\ carried' \in Seq(ExtPacket) /\ Ordered(carried')
      /\ \A i \in DOMAIN carried' : p.no < carried'[i].no
      /\ \A r : Ahead(r, carried) => Ahead(r, carried') /\ \A i \in DOMAIN r : r[i].no < p.no
      /\ \A r : Ahead(carried, r) => Ahead(carried', r) /\ \A i \in DOMAIN r : p.no < r[i].no
      /\ Known(carried', ext_sent) /\ p.kept <= p.size /\ p.no <= ext_sent
  <2>1. Known(carried, ext_sent)
    BY <1>2 DEF InOrder
  <2> QED
    BY <1>1, <1>3, <2>1, FromTheFront
<1> HIDE DEF p
<1>5. /\ Ahead(ext_got, carried') /\ Ahead(recv_queue, carried') /\ Ahead(carried', send_queue)
      /\ \A i \in DOMAIN ext_got : ext_got[i].no < p.no
      /\ \A i \in DOMAIN recv_queue : recv_queue[i].no < p.no
      /\ \A i \in DOMAIN send_queue : p.no < send_queue[i].no
  BY <1>2, <1>4 DEF InOrder
<1>6. InOrder(ext_got, recv_queue, carried', send_queue, ext_sent)
  BY <1>2, <1>4, <1>5 DEF InOrder
<1>7. InOrder(ext_got, recv_queue', carried', send_queue, ext_sent)
  <2>1. CASE p.kept = p.size
    <3> DEFINE q == Append(recv_queue, p)
    <3>1. Known(recv_queue, ext_sent) /\ Ahead(ext_got, recv_queue) /\ Ahead(recv_queue, send_queue)
      BY <1>2 DEF InOrder
    <3>2. /\ q \in Seq(ExtPacket) /\ Ordered(q) /\ Known(q, ext_sent)
          /\ Ahead(ext_got, q) /\ Ahead(q, carried') /\ Ahead(q, send_queue)
      BY <1>3, <1>4, <1>5, <3>1, AtTheEnd
    <3>3. recv_queue' = q
      BY <1>1, <2>1
    <3> HIDE DEF q
    <3> QED
      BY <1>6, <3>2, <3>3 DEF InOrder
  <2>2. CASE p.kept # p.size
    BY <1>1, <1>6, <2>2
  <2> QED
    BY <2>1, <2>2
<1>8. /\ p.no > ext_pushed /\ p.no \in 0 .. ext_sent /\ ext_pushed \in 0 .. ext_sent
      /\ ext_closed["to"] < p.no /\ ext_closed["to"] <= p.no /\ ext_closed["to"] <= ext_pushed
  <2>1. 1 \in DOMAIN carried /\ carried[1] = p
    BY <1>1, <1>3, SMTT(60) DEF p
  <2>2. p.no > ext_pushed
    BY <2>1 DEF ExternalIInv
  <2>3. p.no \in 1 .. MaxExtSends
    BY <1>4 DEF ExtPacket
  <2> QED
    BY <1>4, <2>2, <2>3, ExternalAssumption, SMTT(60) DEF ExternalIInv
<1>9. /\ ext_pushed' \in 0 .. ext_sent /\ ext_closed["to"] <= ext_pushed'
      /\ \A i \in DOMAIN carried' : carried'[i].no > ext_pushed'
      /\ \A i \in DOMAIN send_queue : send_queue[i].no > ext_pushed'
      /\ \A i \in DOMAIN recv_queue' : recv_queue'[i].no > ext_closed["to"]
  <2>0. /\ \A i \in DOMAIN carried' : carried'[i].no > p.no
        /\ \A i \in DOMAIN carried' : carried'[i].no > ext_pushed
    <3>1. \A i \in DOMAIN carried' : carried'[i] \in ExtPacket
      BY <1>4, SMTT(60)
    <3>2. \A i \in DOMAIN carried' : carried'[i].no \in Nat
      BY <3>1, ExternalAssumption, SMTT(60) DEF ExtPacket
    <3> QED
      BY <1>4, <1>8, <3>2, SMTT(60)
  <2>1. CASE p.kept = p.size
    <3>1. ext_pushed' = p.no /\ recv_queue' = Append(recv_queue, p)
      BY <1>1, <2>1
    <3>2. \A i \in DOMAIN recv_queue' : (i \in DOMAIN recv_queue /\ recv_queue'[i] = recv_queue[i]) \/ recv_queue'[i] = p
      BY <1>3, <1>4, <3>1, SMTT(60)
    <3>3. \A i \in DOMAIN recv_queue' : recv_queue'[i].no > ext_closed["to"]
      <4>1. p.no > ext_closed["to"]
        BY <1>8, SMTT(60)
      <4> QED
        BY <3>2, <4>1 DEF ExternalIInv, ClosedQueueGone
    <3>4. \A i \in DOMAIN send_queue : send_queue[i].no > p.no
      <4>1. p.no \in Nat /\ \A i \in DOMAIN send_queue : send_queue[i].no > ext_pushed /\ p.no < send_queue[i].no
        BY <1>5, <1>8, SMTT(60) DEF ExternalIInv
      <4> QED
        BY <4>1, SMTT(60)
    <3> QED
      BY <1>8, <2>0, <3>1, <3>3, <3>4
  <2>2. CASE p.kept # p.size
    <3>1. ext_pushed' = ext_pushed /\ recv_queue' = recv_queue
      BY <1>1, <2>2
    <3> QED
      BY <1>8, <2>0, <3>1 DEF ExternalIInv, ClosedQueueGone
  <2> QED
    BY <2>1, <2>2
<1>10. ClosedQueueGone'
  BY <1>1, <1>9 DEF ExternalIInv, ClosedQueueGone
<1> QED
  BY <1>1, <1>7, <1>9, <1>10 DEF ExternalIInv

\* The receiver takes the oldest datagram of its queue.
LEMMA RecvInOrder ==
    ASSUME ExternalIInv, external_recv_from
    PROVE  ExternalIInv'
<1> DEFINE p == Head(recv_queue)
<1>1. /\ recv_queue # <<>> /\ ext_got' = Append(ext_got, p) /\ recv_queue' = Tail(recv_queue)
      /\ UNCHANGED <<ext_bound, send_queue, carried, ext_sent, ext_pushed, ext_closed>>
  BY DEF external_recv_from
<1>2. InOrder(ext_got, recv_queue, carried, send_queue, ext_sent)
  BY DEF ExternalIInv
<1>3. ext_got \in Seq(ExtPacket) /\ recv_queue \in Seq(ExtPacket) /\ Ordered(ext_got) /\ Ordered(recv_queue)
  BY <1>2 DEF InOrder, Known
<1>4. /\ p \in ExtPacket /\ recv_queue' \in Seq(ExtPacket) /\ Ordered(recv_queue')
      /\ \A i \in DOMAIN recv_queue' : p.no < recv_queue'[i].no
      /\ \A r : Ahead(r, recv_queue) => Ahead(r, recv_queue') /\ \A i \in DOMAIN r : r[i].no < p.no
      /\ \A r : Ahead(recv_queue, r) => Ahead(recv_queue', r) /\ \A i \in DOMAIN r : p.no < r[i].no
      /\ Known(recv_queue', ext_sent) /\ p.kept <= p.size /\ p.no <= ext_sent
  <2>1. Known(recv_queue, ext_sent)
    BY <1>2 DEF InOrder
  <2> QED
    BY <1>1, <1>3, <2>1, FromTheFront
<1> HIDE DEF p
<1>5. /\ Ahead(ext_got, recv_queue') /\ Ahead(recv_queue', carried) /\ Ahead(recv_queue', send_queue)
      /\ \A i \in DOMAIN ext_got : ext_got[i].no < p.no
      /\ \A i \in DOMAIN carried : p.no < carried[i].no
      /\ \A i \in DOMAIN send_queue : p.no < send_queue[i].no
  BY <1>2, <1>4 DEF InOrder
<1>6. /\ ext_got' \in Seq(ExtPacket) /\ Ordered(ext_got') /\ Known(ext_got', ext_sent)
      /\ Ahead(ext_got', recv_queue') /\ Ahead(ext_got', carried) /\ Ahead(ext_got', send_queue)
  <2>1. Known(ext_got, ext_sent) /\ Ahead(ext_got, carried) /\ Ahead(ext_got, send_queue)
    BY <1>2 DEF InOrder
  <2> QED
    BY <1>1, <1>3, <1>4, <1>5, <2>1, AtTheEnd
<1>7. InOrder(ext_got', recv_queue', carried, send_queue, ext_sent)
  BY <1>2, <1>4, <1>5, <1>6 DEF InOrder
<1>8. \A i \in DOMAIN recv_queue' : recv_queue'[i].no > ext_closed["to"]
  <2>1. \A i \in DOMAIN recv_queue' : recv_queue'[i] = recv_queue[i + 1] /\ i + 1 \in DOMAIN recv_queue
    BY <1>1, <1>3, SMTT(60)
  <2> QED
    BY <2>1 DEF ExternalIInv, ClosedQueueGone
<1> QED
  BY <1>1, <1>7, <1>8 DEF ExternalIInv, ClosedQueueGone

\* Closing a side empties its queue and leaves the others in order.
LEMMA CloseInOrder ==
    ASSUME ExternalIInv, NEW side \in {"from", "to"}, external_close(side)
    PROVE  ExternalIInv'
<1>1. /\ ext_bound' = [ext_bound EXCEPT ![side] = FALSE]
      /\ send_queue' = (IF side = "from" THEN <<>> ELSE send_queue)
      /\ recv_queue' = (IF side = "to" THEN <<>> ELSE recv_queue)
      /\ ext_closed' = [ext_closed EXCEPT ![side] = IF side = "from" THEN ext_sent ELSE ext_pushed]
      /\ UNCHANGED <<carried, ext_got, ext_sent, ext_pushed>>
  BY DEF external_close, Through
<1>2. InOrder(ext_got, recv_queue, carried, send_queue, ext_sent)
  BY DEF ExternalIInv
<1>3. InOrder(ext_got, recv_queue', carried, send_queue', ext_sent)
  <2>1. CASE side = "from"
    BY <1>1, <1>2, <2>1, EmptyQueue DEF InOrder
  <2>2. CASE side = "to"
    BY <1>1, <1>2, <2>2, EmptyQueue DEF InOrder
  <2> QED
    BY <2>1, <2>2
<1>4. /\ ext_sent \in 0 .. ext_sent /\ ext_pushed \in 0 .. ext_sent /\ ext_pushed <= ext_pushed
      /\ ext_closed["to"] <= ext_pushed
  BY SMTT(60) DEF ExternalIInv
<1>5. /\ ext_closed' \in [{"from", "to"} -> 0 .. ext_sent] /\ ext_bound' \in [{"from", "to"} -> BOOLEAN]
      /\ side = "from" => ext_closed'["to"] = ext_closed["to"]
      /\ side = "to" => ext_closed'["from"] = ext_closed["from"] /\ ext_closed'["to"] = ext_pushed
  BY <1>1, <1>4 DEF ExternalIInv
<1>6. \A i \in DOMAIN <<>> : FALSE
  BY SMTT(60)
<1>7. ClosedQueueGone'
  <2>1. CASE side = "from"
    BY <1>1, <1>5, <1>6, <2>1 DEF ExternalIInv, ClosedQueueGone
  <2>2. CASE side = "to"
    BY <1>1, <1>5, <1>6, <2>2 DEF ExternalIInv, ClosedQueueGone
  <2> QED
    BY <2>1, <2>2
<1>8. ext_closed'["to"] <= ext_pushed'
  BY <1>1, <1>4, <1>5
<1>9. \A i \in DOMAIN send_queue' : send_queue'[i].no > ext_pushed'
  BY <1>1, <1>6 DEF ExternalIInv
<1> QED
  BY <1>1, <1>3, <1>4, <1>5, <1>7, <1>8, <1>9 DEF ExternalIInv

\* The inductive invariant says what the runs check.
LEMMA ExternalIInvImplies ==
    ASSUME ExternalIInv
    PROVE  ExternalInv
<1>1. InOrder(ext_got, recv_queue, carried, send_queue, ext_sent)
  BY DEF ExternalIInv
<1> USE <1>1 DEF InOrder
<1>2. /\ ext_got \in Seq(ExtPacket) /\ recv_queue \in Seq(ExtPacket)
      /\ carried \in Seq(ExtPacket) /\ send_queue \in Seq(ExtPacket)
  BY DEF Known
<1> DEFINE a == ext_got \o recv_queue
           b == a \o carried
           c == b \o send_queue
<1>3. a \in Seq(ExtPacket) /\ Ordered(a) /\ Ahead(a, carried) /\ Ahead(a, send_queue)
  BY <1>2, InARow
<1> HIDE DEF a
<1>4. b \in Seq(ExtPacket) /\ Ordered(b) /\ Ahead(b, send_queue)
  BY <1>2, <1>3, InARow
<1> HIDE DEF b
<1>5. Ordered(c)
  BY <1>2, <1>4, InARow
<1>6. BridgeInOrder
  BY <1>5 DEF BridgeInOrder, Ordered, a, b
<1>7. ExternalTypeOK
  <2>1. \A q \in {send_queue, carried, recv_queue, ext_got} : q \in Seq(ExtPacket) /\ Known(q, ext_sent)
    BY <1>2
  <2>2. \A q \in {send_queue, carried, recv_queue, ext_got} : \A i \in DOMAIN q :
            q[i] \in ExtPacket /\ q[i].kept <= q[i].size
    BY <2>1, SMTT(60) DEF Known
  <2> QED
    BY <2>2 DEF ExternalTypeOK, ExternalIInv
<1> QED
  BY <1>6, <1>7 DEF ExternalInv, ExternalIInv

\* Packets cross the bridge once and in order, and none out of a queue that a
\* close has cleared, for packets of any sizes, any buffer of the host and any
\* closes; what the host carries at a close still arrives
\* (external_transport.cpp and its calls in c_api.cpp).
THEOREM ExternalCorrect == ExternalSpec => []ExternalInv
<1>1. ExternalInit => ExternalIInv
  <2> SUFFICES ASSUME ExternalInit PROVE ExternalIInv
    OBVIOUS
  <2>1. InOrder(ext_got, recv_queue, carried, send_queue, ext_sent)
    BY EmptyQueue DEF ExternalInit, InOrder
  <2>2. /\ ext_sent = 0 /\ ext_closed \in [{"from", "to"} -> 0 .. ext_sent]
        /\ ext_pushed \in 0 .. ext_sent /\ ext_closed["to"] <= ext_pushed
        /\ ext_bound \in [{"from", "to"} -> BOOLEAN]
    BY SMTT(60) DEF ExternalInit
  <2> QED
    BY <2>1, <2>2, ExternalAssumption, SMTT(60) DEF ExternalIInv, ExternalInit, ClosedQueueGone
<1>2. ExternalIInv /\ [ExternalNext]_extVars => ExternalIInv'
  <2> SUFFICES ASSUME ExternalIInv, [ExternalNext]_extVars PROVE ExternalIInv'
    OBVIOUS
  <2>1. ASSUME NEW side \in {"from", "to"}, external_bind(side) PROVE ExternalIInv'
    BY <2>1 DEF external_bind, ExternalIInv, ClosedQueueGone
  <2>2. CASE UNCHANGED extVars
    BY <2>2 DEF extVars, ExternalIInv, ClosedQueueGone
  <2> QED
    BY <2>1, <2>2, SendInOrder, PopInOrder, PushInOrder, RecvInOrder, CloseInOrder DEF ExternalNext
<1>3. ExternalIInv => ExternalInv
  BY ExternalIInvImplies
<1> QED
  BY <1>1, <1>2, <1>3, PTL DEF ExternalSpec

-----------------------------------------------------------------------------
(***************************************************************************)
(* Loopback: for any number of transports, ids, endpoints and packets,     *)
(* buses are shared by id, no thread sleeps on a packet, and no packet     *)
(* outlives the endpoint it was queued for.                                *)
(***************************************************************************)

USE LoopbackAssumption

-----------------------------------------------------------------------------
(* The inductive invariant, in three parts.                                *)

\* The registry knows the bus of every transport that lives, by the id it was
\* created with, and never has one bus under two ids.
Registry ==
    /\ s_buses \in [BusId -> 0 .. MaxBuses]
    /\ loopback \in [LoopHandle -> [bus : 0 .. MaxBuses, local : LoopEndpoint \cup {Unbound}]]
    /\ opened_under \in [LoopHandle -> BusId \cup {0}]
    /\ buses_made \in 0 .. MaxBuses
    /\ \A id \in BusId : s_buses[id] <= buses_made
    /\ \A i, j \in BusId : s_buses[i] = s_buses[j] /\ s_buses[i] # 0 => i = j
    /\ \A t \in LoopHandle : loopback[t].bus # 0 =>
           opened_under[t] \in BusId /\ s_buses[opened_under[t]] = loopback[t].bus

\* Every packet is in one place at most, and not in one left behind.
Packets ==
    /\ queues \in [Buses -> [LoopEndpoint -> Seq(Nat)]]
    /\ loop_sent \in Nat
    /\ left_behind \subseteq 1 .. loop_sent
    /\ \A b \in Buses, e \in LoopEndpoint : \A i \in 1 .. Len(queues[b][e]) :
           queues[b][e][i] \in 1 .. loop_sent /\ queues[b][e][i] \notin left_behind
    /\ \A b, c \in Buses, e, f \in LoopEndpoint :
           \A i \in 1 .. Len(queues[b][e]), j \in 1 .. Len(queues[c][f]) :
               queues[b][e][i] = queues[c][f][j] => b = c /\ e = f /\ i = j

\* Only bound transports receive, and a sleeping one has nothing to receive.
Sleepers ==
    /\ receiving \in [LoopHandle -> {"idle", "waits", "woken"}]
    /\ \A t \in LoopHandle : receiving[t] # "idle" => bound(t)
    /\ \A t \in LoopHandle : bound(t) => loopback[t].bus # 0
    /\ \A t \in LoopHandle : receiving[t] = "waits" => LoopQueue(t) = <<>>

LoopbackIInv == Registry /\ Packets /\ Sleepers

-----------------------------------------------------------------------------
(* Queues.                                                                 *)

\* Queue r is what is left of q when packets are taken from its front.
Rest(q, r) == \E d \in Nat : \A i \in 1 .. Len(r) : i + d \in 1 .. Len(q) /\ r[i] = q[i + d]

\* What a sequence is.
LEMMA LenFacts ==
    ASSUME NEW S, NEW q \in Seq(S)
    PROVE  Len(q) \in Nat /\ q \in [1 .. Len(q) -> S] /\ DOMAIN q = 1 .. Len(q)
BY SMTT(60)

\* The empty queue.
LEMMA EmptyFacts ==
    ASSUME NEW S
    PROVE  <<>> \in Seq(S) /\ Len(<<>>) = 0 /\ \A q \in Seq(S) : q # <<>> => Len(q) \in Nat \ {0}
BY SMTT(60)

\* Taking the first packet of a queue.
LEMMA TailFacts ==
    ASSUME NEW S, NEW q \in Seq(S), q # <<>>
    PROVE  /\ Head(q) \in S /\ Tail(q) \in Seq(S) /\ Len(Tail(q)) = Len(q) - 1
           /\ \A i \in 1 .. Len(Tail(q)) : Tail(q)[i] = q[i + 1]
BY SMTT(60)

\* Putting a packet behind the others.
LEMMA QueuedFacts ==
    ASSUME NEW S, NEW q \in Seq(S), NEW x \in S
    PROVE  /\ Append(q, x) \in Seq(S) /\ Append(q, x) # <<>> /\ Len(Append(q, x)) = Len(q) + 1
           /\ \A i \in 1 .. Len(q) : Append(q, x)[i] = q[i]
           /\ Append(q, x)[Len(q) + 1] = x
<1>1. Append(q, x) \in Seq(S)
  BY SMTT(60)
<1>2. Len(q) \in Nat /\ Len(Append(q, x)) = Len(q) + 1
  BY SMTT(60)
<1>3. Append(q, x) # <<>>
  BY <1>2, EmptyFacts, SMTT(60)
<1>4. ASSUME NEW i \in 1 .. Len(q) PROVE Append(q, x)[i] = q[i]
  BY SMTT(60)
<1>5. Append(q, x)[Len(q) + 1] = x
  BY SMTT(60)
<1> QED
  BY <1>1, <1>2, <1>3, <1>4, <1>5

\* Leaving a queue alone, emptying it and taking a packet leave a rest of it.
LEMMA Rests ==
    ASSUME NEW q \in Seq(Nat)
    PROVE  /\ Rest(q, q)
           /\ <<>> \in Seq(Nat) /\ Rest(q, <<>>)
           /\ q # <<>> => Tail(q) \in Seq(Nat) /\ Rest(q, Tail(q))
<1>1. Len(q) \in Nat
  BY LenFacts
<1>2. Rest(q, q)
  <2>1. \A i \in 1 .. Len(q) : i + 0 \in 1 .. Len(q) /\ q[i] = q[i + 0]
    BY <1>1, SMTT(60)
  <2> QED
    BY <2>1 DEF Rest
<1>3. <<>> \in Seq(Nat) /\ Rest(q, <<>>)
  <2>1. \A i \in 1 .. Len(<<>>) : i + 0 \in 1 .. Len(q) /\ <<>>[i] = q[i + 0]
    BY EmptyFacts, SMTT(60)
  <2> QED
    BY <2>1, SMTT(60) DEF Rest
<1>4. ASSUME q # <<>>
      PROVE  Tail(q) \in Seq(Nat) /\ Rest(q, Tail(q))
  <2>1. /\ Tail(q) \in Seq(Nat) /\ Len(Tail(q)) = Len(q) - 1
        /\ \A i \in 1 .. Len(Tail(q)) : Tail(q)[i] = q[i + 1]
    BY <1>4, TailFacts
  <2>2. \A i \in 1 .. Len(Tail(q)) : i + 1 \in 1 .. Len(q) /\ Tail(q)[i] = q[i + 1]
    BY <1>1, <2>1, SMTT(60)
  <2> QED
    BY <2>1, <2>2 DEF Rest
<1> QED
  BY <1>2, <1>3, <1>4

\* A step that leaves of every queue a rest, and says which packets it drops.
LEMMA ShrinkStep ==
    ASSUME Packets, queues' \in [Buses -> [LoopEndpoint -> Seq(Nat)]],
           \A b \in Buses, e \in LoopEndpoint : Rest(queues[b][e], queues'[b][e]),
           loop_sent' = loop_sent, left_behind' \subseteq 1 .. loop_sent,
           \A b \in Buses, e \in LoopEndpoint : \A i \in 1 .. Len(queues'[b][e]) :
               queues'[b][e][i] \notin left_behind'
    PROVE  Packets'
<1>1. ASSUME NEW b \in Buses, NEW e \in LoopEndpoint, NEW i \in 1 .. Len(queues'[b][e])
      PROVE  queues'[b][e][i] \in 1 .. loop_sent
  <2>1. PICK d \in Nat : \A k \in 1 .. Len(queues'[b][e]) :
            k + d \in 1 .. Len(queues[b][e]) /\ queues'[b][e][k] = queues[b][e][k + d]
    BY DEF Rest
  <2> QED
    BY <2>1 DEF Packets
<1>2. ASSUME NEW b \in Buses, NEW c \in Buses, NEW e \in LoopEndpoint, NEW f \in LoopEndpoint,
             NEW i \in 1 .. Len(queues'[b][e]), NEW j \in 1 .. Len(queues'[c][f]),
             queues'[b][e][i] = queues'[c][f][j]
      PROVE  b = c /\ e = f /\ i = j
  <2>1. PICK d \in Nat : \A k \in 1 .. Len(queues'[b][e]) :
            k + d \in 1 .. Len(queues[b][e]) /\ queues'[b][e][k] = queues[b][e][k + d]
    BY DEF Rest
  <2>2. PICK g \in Nat : \A k \in 1 .. Len(queues'[c][f]) :
            k + g \in 1 .. Len(queues[c][f]) /\ queues'[c][f][k] = queues[c][f][k + g]
    BY DEF Rest
  <2>3. b = c /\ e = f
    BY <1>2, <2>1, <2>2, SMTT(60) DEF Packets
  <2>4. /\ i + d \in 1 .. Len(queues[b][e]) /\ j + d \in 1 .. Len(queues[b][e])
        /\ queues[b][e][i + d] = queues[b][e][j + d]
    BY <1>2, <2>1, <2>3
  <2>5. \A k, l \in 1 .. Len(queues[b][e]) : queues[b][e][k] = queues[b][e][l] => k = l
    BY SMTT(60) DEF Packets
  <2>7. i + d = j + d
    BY <2>4, <2>5
  <2>6. i \in Int /\ j \in Int
    BY SMTT(60)
  <2> QED
    BY <2>3, <2>6, <2>7, SMTT(60)
<1>3. loop_sent \in Nat
  BY DEF Packets
<1> QED
  BY <1>1, <1>2, <1>3 DEF Packets

\* Of one queue a rest is left, and the others stay.
LEMMA OneQueue ==
    ASSUME Packets, NEW b \in Buses, NEW e \in LoopEndpoint, NEW r \in Seq(Nat),
           Rest(queues[b][e], r),
           queues' = [queues EXCEPT ![b][e] = r]
    PROVE  /\ queues' \in [Buses -> [LoopEndpoint -> Seq(Nat)]]
           /\ \A c \in Buses, f \in LoopEndpoint : Rest(queues[c][f], queues'[c][f])
           /\ queues'[b][e] = r
           /\ \A c \in Buses, f \in LoopEndpoint : <<c, f>> # <<b, e>> => queues'[c][f] = queues[c][f]
<1>1. queues \in [Buses -> [LoopEndpoint -> Seq(Nat)]]
  BY DEF Packets
<1>2. queues[b][e] \in Seq(Nat)
  BY <1>1
<1>4. /\ queues' \in [Buses -> [LoopEndpoint -> Seq(Nat)]]
      /\ queues'[b][e] = r
      /\ \A c \in Buses, f \in LoopEndpoint : <<c, f>> # <<b, e>> => queues'[c][f] = queues[c][f]
  BY <1>1
<1>5. ASSUME NEW c \in Buses, NEW f \in LoopEndpoint
      PROVE  Rest(queues[c][f], queues'[c][f])
  <2>1. CASE c = b /\ f = e
    BY <1>4, <2>1
  <2>2. CASE ~(c = b /\ f = e)
    <3>1. queues[c][f] \in Seq(Nat) /\ queues'[c][f] = queues[c][f]
      BY <1>1, <1>4, <2>2, SMTT(60)
    <3> QED
      BY <3>1, Rests
  <2> QED
    BY <2>1, <2>2
<1> QED
  BY <1>4, <1>5

-----------------------------------------------------------------------------
(* The steps of the packets.                                               *)

\* A bound transport of a living bus has a queue.
LEMMA OwnQueue ==
    ASSUME Registry, Sleepers, NEW t \in LoopHandle, bound(t)
    PROVE  /\ loopback[t].bus \in Buses
           /\ loopback[t].local \in LoopEndpoint
<1>1. loopback[t] \in [bus : 0 .. MaxBuses, local : LoopEndpoint \cup {Unbound}]
  BY DEF Registry
<1>2. loopback[t].bus # 0
  BY DEF Sleepers
<1> QED
  BY <1>1, <1>2, SMTT(60) DEF bound, Buses

\* Taking a packet from the front of a queue keeps packets unique.
LEMMA LoopbackTakeStep ==
    ASSUME LoopbackIInv, NEW t \in LoopHandle, bound(t), Take(t)
    PROVE  Packets'
<1> DEFINE b == loopback[t].bus
           e == loopback[t].local
<1>1. b \in Buses /\ e \in LoopEndpoint
  BY OwnQueue DEF LoopbackIInv
<1> DEFINE r == Tail(queues[b][e])
<1>2. queues[b][e] # <<>> /\ queues' = [queues EXCEPT ![b][e] = r]
  BY DEF Take, LoopQueue
<1>3. Packets
  BY DEF LoopbackIInv
<1> HIDE DEF b, e
<1>7. queues[b][e] \in Seq(Nat)
  BY <1>1, <1>3, SMTT(60) DEF Packets
<1>8. r \in Seq(Nat) /\ Rest(queues[b][e], r)
  BY <1>2, <1>7, Rests
<1> HIDE DEF r
<1>4. /\ queues' \in [Buses -> [LoopEndpoint -> Seq(Nat)]]
      /\ \A c \in Buses, f \in LoopEndpoint : Rest(queues[c][f], queues'[c][f])
  BY <1>1, <1>2, <1>3, <1>8, OneQueue
<1>5. loop_sent' = loop_sent /\ left_behind' = left_behind /\ left_behind \subseteq 1 .. loop_sent
  BY <1>3 DEF Take, Packets
<1>6. ASSUME NEW c \in Buses, NEW f \in LoopEndpoint, NEW i \in 1 .. Len(queues'[c][f])
      PROVE  queues'[c][f][i] \notin left_behind'
  <2>1. PICK d \in Nat : \A k \in 1 .. Len(queues'[c][f]) :
            k + d \in 1 .. Len(queues[c][f]) /\ queues'[c][f][k] = queues[c][f][k + d]
    BY <1>4 DEF Rest
  <2> QED
    BY <1>3, <1>5, <2>1 DEF Packets
<1> QED
  BY <1>3, <1>4, <1>5, <1>6, ShrinkStep

\* Removing an endpoint drops its packets, and nobody else has them.
LEMMA LoopbackRemoveStep ==
    ASSUME LoopbackIInv, NEW t \in LoopHandle, remove_endpoint(t), loop_sent' = loop_sent
    PROVE  /\ Packets'
           /\ \A c \in Buses, f \in LoopEndpoint : queues'[c][f] \in {queues[c][f], <<>>}
<1>0. Packets
  BY DEF LoopbackIInv
<1>1. CASE ~bound(t)
  <2>1. queues' = queues /\ left_behind' = left_behind
    BY <1>1 DEF remove_endpoint, Queued
  <2> QED
    BY <1>0, <2>1, SMTT(60) DEF Packets
<1>2. CASE bound(t)
  <2> DEFINE b == loopback[t].bus
             e == loopback[t].local
             r == <<>>
             gone == {queues[b][e][i] : i \in DOMAIN queues[b][e]}
  <2>1. b \in Buses /\ e \in LoopEndpoint
    BY <1>2, OwnQueue DEF LoopbackIInv
  <2>2. queues' = [queues EXCEPT ![b][e] = r] /\ left_behind' = left_behind \cup gone
    BY <1>2 DEF remove_endpoint, Queued, LoopQueue
  <2> HIDE DEF b, e
  <2>3. /\ queues' \in [Buses -> [LoopEndpoint -> Seq(Nat)]]
        /\ \A c \in Buses, f \in LoopEndpoint : Rest(queues[c][f], queues'[c][f])
        /\ queues'[b][e] = <<>>
        /\ \A c \in Buses, f \in LoopEndpoint : <<c, f>> # <<b, e>> => queues'[c][f] = queues[c][f]
    <3>1. queues[b][e] \in Seq(Nat)
      BY <1>0, <2>1, SMTT(60) DEF Packets
    <3>2. r \in Seq(Nat) /\ Rest(queues[b][e], r)
      BY <3>1, Rests
    <3>4. queues' = [queues EXCEPT ![b][e] = r]
      BY <2>2
    <3> HIDE DEF r
    <3>5. /\ queues' \in [Buses -> [LoopEndpoint -> Seq(Nat)]]
          /\ \A c \in Buses, f \in LoopEndpoint : Rest(queues[c][f], queues'[c][f])
      BY <1>0, <2>1, <3>2, <3>4, OneQueue
    <3>6. queues'[b][e] = r
      BY <1>0, <2>1, <3>4 DEF Packets
    <3>7. \A c \in Buses, f \in LoopEndpoint : <<c, f>> # <<b, e>> => queues'[c][f] = queues[c][f]
      BY <1>0, <2>1, <3>2, <3>4, OneQueue, SMTT(60)
    <3> QED
      BY <3>5, <3>6, <3>7 DEF r
  <2>4. queues[b][e] \in Seq(Nat) /\ DOMAIN queues[b][e] = 1 .. Len(queues[b][e])
    BY <1>0, <2>1, LenFacts, SMTT(60) DEF Packets
  <2>5. \A x \in gone : \E k \in 1 .. Len(queues[b][e]) : x = queues[b][e][k]
    BY <2>4
  <2> HIDE DEF gone
  <2>6. left_behind' \subseteq 1 .. loop_sent
    <3>1. \A k \in 1 .. Len(queues[b][e]) : queues[b][e][k] \in 1 .. loop_sent
      BY <1>0, <2>1 DEF Packets
    <3>2. left_behind \subseteq 1 .. loop_sent
      BY <1>0 DEF Packets
    <3>3. \A x \in gone : x \in 1 .. loop_sent
      BY <2>5, <3>1
    <3> QED
      BY <2>2, <3>2, <3>3
  <2>7. ASSUME NEW c \in Buses, NEW f \in LoopEndpoint, NEW i \in 1 .. Len(queues'[c][f])
        PROVE  queues'[c][f][i] \notin left_behind'
    <3>1. <<c, f>> # <<b, e>>
      BY <2>3, EmptyFacts, SMTT(60)
    <3>2. queues'[c][f] = queues[c][f]
      BY <2>3, <3>1
    <3>3. queues[c][f][i] \notin left_behind
      BY <1>0, <3>2 DEF Packets
    <3>4. ASSUME queues[c][f][i] \in gone
          PROVE  FALSE
      <4>1. PICK k \in 1 .. Len(queues[b][e]) : queues[c][f][i] = queues[b][e][k]
        BY <2>5, <3>4
      <4> QED
        BY <1>0, <2>1, <3>1, <3>2, <4>1, SMTT(60) DEF Packets
    <3> QED
      BY <2>2, <3>2, <3>3, <3>4, SMTT(60)
  <2>8. Packets'
    BY <1>0, <2>3, <2>6, <2>7, ShrinkStep
  <2> QED
    BY <2>3, <2>8
<1> QED
  BY <1>1, <1>2

\* A freed bus takes its packets with it.
LEMMA FreedStep ==
    ASSUME LoopbackIInv, NEW t \in LoopHandle, loopback[t].bus # 0, BusFreed(t), loop_sent' = loop_sent
    PROVE  /\ Packets'
           /\ \A c \in Buses, f \in LoopEndpoint : queues'[c][f] \in {queues[c][f], <<>>}
<1>0. Packets /\ left_behind' = left_behind
  BY DEF LoopbackIInv, BusFreed
<1>1. loopback[t].bus \in Buses
  BY SMTT(60) DEF LoopbackIInv, Registry, Buses
<1>2. /\ queues' \in [Buses -> [LoopEndpoint -> Seq(Nat)]]
      /\ \A c \in Buses, f \in LoopEndpoint : queues'[c][f] = queues[c][f] \/ queues'[c][f] = <<>>
  BY <1>0, <1>1, SMTT(60) DEF Packets, BusFreed
<1>3. \A c \in Buses, f \in LoopEndpoint : Rest(queues[c][f], queues'[c][f])
  <2> TAKE c \in Buses, f \in LoopEndpoint
  <2>1. queues[c][f] \in Seq(Nat)
    BY <1>0, SMTT(60) DEF Packets
  <2> QED
    BY <1>2, <2>1, Rests
<1>4. left_behind' \subseteq 1 .. loop_sent
  BY <1>0 DEF Packets
<1>5. ASSUME NEW c \in Buses, NEW f \in LoopEndpoint, NEW i \in 1 .. Len(queues'[c][f])
      PROVE  queues'[c][f][i] \notin left_behind'
  <2>1. queues'[c][f] # <<>>
    BY EmptyFacts, SMTT(60)
  <2>2. queues'[c][f] = queues[c][f]
    BY <1>2, <2>1
  <2> QED
    BY <1>0, <2>2 DEF Packets
<1> QED
  BY <1>0, <1>2, <1>3, <1>4, <1>5, ShrinkStep

\* A packet sent is new, and is appended to one queue.
LEMMA SendStep ==
    ASSUME LoopbackIInv, NEW t \in LoopHandle, NEW e \in LoopEndpoint, loopback_send_to(t, e)
    PROVE  Packets'
<1> DEFINE b == loopback[t].bus
           n == loop_sent + 1
           q == queues[b][e]
<1>0. Packets
  BY DEF LoopbackIInv
<1>1. b \in Buses
  BY OwnQueue DEF LoopbackIInv, loopback_send_to
<1>2. q \in Seq(Nat) /\ loop_sent \in Nat /\ n \in Nat
  BY <1>0, <1>1, SMTT(60) DEF Packets
<1>3. queues' = [queues EXCEPT ![b][e] = Append(q, n)] /\ loop_sent' = n /\ left_behind' = left_behind
  BY DEF loopback_send_to
<1>4. /\ Append(q, n) \in Seq(Nat) /\ Len(Append(q, n)) = Len(q) + 1 /\ Len(q) \in Nat
      /\ \A i \in 1 .. Len(q) : Append(q, n)[i] = q[i]
      /\ Append(q, n)[Len(q) + 1] = n
  <2> HIDE DEF q, n
  <2>1. Len(q) \in Nat
    BY <1>2, LenFacts
  <2> QED
    BY <1>2, <2>1, QueuedFacts, SMTT(60)
<1> DEFINE r == Append(q, n)
<1> HIDE DEF r
<1>5. /\ queues' \in [Buses -> [LoopEndpoint -> Seq(Nat)]]
      /\ queues'[b][e] = r
      /\ \A c \in Buses, f \in LoopEndpoint : ~(c = b /\ f = e) => queues'[c][f] = queues[c][f]
  <2>1. queues \in [Buses -> [LoopEndpoint -> Seq(Nat)]]
    BY <1>0 DEF Packets
  <2>2. queues' = [queues EXCEPT ![b][e] = r] /\ r \in Seq(Nat)
    BY <1>3, <1>4 DEF r
  <2> HIDE DEF b, n, q
  <2> QED
    BY <1>1, <2>1, <2>2
<1> HIDE DEF b, n
\* Each packet afterwards is the new one, at its place, or an old one, where it was.
<1>6. ASSUME NEW c \in Buses, NEW f \in LoopEndpoint, NEW i \in 1 .. Len(queues'[c][f])
      PROVE  \/ c = b /\ f = e /\ i = Len(q) + 1 /\ queues'[c][f][i] = n
             \/ i \in 1 .. Len(queues[c][f]) /\ queues'[c][f][i] = queues[c][f][i]
  <2>1. CASE c = b /\ f = e
    <3>1. i \in 1 .. Len(q) + 1
      BY <1>4, <1>5, <2>1 DEF r
    <3>2. CASE i = Len(q) + 1
      BY <1>4, <1>5, <2>1, <3>2 DEF r
    <3>3. CASE i \in 1 .. Len(q)
      BY <1>4, <1>5, <2>1, <3>3 DEF r
    <3>4. i \in 1 .. Len(q) \/ i = Len(q) + 1
      <4> HIDE DEF q
      <4> QED
        BY <1>4, <3>1, SMTT(60)
    <3> QED
      BY <3>2, <3>3, <3>4
  <2>2. CASE ~(c = b /\ f = e)
    BY <1>5, <2>2
  <2> QED
    BY <2>1, <2>2
<1>7. \A c \in Buses, f \in LoopEndpoint : \A i \in 1 .. Len(queues[c][f]) :
          queues[c][f][i] \in 1 .. loop_sent /\ queues[c][f][i] \notin left_behind /\ queues[c][f][i] # n
  BY <1>0, <1>2, SMTT(60) DEF Packets, n
<1>8. n \notin left_behind /\ left_behind \subseteq 1 .. n
  BY <1>0, <1>2, SMTT(60) DEF Packets, n
<1>9. ASSUME NEW c \in Buses, NEW f \in LoopEndpoint, NEW i \in 1 .. Len(queues'[c][f])
      PROVE  queues'[c][f][i] \in 1 .. n /\ queues'[c][f][i] \notin left_behind
  <2>1. CASE queues'[c][f][i] = n
    BY <1>2, <1>8, <2>1, SMTT(60) DEF n
  <2>2. CASE i \in 1 .. Len(queues[c][f]) /\ queues'[c][f][i] = queues[c][f][i]
    BY <1>2, <1>7, <2>2, SMTT(60) DEF n
  <2> QED
    BY <1>6, <2>1, <2>2
<1>10. ASSUME NEW c \in Buses, NEW d \in Buses, NEW f \in LoopEndpoint, NEW g \in LoopEndpoint,
              NEW i \in 1 .. Len(queues'[c][f]), NEW j \in 1 .. Len(queues'[d][g]),
              queues'[c][f][i] = queues'[d][g][j]
       PROVE  c = d /\ f = g /\ i = j
  <2>1. CASE i \in 1 .. Len(queues[c][f]) /\ queues'[c][f][i] = queues[c][f][i]
    <3>1. queues'[c][f][i] # n
      BY <1>7, <2>1
    <3>2. j \in 1 .. Len(queues[d][g]) /\ queues'[d][g][j] = queues[d][g][j]
      BY <1>6, <1>10, <3>1
    <3>3. queues[c][f][i] = queues[d][g][j]
      BY <1>10, <2>1, <3>2
    <3> QED
      BY <1>0, <2>1, <3>2, <3>3, SMTT(60) DEF Packets
  <2>2. CASE c = b /\ f = e /\ i = Len(q) + 1 /\ queues'[c][f][i] = n
    <3>1. ~(j \in 1 .. Len(queues[d][g]) /\ queues'[d][g][j] = queues[d][g][j])
      BY <1>7, <1>10, <2>2
    <3> QED
      BY <1>6, <2>2, <3>1
  <2> QED
    BY <1>6, <2>1, <2>2
<1>11. /\ loop_sent' \in Nat
       /\ left_behind' \subseteq 1 .. loop_sent'
       /\ \A c \in Buses, f \in LoopEndpoint : \A i \in 1 .. Len(queues'[c][f]) :
              queues'[c][f][i] \in 1 .. loop_sent' /\ queues'[c][f][i] \notin left_behind'
  BY <1>2, <1>3, <1>8, <1>9
<1>12. \A c, d \in Buses, f, g \in LoopEndpoint :
          \A i \in 1 .. Len(queues'[c][f]), j \in 1 .. Len(queues'[d][g]) :
              queues'[c][f][i] = queues'[d][g][j] => c = d /\ f = g /\ i = j
  BY <1>10
<1>13. Buses' = Buses
  BY DEF Buses
<1> QED
  BY <1>5, <1>11, <1>12, <1>13 DEF Packets

-----------------------------------------------------------------------------
(* The steps of the registry.                                              *)

\* A living bus is found by its id; a bus no transport holds is replaced, and
\* no transport was created with the id it had.
LEMMA CreateStep ==
    ASSUME LoopbackIInv, NEW t \in LoopHandle, NEW id \in BusId, loopback_create(t, id)
    PROVE  Registry'
<1>0. Registry /\ loopback[t].bus = 0
  BY DEF LoopbackIInv, loopback_create
<1>1. opened_under' = [opened_under EXCEPT ![t] = id]
  BY DEF loopback_create
<1>2. CASE /\ lock(s_buses[id]) # 0
           /\ loopback' = [loopback EXCEPT ![t].bus = lock(s_buses[id])]
           /\ UNCHANGED <<s_buses, buses_made>>
  <2>1. lock(s_buses[id]) = s_buses[id]
    BY <1>2 DEF lock
  <2>2. loopback' = [loopback EXCEPT ![t].bus = s_buses[id]]
    BY <1>2, <2>1
  <2>3. loopback' \in [LoopHandle -> [bus : 0 .. MaxBuses, local : LoopEndpoint \cup {Unbound}]]
    BY <1>0, <2>2, SMTT(60) DEF Registry
  <2>4. ASSUME NEW u \in LoopHandle, loopback'[u].bus # 0
        PROVE  opened_under'[u] \in BusId /\ s_buses'[opened_under'[u]] = loopback'[u].bus
    BY <1>0, <1>1, <1>2, <2>2, <2>4, SMTT(60) DEF Registry
  <2> QED
    BY <1>0, <1>1, <1>2, <2>3, <2>4 DEF Registry
<1>3. CASE /\ lock(s_buses[id]) = 0 /\ buses_made < MaxBuses
           /\ buses_made' = buses_made + 1
           /\ loopback' = [loopback EXCEPT ![t].bus = buses_made']
           /\ s_buses' = [s_buses EXCEPT ![id] = buses_made']
  <2>1. buses_made' \in 1 .. MaxBuses /\ buses_made \in Nat /\ buses_made' = buses_made + 1
    BY <1>0, <1>3, SMTT(60) DEF Registry
  <2>2. \A i \in BusId : s_buses[i] \in Nat /\ s_buses[i] <= buses_made
    BY <1>0, SMTT(60) DEF Registry
  <2>3. \A u \in LoopHandle : loopback[u].bus # 0 => opened_under[u] # id
    BY <1>0, <1>3 DEF Registry, lock, Holders
  <2>4. /\ s_buses' \in [BusId -> 0 .. MaxBuses]
        /\ s_buses'[id] = buses_made'
        /\ \A i \in BusId \ {id} : s_buses'[i] = s_buses[i]
    BY <1>0, <1>3, <2>1, SMTT(60) DEF Registry
  <2>5. /\ loopback' \in [LoopHandle -> [bus : 0 .. MaxBuses, local : LoopEndpoint \cup {Unbound}]]
        /\ loopback'[t].bus = buses_made'
        /\ \A u \in LoopHandle \ {t} : loopback'[u] = loopback[u]
    BY <1>0, <1>3, <2>1, SMTT(60) DEF Registry
  <2>6. /\ opened_under' \in [LoopHandle -> BusId \cup {0}]
        /\ opened_under'[t] = id
        /\ \A u \in LoopHandle \ {t} : opened_under'[u] = opened_under[u]
    BY <1>0, <1>1 DEF Registry
  <2>7. \A i \in BusId : s_buses'[i] <= buses_made'
    BY <2>1, <2>2, <2>4, SMTT(60)
  <2>8. \A i, j \in BusId : s_buses'[i] = s_buses'[j] /\ s_buses'[i] # 0 => i = j
    <3>1. \A i \in BusId \ {id} : s_buses'[i] # s_buses'[id]
      BY <2>1, <2>2, <2>4, SMTT(60)
    <3> QED
      BY <1>0, <2>4, <3>1, SMTT(60) DEF Registry
  <2>9. ASSUME NEW u \in LoopHandle, loopback'[u].bus # 0
        PROVE  opened_under'[u] \in BusId /\ s_buses'[opened_under'[u]] = loopback'[u].bus
    <3>1. CASE u = t
      BY <2>4, <2>5, <2>6, <3>1
    <3>2. CASE u # t
      <4>1. loopback[u].bus # 0 /\ opened_under'[u] = opened_under[u] /\ loopback'[u] = loopback[u]
        BY <2>5, <2>6, <2>9, <3>2
      <4>2. opened_under[u] \in BusId \ {id} /\ s_buses[opened_under[u]] = loopback[u].bus
        BY <1>0, <2>3, <4>1 DEF Registry
      <4> QED
        BY <2>4, <4>1, <4>2
    <3> QED
      BY <3>1, <3>2
  <2> QED
    BY <2>1, <2>4, <2>5, <2>6, <2>7, <2>8, <2>9, SMTT(60) DEF Registry
<1> QED
  BY <1>2, <1>3 DEF loopback_create

\* Binding and closing leave the bus of a transport alone.
LEMMA LocalStep ==
    ASSUME Registry, NEW t \in LoopHandle, NEW e \in LoopEndpoint \cup {Unbound},
           loopback' = [loopback EXCEPT ![t].local = e],
           UNCHANGED <<s_buses, buses_made, opened_under>>
    PROVE  Registry'
BY SMTT(60) DEF Registry

\* A transport that goes forgets its bus and its id.
LEMMA GoneStep ==
    ASSUME Registry, NEW t \in LoopHandle,
           loopback' = [loopback EXCEPT ![t] = NoTransport],
           opened_under' = [opened_under EXCEPT ![t] = 0],
           UNCHANGED <<s_buses, buses_made>>
    PROVE  Registry'
<1>1. NoTransport \in [bus : 0 .. MaxBuses, local : LoopEndpoint \cup {Unbound}] /\ NoTransport.bus = 0
  BY SMTT(60) DEF NoTransport
<1>2. /\ loopback' \in [LoopHandle -> [bus : 0 .. MaxBuses, local : LoopEndpoint \cup {Unbound}]]
      /\ loopback'[t].bus = 0
      /\ \A u \in LoopHandle \ {t} : loopback'[u] = loopback[u] /\ opened_under'[u] = opened_under[u]
  BY <1>1 DEF Registry
<1> QED
  BY <1>2 DEF Registry

-----------------------------------------------------------------------------
(* The steps of the receivers.                                             *)

\* A transport that is not receiving changes, and queues at most lose packets.
LEMMA LoopbackQuietStep ==
    ASSUME LoopbackIInv, NEW t \in LoopHandle, receiving[t] = "idle", UNCHANGED receiving,
           \A u \in LoopHandle \ {t} : loopback'[u] = loopback[u],
           loopback'[t].local # Unbound => loopback'[t].bus # 0,
           \A c \in Buses, f \in LoopEndpoint : queues'[c][f] \in {queues[c][f], <<>>}
    PROVE  Sleepers'
<1>0. Sleepers
  BY DEF LoopbackIInv
<1>1. \A u \in LoopHandle : receiving'[u] # "idle" => u # t /\ loopback'[u] = loopback[u]
  OBVIOUS
<1>2. \A u \in LoopHandle : receiving'[u] # "idle" => bound(u)'
  BY <1>0, <1>1 DEF Sleepers, bound
<1>3. \A u \in LoopHandle : bound(u)' => loopback'[u].bus # 0
  BY <1>0 DEF Sleepers, bound
<1>4. ASSUME NEW u \in LoopHandle, receiving'[u] = "waits"
      PROVE  LoopQueue(u)' = <<>>
  <2>1. loopback'[u] = loopback[u] /\ receiving[u] = "waits"
    BY <1>1, <1>4
  <2>2. bound(u) /\ queues[loopback[u].bus][loopback[u].local] = <<>>
    BY <1>0, <2>1 DEF Sleepers, LoopQueue
  <2>3. loopback[u].bus \in Buses /\ loopback[u].local \in LoopEndpoint
    BY <2>2, OwnQueue DEF LoopbackIInv
  <2>4. queues'[loopback[u].bus][loopback[u].local] = <<>>
    BY <2>2, <2>3
  <2> QED
    BY <2>1, <2>4 DEF LoopQueue
<1>5. receiving' \in [LoopHandle -> {"idle", "waits", "woken"}]
  BY <1>0 DEF Sleepers
<1> QED
  BY <1>2, <1>3, <1>4, <1>5 DEF Sleepers

\* Whoever still sleeps after a send is on another bus than the packet.
LEMMA WakeStep ==
    ASSUME LoopbackIInv, NEW t \in LoopHandle, NEW e \in LoopEndpoint, loopback_send_to(t, e)
    PROVE  Sleepers'
<1>0. Sleepers /\ loopback' = loopback
  BY DEF LoopbackIInv, loopback_send_to
<1>1. receiving' = [u \in LoopHandle |-> IF u \in Holders(loopback[t].bus) THEN Woken(receiving[u])
                                         ELSE receiving[u]]
  BY DEF loopback_send_to, notified
<1>2. receiving' \in [LoopHandle -> {"idle", "waits", "woken"}]
  BY <1>0, <1>1 DEF Sleepers, Woken
<1>3. \A u \in LoopHandle : receiving'[u] # "idle" => receiving[u] # "idle"
  BY <1>0, <1>1 DEF Sleepers, Woken
<1>4. ASSUME NEW u \in LoopHandle, receiving'[u] = "waits"
      PROVE  LoopQueue(u)' = <<>>
  <2>1. receiving[u] = "waits" /\ loopback[u].bus # loopback[t].bus
    BY <1>1, <1>4 DEF Woken, Holders
  <2>2. bound(u) /\ queues[loopback[u].bus][loopback[u].local] = <<>>
    BY <1>0, <2>1 DEF Sleepers, LoopQueue
  <2>3. loopback[u].bus \in Buses /\ queues \in [Buses -> [LoopEndpoint -> Seq(Nat)]]
    BY <2>2, OwnQueue DEF LoopbackIInv, Packets
  <2>4. queues'[loopback[u].bus] = queues[loopback[u].bus]
    BY <2>1, <2>3 DEF loopback_send_to
  <2> QED
    BY <1>0, <2>2, <2>4 DEF LoopQueue
<1> QED
  BY <1>0, <1>2, <1>3, <1>4 DEF Sleepers, bound

\* A thread takes the packet of a queue on which therefore nobody sleeps.
LEMMA TakerStep ==
    ASSUME LoopbackIInv, NEW t \in LoopHandle, bound(t), Take(t)
    PROVE  Sleepers'
<1>0. Sleepers /\ loopback' = loopback /\ receiving' = [receiving EXCEPT ![t] = "idle"]
  BY DEF LoopbackIInv, Take
<1>1. loopback[t].bus \in Buses /\ loopback[t].local \in LoopEndpoint
  BY OwnQueue DEF LoopbackIInv
<1>2. ASSUME NEW u \in LoopHandle, receiving'[u] = "waits"
      PROVE  LoopQueue(u)' = <<>>
  <2>1. receiving[u] = "waits"
    BY <1>0, <1>2 DEF Sleepers
  <2>2. bound(u) /\ queues[loopback[u].bus][loopback[u].local] = <<>>
    BY <1>0, <2>1 DEF Sleepers, LoopQueue
  <2>3. loopback[u].bus \in Buses /\ loopback[u].local \in LoopEndpoint
    BY <2>2, OwnQueue DEF LoopbackIInv
  <2>4. <<loopback[u].bus, loopback[u].local>> # <<loopback[t].bus, loopback[t].local>>
    BY <2>2 DEF Take, LoopQueue
  <2> DEFINE b == loopback[t].bus
             e == loopback[t].local
             r == Tail(queues[b][e])
  <2>5. queues[b][e] # <<>> /\ queues' = [queues EXCEPT ![b][e] = r]
    BY DEF Take, LoopQueue
  <2>6. b \in Buses /\ e \in LoopEndpoint /\ Packets
    BY <1>1 DEF LoopbackIInv
  <2> HIDE DEF b, e
  <2>9. queues[b][e] \in Seq(Nat)
    BY <2>6, SMTT(60) DEF Packets
  <2>10. r \in Seq(Nat) /\ Rest(queues[b][e], r)
    BY <2>5, <2>9, Rests
  <2> HIDE DEF r
  <2>7. \A c \in Buses, f \in LoopEndpoint : <<c, f>> # <<b, e>> => queues'[c][f] = queues[c][f]
    BY <2>5, <2>6, <2>10, OneQueue, SMTT(60)
  <2>8. queues'[loopback[u].bus][loopback[u].local] = <<>>
    BY <2>2, <2>3, <2>4, <2>7 DEF b, e
  <2> QED
    BY <1>0, <2>8 DEF LoopQueue
<1>3. /\ receiving' \in [LoopHandle -> {"idle", "waits", "woken"}]
      /\ \A u \in LoopHandle : receiving'[u] # "idle" => receiving[u] # "idle"
  BY <1>0 DEF Sleepers
<1> QED
  BY <1>0, <1>2, <1>3 DEF Sleepers, bound

\* A thread that finds its queue empty sleeps or gives up.
LEMMA EmptyStep ==
    ASSUME LoopbackIInv, NEW t \in LoopHandle, NEW r \in {"idle", "waits"}, bound(t), LoopQueue(t) = <<>>,
           receiving' = [receiving EXCEPT ![t] = r],
           UNCHANGED <<s_buses, loopback, queues, buses_made, loop_sent, opened_under, left_behind>>
    PROVE  LoopbackIInv'
<1>1. Registry'
  BY DEF LoopbackIInv, Registry
<1>2. Packets'
  BY SMTT(60) DEF LoopbackIInv, Packets
<1>3. Sleepers'
  BY DEF LoopbackIInv, Sleepers, bound, LoopQueue
<1> QED
  BY <1>1, <1>2, <1>3 DEF LoopbackIInv

-----------------------------------------------------------------------------
(* The invariant.                                                          *)

\* No transport exists at first, and no packet.
LEMMA InitInv ==
    LoopbackInit => LoopbackIInv
<1> SUFFICES ASSUME LoopbackInit PROVE LoopbackIInv
  OBVIOUS
<1>1. Registry
  BY SMTT(60) DEF LoopbackInit, Registry, NoTransport
<1>2. Packets
  <2>1. \A b \in Buses, e \in LoopEndpoint : queues[b][e] = <<>>
    BY DEF LoopbackInit
  <2>2. queues \in [Buses -> [LoopEndpoint -> Seq(Nat)]]
    BY EmptyFacts DEF LoopbackInit
  <2>3. \A b \in Buses, e \in LoopEndpoint : 1 .. Len(queues[b][e]) = {}
    BY <2>1, EmptyFacts, SMTT(60)
  <2> QED
    BY <2>2, <2>3, SMTT(60) DEF LoopbackInit, Packets
<1>3. Sleepers
  BY DEF LoopbackInit, Sleepers, bound, NoTransport
<1> QED
  BY <1>1, <1>2, <1>3 DEF LoopbackIInv

\* Each call of a transport, and each wake-up of a receiver, keeps the
\* invariant.
LEMMA StepInv ==
    LoopbackIInv /\ [LoopbackNext]_loopVars => LoopbackIInv'
<1> SUFFICES ASSUME LoopbackIInv, [LoopbackNext]_loopVars PROVE LoopbackIInv'
  OBVIOUS
<1>0. Registry /\ Packets /\ Sleepers
  BY DEF LoopbackIInv
<1>1. ASSUME NEW t \in LoopHandle, NEW id \in BusId, loopback_create(t, id)
      PROVE  LoopbackIInv'
  <2>1. loopback[t].bus = 0 /\ UNCHANGED <<queues, receiving, loop_sent, left_behind>>
    BY <1>1 DEF loopback_create
  <2>2. receiving[t] = "idle" /\ loopback[t].local = Unbound
    BY <1>0, <2>1 DEF Sleepers, bound
  <2>3. /\ loopback'[t].local = loopback[t].local
        /\ \A u \in LoopHandle \ {t} : loopback'[u] = loopback[u]
    BY <1>0, <1>1, SMTT(60) DEF loopback_create, Registry
  <2>4. Packets'
    BY <1>0, <2>1, SMTT(60) DEF Packets
  <2>5. Sleepers'
    BY <2>1, <2>2, <2>3, LoopbackQuietStep
  <2> QED
    BY <1>1, <2>4, <2>5, CreateStep DEF LoopbackIInv
<1>2. ASSUME NEW t \in LoopHandle, NEW e \in LoopEndpoint, loopback_bind(t, e)
      PROVE  LoopbackIInv'
  <2>1. Registry'
    BY <1>0, <1>2, LocalStep DEF loopback_bind
  <2>2. Packets'
    BY <1>0, <1>2, SMTT(60) DEF loopback_bind, Packets
  <2>3. /\ loopback'[t].bus = loopback[t].bus
        /\ \A u \in LoopHandle \ {t} : loopback'[u] = loopback[u]
    BY <1>0, <1>2 DEF loopback_bind, Registry
  <2>4. Sleepers'
    BY <1>2, <2>3, LoopbackQuietStep DEF loopback_bind
  <2> QED
    BY <2>1, <2>2, <2>4 DEF LoopbackIInv
<1>3. ASSUME NEW t \in LoopHandle, loopback_close(t)
      PROVE  LoopbackIInv'
  <2>1. Registry'
    BY <1>0, <1>3, LocalStep DEF loopback_close
  <2>2. /\ Packets'
        /\ \A c \in Buses, f \in LoopEndpoint : queues'[c][f] \in {queues[c][f], <<>>}
    BY <1>3, LoopbackRemoveStep DEF loopback_close
  <2>3. /\ loopback'[t].local = Unbound
        /\ \A u \in LoopHandle \ {t} : loopback'[u] = loopback[u]
    BY <1>0, <1>3 DEF loopback_close, Registry
  <2>4. Sleepers'
    BY <1>3, <2>2, <2>3, LoopbackQuietStep DEF loopback_close
  <2> QED
    BY <2>1, <2>2, <2>4 DEF LoopbackIInv
<1>4. ASSUME NEW t \in LoopHandle, loopback_destroy(t)
      PROVE  LoopbackIInv'
  <2>1. Registry'
    BY <1>0, <1>4, GoneStep DEF loopback_destroy
  <2>2. /\ Packets'
        /\ \A c \in Buses, f \in LoopEndpoint : queues'[c][f] \in {queues[c][f], <<>>}
    <3>1. loop_sent' = loop_sent /\ loopback[t].bus # 0 /\ (BusFreed(t) \/ remove_endpoint(t))
      BY <1>4 DEF loopback_destroy
    <3> QED
      BY <3>1, LoopbackRemoveStep, FreedStep
  <2>3. /\ loopback'[t].local = Unbound
        /\ \A u \in LoopHandle \ {t} : loopback'[u] = loopback[u]
    BY <1>0, <1>4 DEF loopback_destroy, Registry, NoTransport
  <2>4. Sleepers'
    BY <1>4, <2>2, <2>3, LoopbackQuietStep DEF loopback_destroy
  <2> QED
    BY <2>1, <2>2, <2>4 DEF LoopbackIInv
<1>5. ASSUME NEW t \in LoopHandle, NEW e \in LoopEndpoint, loopback_send_to(t, e)
      PROVE  LoopbackIInv'
  <2>1. Registry'
    BY <1>0, <1>5 DEF loopback_send_to, Registry
  <2> QED
    BY <1>5, <2>1, SendStep, WakeStep DEF LoopbackIInv
<1>6. ASSUME NEW t \in LoopHandle, bound(t), Take(t)
      PROVE  LoopbackIInv'
  <2>1. Registry'
    BY <1>0, <1>6 DEF Take, Registry
  <2> QED
    BY <1>6, <2>1, LoopbackTakeStep, TakerStep DEF LoopbackIInv
<1>7. ASSUME NEW t \in LoopHandle, loopback_recv_from(t) \/ Resume(t) \/ Elapse(t)
      PROVE  LoopbackIInv'
  <2>1. bound(t)
    BY <1>0, <1>7 DEF loopback_recv_from, Resume, Elapse, Sleepers
  <2> QED
    BY <1>6, <1>7, <2>1, EmptyStep DEF loopback_recv_from, Resume, Elapse
<1>8. CASE UNCHANGED loopVars
  <2>1. Registry'
    BY <1>0, <1>8 DEF loopVars, Registry
  <2>2. Packets'
    BY <1>0, <1>8, SMTT(60) DEF loopVars, Packets
  <2>3. Sleepers'
    BY <1>0, <1>8 DEF loopVars, Sleepers, bound, LoopQueue
  <2> QED
    BY <2>1, <2>2, <2>3 DEF LoopbackIInv
<1> QED
  BY <1>1, <1>2, <1>3, <1>4, <1>5, <1>7, <1>8 DEF LoopbackNext

\* For any number of transports, ids, endpoints and packets: transports share
\* a bus exactly when they were created with the same id, no receiver sleeps
\* on a packet, and no packet outlives the endpoint it was queued for
\* (pcol_transport_loopback_create, LoopbackBus::deliver, remove_endpoint).
THEOREM BusesCorrect ==
    LoopbackSpec => []LoopbackInv
<1>1. LoopbackIInv => LoopbackInv
  <2> SUFFICES ASSUME LoopbackIInv PROVE LoopbackInv
    OBVIOUS
  <2>1. \A b \in Buses, e \in LoopEndpoint : DOMAIN queues[b][e] = 1 .. Len(queues[b][e])
    <3> TAKE b \in Buses, e \in LoopEndpoint
    <3>1. queues[b][e] \in Seq(Nat)
      BY SMTT(60) DEF LoopbackIInv, Packets
    <3> QED
      BY <3>1, LenFacts
  <2>2. LoopbackTypeOK
    BY <2>1, SMTT(60) DEF LoopbackIInv, Registry, Packets, Sleepers, LoopbackTypeOK
  <2>3. SameIdSameBus
    BY SMTT(60) DEF LoopbackIInv, Registry, SameIdSameBus
  <2>4. NoLostWakeup
    BY DEF LoopbackIInv, Sleepers, NoLostWakeup
  <2>5. NothingFromBeforeClose
    BY <2>1, SMTT(60) DEF LoopbackIInv, Packets, NothingFromBeforeClose
  <2> QED
    BY <2>2, <2>3, <2>4, <2>5 DEF LoopbackInv
<1> QED
  BY <1>1, InitInv, StepInv, PTL DEF LoopbackSpec

-----------------------------------------------------------------------------
(***************************************************************************)
(* Handshake, for every set of peers, every mix of blocking, non-blocking  *)
(* and multi-connection calls, and every loss, repetition and reordering:  *)
(* no connection arises unless one side asked for it.                      *)
(***************************************************************************)

\* Sets of consecutive integers, and their subsets, are finite.
LEMMA IntervalFinite ==
    ASSUME NEW a \in Int, NEW b \in Int, NEW S \in SUBSET (a .. b)
    PROVE  IsFiniteSet(S)
<1>1. IsFiniteSet(a .. b)
  BY FS_Interval
<1> QED
  BY <1>1, FS_Subset

USE HandshakeAssumption

-----------------------------------------------------------------------------
(* The inductive invariant.                                                *)

\* A packet in flight has its reason: a CONNECT was sent, and an ACCEPT goes
\* to a peer that sent a CONNECT.
Explained(k) ==
    /\ k.type = "CONNECT" => k \in said
    /\ k.type = "ACCEPT" => packet("CONNECT", k.to, k.from) \in said

\* A connection of p has its reason: p sent a CONNECT, or tried to, if it is
\* CONNECTING, and one of its ends did if it is CONNECTED.
Justified(p, c) ==
    /\ c.state = "CONNECTING" => packet("CONNECT", p, c.remote) \in said \cup unsent
    /\ c.state = "CONNECTED" => \/ packet("CONNECT", p, c.remote) \in said \cup unsent
                                \/ packet("CONNECT", c.remote, p) \in said

AllExplained == \A k \in Packet : net[k] > 0 => Explained(k)
AllJustified == \A p \in Node, s \in Slot : Justified(p, slots[p][s])

\* A peer is in a blocking call or in none.
CallShape == \A p \in Node : call[p].op = "none" => call[p] = NoCall

HandshakeIInv == TypeOK /\ CallShape /\ AllExplained /\ AllJustified

-----------------------------------------------------------------------------
(* Facts about the operators.                                              *)

\* A packet between two peers, and its fields.
LEMMA PacketFacts ==
    ASSUME NEW t \in {"CONNECT", "ACCEPT", "CLOSE", "DATA"}, NEW p \in Node, NEW q \in Node
    PROVE  /\ packet(t, p, q) \in Packet
           /\ packet(t, p, q).type = t /\ packet(t, p, q).from = p /\ packet(t, p, q).to = q
  BY DEF packet, Packet

\* A packet is determined by its fields.
LEMMA PacketOf ==
    ASSUME NEW k \in Packet
    PROVE  k = packet(k.type, k.from, k.to) /\ k.from \in Node /\ k.to \in Node
  BY DEF packet, Packet

\* There are finitely many slots, so that flush() sends a number of packets.
LEMMA LiveCount ==
    ASSUME NEW p, NEW q
    PROVE  Cardinality(LiveTo(p, q)) \in Nat
<1>1. IsFiniteSet(Node)
  <2>1. 1 \in Int /\ FirstAuto - 1 \in Int
    BY SMTT(60) DEF FirstAuto
  <2>2. Node \in SUBSET (1 .. FirstAuto - 1)
    OBVIOUS
  <2> HIDE HandshakeAssumption
  <2> QED
    BY <2>1, <2>2, IntervalFinite
<1>2. IsFiniteSet(AutoSlot)
  <2>1. FirstAuto \in Int /\ FirstAuto + MaxAuto - 1 \in Int
    BY SMTT(60) DEF FirstAuto
  <2>2. AutoSlot \in SUBSET (FirstAuto .. FirstAuto + MaxAuto - 1)
    BY DEF AutoSlot
  <2> HIDE HandshakeAssumption
  <2> QED
    BY <2>1, <2>2, IntervalFinite
<1>3. IsFiniteSet(Slot)
  <2>1. IsFiniteSet({0} \cup Node)
    BY <1>1, FS_Singleton, FS_Union
  <2> QED
    BY <1>2, <2>1, FS_Union DEF Slot
<1>4. LiveTo(p, q) \subseteq Slot
  BY DEF LiveTo, Live
<1> QED
  BY <1>3, <1>4, FS_Subset, FS_CardinalityType

\* process_packet() returns a connection, with the same remote, which is
\* CONNECTED only if it was, or was CONNECTING and the packet is an ACCEPT.
LEMMA ProcessFacts ==
    ASSUME NEW c \in Connection, NEW k \in Packet
    PROVE  /\ process_packet(c, k) \in Connection
           /\ process_packet(c, k).remote = c.remote
           /\ process_packet(c, k).state = "CONNECTED" => c.state \in {"CONNECTING", "CONNECTED"}
           /\ process_packet(c, k).state = "CONNECTING" => c.state = "CONNECTING"
<1>1. c.state \in State /\ c.remote \in Node \cup {None} /\ c = [state |-> c.state, remote |-> c.remote]
  BY DEF Connection
<1> QED
  BY <1>1 DEF process_packet, Connection, State

-----------------------------------------------------------------------------
(* What one step does to the packets and to the slots.                     *)

\* What was said stays said, so every explanation stays good.
LEMMA Lasting ==
    ASSUME said \subseteq said'
    PROVE  /\ \A k \in Packet : Explained(k) => Explained(k)'
           /\ unsent \subseteq unsent' =>
                 \A p \in Node, c \in Connection : Justified(p, c) => Justified(p, c)'
  BY DEF Explained, Justified

\* A packet that has an explanation is put in flight.
LEMMA AddStep ==
    ASSUME HandshakeIInv, NEW r \in Packet, net' = [net EXCEPT ![r] = @ + 1],
           said \subseteq said', Explained(r)'
    PROVE  net' \in [Packet -> Nat] /\ AllExplained'
<1>1. net \in [Packet -> Nat]
  BY DEF HandshakeIInv, TypeOK
<1>2. \A k \in Packet : net'[k] > 0 => k = r \/ net[k] > 0
  BY <1>1
<1>3. \A k \in Packet : net'[k] > 0 => Explained(k)'
  BY <1>2, Lasting DEF HandshakeIInv, AllExplained
<1> QED
  BY <1>1, <1>3, SMTT(60) DEF AllExplained

\* A packet leaves the network.
LEMMA RemoveStep ==
    ASSUME HandshakeIInv, NEW k \in Packet, net[k] > 0
    PROVE  /\ Without(k) \in [Packet -> Nat]
           /\ \A j \in Packet : Without(k)[j] > 0 => net[j] > 0
  BY SMTT(60) DEF HandshakeIInv, TypeOK, Without

\* A packet is taken and nothing is said.
LEMMA TakeStep ==
    ASSUME HandshakeIInv, NEW k \in Packet, net[k] > 0, net' = Without(k), said' = said
    PROVE  net' \in [Packet -> Nat] /\ AllExplained'
<1>1. \A j \in Packet : net'[j] > 0 => Explained(j)'
  BY RemoveStep, Lasting DEF HandshakeIInv, AllExplained
<1> QED
  BY <1>1, RemoveStep DEF AllExplained

\* A CONNECT is taken and answered with an ACCEPT.
LEMMA AnswerStep ==
    ASSUME HandshakeIInv, NEW k \in Packet, net[k] > 0, k.type = "CONNECT", answer(k)
    PROVE  /\ net' \in [Packet -> Nat] /\ AllExplained'
           /\ said' \in SUBSET Packet /\ said \subseteq said'
           /\ packet("CONNECT", k.from, k.to) \in said'
<1> DEFINE r == packet("ACCEPT", k.to, k.from)
<1>1. k.from \in Node /\ k.to \in Node /\ k = packet("CONNECT", k.from, k.to)
  BY PacketOf
<1>2. r \in Packet /\ r.type = "ACCEPT" /\ r.from = k.to /\ r.to = k.from
  BY <1>1 DEF packet, Packet
<1>3. said' = said \cup {r} /\ net' = [Without(k) EXCEPT ![r] = @ + 1]
  BY DEF answer
<1>4. k \in said
  BY DEF HandshakeIInv, AllExplained, Explained
<1>5. said' \in SUBSET Packet /\ said \subseteq said' /\ k \in said'
  BY <1>2, <1>3, <1>4 DEF HandshakeIInv, TypeOK
<1> HIDE DEF r
<1>6. net' \in [Packet -> Nat] /\ \A j \in Packet : net'[j] > 0 => j = r \/ net[j] > 0
  <2> DEFINE w == Without(k)
  <2>1. w \in [Packet -> Nat] /\ \A j \in Packet : w[j] > 0 => net[j] > 0
    BY RemoveStep
  <2>2. net' = [w EXCEPT ![r] = @ + 1]
    BY <1>3
  <2> HIDE DEF w
  <2>3. \A j \in Packet : net'[j] = IF j = r THEN w[j] + 1 ELSE w[j]
    BY <2>1, <2>2
  <2> QED
    BY <1>2, <2>1, <2>2, <2>3, SMTT(60)
<1>7. Explained(r)'
  BY <1>1, <1>2, <1>5 DEF Explained
<1>8. \A j \in Packet : net'[j] > 0 => Explained(j)'
  BY <1>5, <1>6, <1>7, Lasting DEF HandshakeIInv, AllExplained
<1> QED
  BY <1>1, <1>5, <1>6, <1>8 DEF AllExplained

\* One slot gets a connection that has its reason.
LEMMA SlotStep ==
    ASSUME HandshakeIInv, NEW p \in Node, NEW s \in Slot, NEW c \in Connection,
           slots' = [slots EXCEPT ![p][s] = c],
           said \subseteq said', unsent \subseteq unsent', Justified(p, c)'
    PROVE  slots' \in [Node -> [Slot -> Connection]] /\ AllJustified'
<1>1. slots \in [Node -> [Slot -> Connection]]
  BY DEF HandshakeIInv, TypeOK
<1>2. slots' \in [Node -> [Slot -> Connection]]
  BY <1>1
<1>3. \A n \in Node, t \in Slot : slots'[n][t] = IF n = p /\ t = s THEN c ELSE slots[n][t]
  BY <1>1
<1>4. ASSUME NEW n \in Node, NEW t \in Slot
      PROVE  Justified(n, slots[n][t])'
  <2>1. CASE n = p /\ t = s
    BY <1>3, <2>1 DEF Justified
  <2>2. CASE ~(n = p /\ t = s)
    BY <1>1, <1>3, <2>2, SMTT(60) DEF Justified, HandshakeIInv, AllJustified
  <2> QED
    BY <2>1, <2>2
<1> QED
  BY <1>2, <1>4 DEF AllJustified

\* No slot changes.
LEMMA SlotsKept ==
    ASSUME HandshakeIInv, slots' = slots, said \subseteq said', unsent \subseteq unsent'
    PROVE  slots' \in [Node -> [Slot -> Connection]] /\ AllJustified'
  BY DEF HandshakeIInv, TypeOK, AllJustified, Justified

\* The connections that need no reason.
LEMMA NeedsNoReason ==
    /\ Absent \in Connection /\ \A p \in Node : Justified(p, Absent)'
    /\ Fresh \in Connection /\ \A p \in Node : Justified(p, Fresh)'
  BY DEF Absent, Fresh, Connection, State, Justified, None

-----------------------------------------------------------------------------
(* Each action.                                                            *)

\* The state other than slots, packets and what was said.
Registers ==
    /\ program \in Programs
    /\ call \in [Node -> Call]
    /\ hs \in [Node -> {"NONE", "CONNECTING", "ACCEPTING"}]
    /\ auto \in [Node -> 0 .. MaxAuto]
    /\ calls \in [Node -> Nat]
    /\ \A p \in Node : calls[p] <= program[p].calls
    /\ flushes \in [Node -> 0 .. MaxData]
    /\ faults \in 0 .. MaxFaults
    /\ hasty \in BOOLEAN
    /\ unsent \in SUBSET Packet
    /\ CallShape

\* The invariant, part by part.
LEMMA Parts ==
    /\ HandshakeIInv => Registers
    /\ (/\ Registers'
        /\ slots' \in [Node -> [Slot -> Connection]] /\ AllJustified'
        /\ net' \in [Packet -> Nat] /\ AllExplained'
        /\ said' \in SUBSET Packet) => HandshakeIInv'
<1>1. HandshakeIInv => Registers
  BY DEF HandshakeIInv, TypeOK, Registers
<1>2. (/\ Registers'
       /\ slots' \in [Node -> [Slot -> Connection]] /\ AllJustified'
       /\ net' \in [Packet -> Nat] /\ AllExplained'
       /\ said' \in SUBSET Packet) => HandshakeIInv'
  BY DEF HandshakeIInv, TypeOK, Registers
<1> QED
  BY <1>1, <1>2

\* Losing and repeating packets.
LEMMA FaultStep ==
    ASSUME HandshakeIInv, NEW k \in Packet, Lose(k) \/ Duplicate(k)
    PROVE  HandshakeIInv'
<1>1. net[k] > 0 /\ said' = said /\ unsent' = unsent /\ slots' = slots
  BY DEF Lose, Duplicate
<1>2. Registers'
  <2>1. /\ faults' \in 0 .. MaxFaults
        /\ UNCHANGED <<program, call, hs, auto, calls, flushes, hasty, unsent>>
    BY Parts, SMTT(60) DEF Registers, Lose, Duplicate
  <2> QED
    BY <2>1, Parts DEF Registers, CallShape
<1>3. slots' \in [Node -> [Slot -> Connection]] /\ AllJustified'
  BY <1>1, SlotsKept
<1>4. net' \in [Packet -> Nat] /\ AllExplained'
  <2>1. CASE Lose(k)
    BY <1>1, <2>1, TakeStep DEF Lose
  <2>2. CASE Duplicate(k)
    <3>1. Explained(k)'
      BY <1>1, Lasting DEF HandshakeIInv, AllExplained
    <3> QED
      BY <1>1, <2>2, <3>1, AddStep DEF Duplicate
  <2> QED
    BY <2>1, <2>2
<1>5. said' \in SUBSET Packet
  BY <1>1 DEF HandshakeIInv, TypeOK
<1> QED
  BY <1>2, <1>3, <1>4, <1>5, Parts

\* The packets of a step that sends a CONNECT, or fails to, and the connection it is for.
LEMMA InitiateStep ==
    ASSUME HandshakeIInv, NEW p \in Node, NEW q \in Node, NEW s \in Slot, initiate(p, s, q),
           send_connect(p, q) \/ refused_connect(p, q)
    PROVE  /\ slots' \in [Node -> [Slot -> Connection]] /\ AllJustified'
           /\ net' \in [Packet -> Nat] /\ AllExplained'
<1> DEFINE r == packet("CONNECT", p, q)
           c == [state |-> "CONNECTING", remote |-> q]
<1>1. r \in Packet /\ r.type = "CONNECT"
  BY DEF packet, Packet
<1>2. c \in Connection /\ c.state = "CONNECTING" /\ c.remote = q
  BY DEF Connection, State
<1>3. slots' = [slots EXCEPT ![p][s] = c]
  BY DEF initiate
<1>4. /\ said \subseteq said' /\ unsent \subseteq unsent'
      /\ r \in said' \cup unsent'
  BY DEF send_connect, refused_connect
<1>5. Justified(p, c)'
  BY <1>2, <1>4 DEF Justified
<1> HIDE DEF c
<1>6. slots' \in [Node -> [Slot -> Connection]] /\ AllJustified'
  BY <1>2, <1>3, <1>4, <1>5, SlotStep
<1>7. CASE send_connect(p, q)
  <2>1. net' = [net EXCEPT ![r] = @ + 1] /\ said' = said \cup {r}
    BY <1>7 DEF send_connect
  <2> HIDE DEF r
  <2>2. Explained(r)'
    BY <1>1, <2>1 DEF Explained
  <2> QED
    BY <1>1, <1>4, <1>6, <2>1, <2>2, AddStep
<1>8. CASE refused_connect(p, q)
  BY <1>6, <1>8 DEF refused_connect, HandshakeIInv, TypeOK, AllExplained, Explained
<1> QED
  BY <1>7, <1>8

\* A peer enters a blocking call.
LEMMA EnterStep ==
    ASSUME HandshakeIInv, NEW p \in Node, NEW s \in Slot, NEW op \in Blocking,
           call' = [call EXCEPT ![p] = [op |-> op, slot |-> s]]
    PROVE  call' \in [Node -> Call] /\ CallShape'
<1> DEFINE e == [op |-> op, slot |-> s]
<1>1. e \in Call /\ e.op # "none"
  BY DEF Call, Blocking
<1>2. call' = [call EXCEPT ![p] = e]
  OBVIOUS
<1> HIDE DEF e
<1> QED
  BY <1>1, <1>2 DEF HandshakeIInv, TypeOK, CallShape

\* The state other than slots and packets after a call.
LEMMA CallsStep ==
    ASSUME HandshakeIInv, NEW p \in Node, NEW op \in Ops, Calls(p, op),
           hs' \in [Node -> {"NONE", "CONNECTING", "ACCEPTING"}],
           call' \in [Node -> Call], CallShape', unsent' \in SUBSET Packet
    PROVE  Registers'
  BY Parts, SMTT(60) DEF Registers, Calls

\* The calls that connect.
LEMMA ConnectStep ==
    ASSUME HandshakeIInv, NEW p \in Node, NEW q \in Node,
           connect(p, q) \/ connect_start(p, q) \/ connect_to(p, q)
    PROVE  HandshakeIInv'
<1>1. q \in Slot /\ 0 \in Slot
  BY DEF Slot
<1>2. /\ send_connect(p, q) \/ refused_connect(p, q)
      /\ initiate(p, 0, q) \/ initiate(p, q, q) \/ (refused_connect(p, q) /\ slots' = slots)
  BY DEF connect, connect_start, connect_to
<1>3. said' \in SUBSET Packet /\ unsent' \in SUBSET Packet
  <2>1. packet("CONNECT", p, q) \in Packet
    BY PacketFacts
  <2> QED
    BY <1>2, <2>1 DEF send_connect, refused_connect, HandshakeIInv, TypeOK
<1>4. call' \in [Node -> Call] /\ CallShape'
  <2>1. CASE UNCHANGED call
    BY <2>1, Parts DEF Registers, CallShape
  <2>2. CASE call' # call
    <3>1. \E op \in Blocking, s \in Slot : call' = [call EXCEPT ![p] = [op |-> op, slot |-> s]]
      BY <1>1, <2>2 DEF connect, connect_start, connect_to, Blocking
    <3> QED
      BY <3>1, EnterStep
  <2> QED
    BY <2>1, <2>2
<1>5. hs' \in [Node -> {"NONE", "CONNECTING", "ACCEPTING"}]
  BY Parts DEF connect, connect_start, connect_to, Registers
<1>6. \E op \in Ops : Calls(p, op)
  BY DEF connect, connect_start, connect_to, Ops
<1>7. Registers'
  BY <1>3, <1>4, <1>5, <1>6, CallsStep
<1>8. /\ slots' \in [Node -> [Slot -> Connection]] /\ AllJustified'
      /\ net' \in [Packet -> Nat] /\ AllExplained'
  <2>1. CASE initiate(p, 0, q) \/ initiate(p, q, q)
    BY <1>1, <1>2, <2>1, InitiateStep
  <2>2. CASE refused_connect(p, q) /\ slots' = slots
    <3>1. said \subseteq said' /\ unsent \subseteq unsent'
      BY <2>2 DEF refused_connect
    <3>2. slots' \in [Node -> [Slot -> Connection]] /\ AllJustified'
      BY <2>2, <3>1, SlotsKept
    <3> QED
      BY <2>2, <3>2 DEF refused_connect, HandshakeIInv, TypeOK, AllExplained, Explained
  <2> QED
    BY <1>2, <2>1, <2>2
<1> QED
  BY <1>3, <1>7, <1>8, Parts

\* The calls that wait for somebody to connect.
LEMMA AcceptStep ==
    ASSUME HandshakeIInv, NEW p \in Node, NEW q \in Node,
           accept_from(p) \/ accept_start(p) \/ accept_node(p, q)
    PROVE  HandshakeIInv'
<1>1. q \in Slot /\ 0 \in Slot
  BY DEF Slot
<1>2. net' = net /\ said' = said /\ unsent' = unsent /\ unsent \in SUBSET Packet
  BY DEF accept_from, accept_start, accept_node, HandshakeIInv, TypeOK
<1>3. net' \in [Packet -> Nat] /\ AllExplained' /\ said' \in SUBSET Packet
  BY <1>2 DEF HandshakeIInv, TypeOK, AllExplained, Explained
<1>4. Registers'
  <2>1. CASE accept_from(p)
    <3>1. call' \in [Node -> Call] /\ CallShape'
      BY <1>1, <2>1, EnterStep DEF accept_from, Blocking
    <3> QED
      BY <1>2, <2>1, <3>1, CallsStep, Parts DEF accept_from, Registers, Ops
  <2>2. CASE accept_node(p, q)
    <3>1. call' \in [Node -> Call] /\ CallShape'
      BY <1>1, <2>2, EnterStep DEF accept_node, Blocking
    <3> QED
      BY <1>2, <2>2, <3>1, CallsStep, Parts DEF accept_node, Registers, Ops
  <2>3. CASE accept_start(p)
    <3>1. call' \in [Node -> Call] /\ CallShape'
      BY <2>3, Parts DEF accept_start, Registers, CallShape
    <3>2. hs' \in [Node -> {"NONE", "CONNECTING", "ACCEPTING"}]
      BY <2>3, Parts DEF accept_start, Registers
    <3> QED
      BY <1>2, <2>3, <3>1, <3>2, CallsStep DEF accept_start, Ops
  <2> QED
    BY <2>1, <2>2, <2>3
<1>5. slots' \in [Node -> [Slot -> Connection]] /\ AllJustified'
  <2>1. CASE accept_node(p, q)
    BY <1>1, <1>2, <2>1, SlotStep, NeedsNoReason DEF accept_node
  <2>2. CASE accept_from(p) \/ accept_start(p)
    <3> DEFINE c == added(slots[p][0])
    <3>1. slots[p][0] \in Connection /\ Justified(p, slots[p][0])
      BY <1>1, SMTT(60) DEF HandshakeIInv, TypeOK, AllJustified
    <3>2. c \in Connection /\ Justified(p, c)
      BY <3>1 DEF added, Fresh, Connection, State, Justified, None
    <3>3. slots' = [slots EXCEPT ![p][0] = c]
      BY <2>2 DEF accept_from, accept_start
    <3> HIDE DEF c
    <3>4. c = Fresh \/ c = slots[p][0]
      BY DEF c, added
    <3>5. \A d \in Connection : Justified(p, d) => Justified(p, d)'
      BY <1>2, Lasting
    <3> QED
      BY <1>1, <1>2, <3>1, <3>2, <3>3, <3>4, <3>5, SlotStep
  <2> QED
    BY <2>1, <2>2
<1> QED
  BY <1>3, <1>4, <1>5, Parts

\* The calls that close a connection.
LEMMA CloseStep ==
    ASSUME HandshakeIInv, NEW p \in Node, NEW s \in Slot, disconnect(p) \/ disconnect_node(p, s)
    PROVE  HandshakeIInv'
<1>1. said' = said /\ said' \in SUBSET Packet /\ unsent' = unsent /\ unsent' \in SUBSET Packet
  BY DEF disconnect, disconnect_node, HandshakeIInv, TypeOK
<1>2. \E op \in Ops : Calls(p, op)
  BY DEF disconnect, disconnect_node, Ops
<1>3. call' = call /\ hs' = hs
  BY DEF disconnect, disconnect_node
<1>4. Registers'
  <2>1. call' \in [Node -> Call] /\ CallShape'
    BY <1>3, Parts DEF Registers, CallShape
  <2> QED
    BY <1>1, <1>2, <1>3, <2>1, CallsStep, Parts DEF Registers
<1>5. ASSUME NEW t \in Live(p)
      PROVE  /\ packet("CLOSE", p, slots[p][t].remote) \in Packet
             /\ packet("CLOSE", p, slots[p][t].remote).type = "CLOSE"
  <2>1. t \in Slot /\ slots[p][t] \in Connection /\ slots[p][t].state = "CONNECTED"
    BY SMTT(60) DEF Live, HandshakeIInv, TypeOK
  <2>2. \/ packet("CONNECT", p, slots[p][t].remote) \in Packet
        \/ packet("CONNECT", slots[p][t].remote, p) \in Packet
    BY <2>1 DEF HandshakeIInv, TypeOK, AllJustified, Justified
  <2>3. slots[p][t].remote \in Node
    BY <2>2 DEF packet, Packet
  <2> QED
    BY <2>3 DEF packet, Packet
<1>6. ASSUME NEW r \in Packet, r.type = "CLOSE", net' = [net EXCEPT ![r] = @ + 1]
      PROVE  net' \in [Packet -> Nat] /\ AllExplained'
  <2>1. Explained(r)'
    BY <1>6 DEF Explained
  <2> QED
    BY <1>1, <1>6, <2>1, AddStep
<1>7. CASE disconnect(p)
  <2>1. PICK t \in Live(p) :
            /\ slots' = [slots EXCEPT ![p][t].state = "CLOSING"]
            /\ net' = [net EXCEPT ![packet("CLOSE", p, slots[p][t].remote)] = @ + 1]
    BY <1>7 DEF disconnect
  <2> DEFINE c == [slots[p][t] EXCEPT !.state = "CLOSING"]
  <2>2. t \in Slot /\ slots[p][t] \in Connection
    BY SMTT(60) DEF Live, HandshakeIInv, TypeOK
  <2>3. c \in Connection /\ c.state = "CLOSING"
    BY <2>2 DEF Connection, State
  <2>4. slots' = [slots EXCEPT ![p][t] = c]
    BY <2>1
  <2>5. \A d \in Connection : d.state = "CLOSING" => Justified(p, d)'
    BY DEF Justified
  <2> HIDE DEF c
  <2>6. slots' \in [Node -> [Slot -> Connection]] /\ AllJustified'
    BY <1>1, <2>2, <2>3, <2>4, <2>5, SlotStep
  <2>7. net' \in [Packet -> Nat] /\ AllExplained'
    BY <1>5, <1>6, <2>1
  <2> QED
    BY <1>1, <1>4, <2>6, <2>7, Parts
<1>8. CASE disconnect_node(p, s)
  <2>1. slots' \in [Node -> [Slot -> Connection]] /\ AllJustified'
    BY <1>1, <1>8, SlotStep, NeedsNoReason DEF disconnect_node
  <2>2. net' \in [Packet -> Nat] /\ AllExplained'
    <3>1. CASE s \in Live(p)
      BY <1>5, <1>8, <1>6, <3>1 DEF disconnect_node
    <3>2. CASE s \notin Live(p)
      BY <1>1, <1>8, <3>2, Lasting DEF disconnect_node, HandshakeIInv, TypeOK, AllExplained
    <3> QED
      BY <3>1, <3>2
  <2> QED
    BY <1>1, <1>4, <2>1, <2>2, Parts
<1> QED
  BY <1>7, <1>8

\* flush() sends DATA packets only.
LEMMA FlushStep ==
    ASSUME HandshakeIInv, NEW p \in Node, flush(p)
    PROVE  HandshakeIInv'
<1>1. said' = said /\ said' \in SUBSET Packet /\ unsent' = unsent /\ slots' = slots
  BY DEF flush, HandshakeIInv, TypeOK
<1>2. Registers'
  <2>1. /\ flushes' \in [Node -> 0 .. MaxData]
        /\ UNCHANGED <<program, call, hs, auto, calls, faults, hasty, unsent>>
    BY Parts, SMTT(60) DEF Registers, flush
  <2> QED
    BY <2>1, Parts DEF Registers, CallShape
<1>3. net \in [Packet -> Nat]
  BY DEF HandshakeIInv, TypeOK
<1>4. net' \in [Packet -> Nat]
  BY <1>3, LiveCount, SMTT(60) DEF flush
<1>5. \A k \in Packet : net'[k] > 0 => k.type = "DATA" \/ net[k] > 0
  BY <1>3 DEF flush
<1>6. \A k \in Packet : net'[k] > 0 => Explained(k)'
  BY <1>1, <1>5, Lasting DEF HandshakeIInv, AllExplained, Explained
<1>7. slots' \in [Node -> [Slot -> Connection]] /\ AllJustified'
  BY <1>1, SlotsKept
<1> QED
  BY <1>1, <1>2, <1>4, <1>6, <1>7, Parts DEF AllExplained

\* A blocking call gives up, or a non-blocking one finds itself connected.
LEMMA IdleStep ==
    ASSUME HandshakeIInv, NEW p \in Node, Timeout(p) \/ AlreadyConnected(p)
    PROVE  HandshakeIInv'
<1>1. said' = said /\ unsent' = unsent /\ net' = net
  BY DEF Timeout, AlreadyConnected
<1>2. net' \in [Packet -> Nat] /\ AllExplained' /\ said' \in SUBSET Packet
  BY <1>1 DEF HandshakeIInv, TypeOK, AllExplained, Explained
<1>3. NoCall \in Call
  BY DEF NoCall, Call, Slot
<1>4. CASE Timeout(p)
  <2>1. call' \in [Node -> Call] /\ CallShape'
    BY <1>3, <1>4, Parts DEF Timeout, Registers, CallShape
  <2>2. Registers'
    BY <1>4, <2>1, Parts DEF Timeout, Registers
  <2>3. call[p].slot \in Slot
    BY Parts DEF Registers, Call
  <2>4. slots' \in [Node -> [Slot -> Connection]] /\ AllJustified'
    <3>1. CASE call[p].op \in {"connect_to", "accept_node"}
      BY <1>1, <1>4, <2>3, <3>1, SlotStep, NeedsNoReason DEF Timeout
    <3>2. CASE call[p].op \notin {"connect_to", "accept_node"}
      BY <1>1, <1>4, <3>2, SlotsKept DEF Timeout
    <3> QED
      BY <3>1, <3>2
  <2> QED
    BY <1>2, <2>2, <2>4, Parts
<1>5. CASE AlreadyConnected(p)
  <2>1. Registers'
    BY <1>5, Parts DEF AlreadyConnected, Registers, CallShape
  <2>2. slots' \in [Node -> [Slot -> Connection]] /\ AllJustified'
    BY <1>1, <1>5, SlotsKept DEF AlreadyConnected
  <2> QED
    BY <1>2, <2>1, <2>2, Parts
<1> QED
  BY <1>4, <1>5

\* Slots, packets and what was said, after a step that touches all three.
Delivered ==
    /\ slots' \in [Node -> [Slot -> Connection]] /\ AllJustified'
    /\ net' \in [Packet -> Nat] /\ AllExplained'
    /\ said' \in SUBSET Packet

\* A packet is taken without an answer: the connection follows it or is gone.
LEMMA TakenStep ==
    ASSUME HandshakeIInv, NEW p \in Node, NEW s \in Slot, NEW k \in Deliverable(p), take(k), unsent' = unsent,
           \/ slots' = [slots EXCEPT ![p][s] = process_packet(slots[p][s], k)]
           \/ slots' = [slots EXCEPT ![p][s] = Absent]
    PROVE  Delivered
<1>1. k \in Packet /\ net[k] > 0
  BY DEF Deliverable
<1>2. said' = said /\ said' \in SUBSET Packet
  BY DEF take, HandshakeIInv, TypeOK
<1>3. net' \in [Packet -> Nat] /\ AllExplained'
  BY <1>1, <1>2, TakeStep DEF take
<1>4. CASE slots' = [slots EXCEPT ![p][s] = Absent]
  BY <1>2, <1>3, <1>4, SlotStep, NeedsNoReason DEF Delivered
<1>5. CASE slots' = [slots EXCEPT ![p][s] = process_packet(slots[p][s], k)]
  <2>1. slots[p][s] \in Connection /\ Justified(p, slots[p][s])
    BY SMTT(60) DEF HandshakeIInv, TypeOK, AllJustified
  <2> DEFINE c == process_packet(slots[p][s], k)
  <2>2. /\ c \in Connection
        /\ c.remote = slots[p][s].remote
        /\ c.state = "CONNECTED" => slots[p][s].state \in {"CONNECTING", "CONNECTED"}
        /\ c.state = "CONNECTING" => slots[p][s].state = "CONNECTING"
    BY <1>1, <2>1, ProcessFacts
  <2>3. slots' = [slots EXCEPT ![p][s] = c]
    BY <1>5
  <2> HIDE DEF c
  <2>4. Justified(p, c)
    BY <2>1, <2>2 DEF Justified
  <2>5. \A d \in Connection : Justified(p, d) => Justified(p, d)'
    BY <1>2, Lasting
  <2>6. \A d \in Connection : Justified(p, d)' /\ slots' = [slots EXCEPT ![p][s] = d]
            => slots' \in [Node -> [Slot -> Connection]] /\ AllJustified'
    BY <1>2, SlotStep
  <2> QED
    BY <1>2, <1>3, <2>2, <2>3, <2>4, <2>5, <2>6 DEF Delivered
<1> QED
  BY <1>4, <1>5

\* A CONNECT is taken and accepted.
LEMMA AcceptedStep ==
    ASSUME HandshakeIInv, NEW p \in Node, NEW s \in Slot, NEW k \in Deliverable(p),
           k.type = "CONNECT", answer(k), unsent' = unsent,
           slots' = [slots EXCEPT ![p][s] = accepted(k)]
    PROVE  Delivered
<1>1. k \in Packet /\ net[k] > 0 /\ k.to = p
  BY DEF Deliverable
<1>2. k.from \in Node
  BY <1>1, PacketOf
<1>3. /\ net' \in [Packet -> Nat] /\ AllExplained'
      /\ said' \in SUBSET Packet /\ said \subseteq said'
      /\ packet("CONNECT", k.from, p) \in said'
  BY <1>1, AnswerStep
<1>4. /\ accepted(k) \in Connection /\ accepted(k).state = "CONNECTED"
      /\ accepted(k).remote = k.from
  BY <1>2 DEF accepted, Connection, State
<1>5. Justified(p, accepted(k))'
  BY <1>3, <1>4 DEF Justified
<1>6. slots' \in [Node -> [Slot -> Connection]] /\ AllJustified'
  BY <1>3, <1>4, <1>5, SlotStep
<1> QED
  BY <1>3, <1>6 DEF Delivered

\* A blocking call returns with a packet.
LEMMA ReturnStep ==
    ASSUME HandshakeIInv, NEW p \in Node, NEW k \in Packet, Return(p, k)
    PROVE  HandshakeIInv'
<1>1. k \in Deliverable(p) /\ call[p].slot \in Slot
  BY Parts DEF Return, Registers, Call
<1>2. call[p].op \in Blocking
  BY Parts DEF Return, Idle, Registers, CallShape, Call
<1>3. NoCall \in Call
  BY DEF NoCall, Call, Slot
<1>4. call' \in [Node -> Call] /\ CallShape'
  BY <1>3, Parts DEF Return, Registers, CallShape
<1>5. Registers'
  BY <1>4, Parts DEF Return, Registers
<1>6. slots' = [slots EXCEPT ![p][call[p].slot] = Outcome(p, k)] /\ unsent' = unsent
  BY DEF Return
<1>7. CASE Answers(call[p].op, k)
  <2>1. Outcome(p, k) = accepted(k) /\ k.type = "CONNECT" /\ answer(k)
    BY <1>7 DEF Return, Answers, Outcome
  <2>2. Delivered
    BY <1>1, <1>6, <2>1, AcceptedStep
  <2> QED
    BY <1>5, <2>2, Parts DEF Delivered
<1>8. CASE ~Answers(call[p].op, k)
  <2>1. take(k)
    BY <1>8 DEF Return
  <2>2. \/ Outcome(p, k) = process_packet(slots[p][call[p].slot], k)
        \/ Outcome(p, k) = Absent
    BY <1>2, <1>8 DEF Answers, Outcome, Blocking
  <2>3. Delivered
    BY <1>1, <1>6, <2>1, <2>2, TakenStep
  <2> QED
    BY <1>5, <2>3, Parts DEF Delivered
<1> QED
  BY <1>7, <1>8

\* A non-blocking call takes a packet.
LEMMA HsPollStep ==
    ASSUME HandshakeIInv, NEW p \in Node, NEW k \in Packet, connect_poll(p, k) \/ accept_poll(p, k)
    PROVE  HandshakeIInv'
<1>1. k \in Deliverable(p) /\ 0 \in Slot
  BY DEF connect_poll, accept_poll, Slot
<1>2. hs' \in [Node -> {"NONE", "CONNECTING", "ACCEPTING"}]
  <2>1. hs \in [Node -> {"NONE", "CONNECTING", "ACCEPTING"}]
    BY Parts DEF Registers
  <2> QED
    BY <2>1 DEF connect_poll, accept_poll
<1>3. Registers'
  BY <1>2, Parts DEF connect_poll, accept_poll, Registers, CallShape
<1>4. Delivered
  <2>1. CASE k.type = "CONNECT" /\ accept_poll(p, k)
    BY <1>1, <2>1, AcceptedStep DEF accept_poll
  <2>2. CASE k.type # "CONNECT" /\ accept_poll(p, k)
    BY <1>1, <2>2, TakenStep DEF accept_poll
  <2>3. CASE connect_poll(p, k)
    BY <1>1, <2>3, TakenStep DEF connect_poll
  <2> QED
    BY <2>1, <2>2, <2>3
<1> QED
  BY <1>3, <1>4, Parts DEF Delivered

\* A connected peer polls a packet.
LEMMA PollStep ==
    ASSUME HandshakeIInv, NEW p \in Node, NEW k \in Packet, poll(p, k)
    PROVE  HandshakeIInv'
<1>1. k \in Deliverable(p) /\ net[k] > 0 /\ unsent' = unsent
  BY DEF poll, Deliverable
<1>2. CASE poll_matched(p, k)
  <2>1. PICK s \in Slot : slots' = [slots EXCEPT ![p][s] = process_packet(slots[p][s], k)]
    BY <1>2 DEF poll_matched, LiveTo, Live
  <2>2. Delivered
    BY <1>1, <1>2, <2>1, TakenStep DEF poll_matched
  <2>3. Registers'
    BY <1>2, Parts DEF poll, poll_matched, Registers, CallShape
  <2> QED
    BY <2>2, <2>3, Parts DEF Delivered
<1>3. CASE poll_auto_accept(p, k)
  <2>1. auto[p] \in 0 .. MaxAuto /\ auto[p] < MaxAuto
    BY <1>3, Parts DEF Registers, poll_auto_accept
  <2>2. FirstAuto + auto[p] \in Slot
    BY <2>1, SMTT(60) DEF Slot, AutoSlot, FirstAuto
  <2>3. Delivered
    BY <1>1, <1>3, <2>2, AcceptedStep DEF poll_auto_accept
  <2>4. auto' \in [Node -> 0 .. MaxAuto]
    BY <1>3, <2>1, Parts, SMTT(60) DEF Registers, poll_auto_accept
  <2>5. Registers'
    BY <2>4, Parts DEF poll, Registers, CallShape
  <2> QED
    BY <2>3, <2>5, Parts DEF Delivered
<1>4. CASE poll_unmatched(p, k)
  <2>1. said' = said /\ slots' = slots /\ net' = Without(k) /\ auto' = auto
    BY <1>4 DEF poll_unmatched, take
  <2>2. Registers'
    BY <2>1, Parts DEF poll, Registers, CallShape
  <2>3. said' \in SUBSET Packet
    BY <2>1 DEF HandshakeIInv, TypeOK
  <2> QED
    BY <1>1, <2>1, <2>2, <2>3, TakeStep, SlotsKept, Parts
<1> QED
  BY <1>2, <1>3, <1>4 DEF poll

-----------------------------------------------------------------------------
(* The theorem.                                                            *)

\* Every action keeps the invariant.
LEMMA HandshakeInductive == HandshakeIInv /\ [Next]_vars => HandshakeIInv'
<1> SUFFICES ASSUME HandshakeIInv, [Next]_vars
             PROVE  HandshakeIInv'
  OBVIOUS
<1>1. ASSUME NEW p \in Node, ApplicationCall(p)
      PROVE  HandshakeIInv'
  <2>1. program[p].with \subseteq Node
    BY DEF HandshakeIInv, TypeOK
  <2>2. 0 \in Slot /\ p \in Node
    BY DEF Slot
  <2> QED
    BY <1>1, <2>1, <2>2, ConnectStep, AcceptStep, CloseStep, FlushStep DEF ApplicationCall
<1>2. ASSUME NEW p \in Node, Receives(p)
      PROVE  HandshakeIInv'
  BY <1>2, ReturnStep, HsPollStep, PollStep DEF Receives
<1>3. ASSUME NEW p \in Node, Timeout(p) \/ AlreadyConnected(p)
      PROVE  HandshakeIInv'
  BY <1>3, IdleStep
<1>4. ASSUME NEW k \in Packet, Lose(k) \/ Duplicate(k)
      PROVE  HandshakeIInv'
  BY <1>4, FaultStep
<1>5. CASE UNCHANGED vars
  BY <1>5 DEF vars, HandshakeIInv, TypeOK, CallShape, AllExplained, Explained, AllJustified, Justified
<1> QED
  BY <1>1, <1>2, <1>3, <1>4, <1>5 DEF Next

\* The invariant holds at the start.
LEMMA HandshakeInitially == Init => HandshakeIInv
<1> SUFFICES ASSUME Init PROVE HandshakeIInv
  OBVIOUS
<1>1. Absent \in Connection /\ Absent.state = "NONE"
  BY DEF Absent, Connection, State, None
<1>2. NoCall \in Call
  BY DEF NoCall, Call, Slot
<1>3. /\ slots \in [Node -> [Slot -> Connection]]
      /\ call \in [Node -> Call]
      /\ net \in [Packet -> Nat]
  BY <1>1, <1>2 DEF Init
<1>4. \A p \in Node : calls[p] <= program[p].calls
  BY SMTT(60) DEF Init
<1>5. TypeOK
  <2>1. /\ hs \in [Node -> {"NONE", "CONNECTING", "ACCEPTING"}]
        /\ auto \in [Node -> 0 .. MaxAuto]
    BY SMTT(60) DEF Init
  <2>2. /\ calls \in [Node -> Nat]
        /\ flushes \in [Node -> 0 .. MaxData]
    BY SMTT(60) DEF Init
  <2>3. faults \in 0 .. MaxFaults
    BY SMTT(60) DEF Init
  <2>4. program \in Programs /\ said \in SUBSET Packet /\ unsent \in SUBSET Packet
    BY DEF Init
  <2>5. hasty \in BOOLEAN
    BY DEF Init
  <2> QED
    BY <1>3, <1>4, <2>1, <2>2, <2>3, <2>4, <2>5 DEF TypeOK
<1>6. AllExplained /\ AllJustified /\ CallShape
  BY <1>1, SMTT(60) DEF Init, AllExplained, AllJustified, Justified, CallShape
<1> QED
  BY <1>5, <1>6 DEF HandshakeIInv

\* The invariant is strong enough.
LEMMA Suffices == HandshakeIInv => HandshakeInv
<1> SUFFICES ASSUME HandshakeIInv, NEW p \in Node, NEW q \in Node
             PROVE  /\ net[packet("ACCEPT", q, p)] > 0 => packet("CONNECT", p, q) \in said
                    /\ ConnectedTo(p, q) => \/ packet("CONNECT", p, q) \in said \cup unsent
                                            \/ packet("CONNECT", q, p) \in said
  BY DEF HandshakeInv, NoConnectionUnasked, HandshakeIInv
<1>1. net[packet("ACCEPT", q, p)] > 0 => packet("CONNECT", p, q) \in said
  <2> DEFINE r == packet("ACCEPT", q, p)
  <2>1. r \in Packet /\ r.type = "ACCEPT" /\ r.to = p /\ r.from = q
    BY DEF packet, Packet
  <2> HIDE DEF r
  <2>2. net[r] > 0 => packet("CONNECT", p, q) \in said
    BY <2>1 DEF HandshakeIInv, AllExplained, Explained
  <2> QED
    BY <2>2 DEF r
<1>2. ConnectedTo(p, q) => \/ packet("CONNECT", p, q) \in said \cup unsent
                           \/ packet("CONNECT", q, p) \in said
  BY DEF ConnectedTo, LiveTo, Live, HandshakeIInv, AllJustified, Justified
<1> QED
  BY <1>1, <1>2

\* A peer is connected only if one of the two ends asked for it or tried to,
\* and about to be told so only if it asked: for all peers, programs, refused
\* sends, losses, repetitions and reorderings of packets.
THEOREM NothingUnasked == Spec => []HandshakeInv
<1>1. Spec => []HandshakeIInv
  BY HandshakeInitially, HandshakeInductive, PTL DEF Spec
<1> QED
  BY <1>1, Suffices, PTL
=============================================================================
