------------------------------ MODULE External ------------------------------
(***************************************************************************)
(* ExternalTransport and its bridge in the C API: two peers without I/O of *)
(* their own, and a host that takes the packets one of them sent from its  *)
(* send queue and pushes them into the receive queue of the other.  Either *)
(* side may close and bind again at any time.                              *)
(***************************************************************************)
EXTENDS Naturals, Sequences

CONSTANTS
    ExtSize,         \* sizes of packets
    HostBuffer,      \* size of the buffer the host pops into
    MaxExtSends

ASSUME ExternalAssumption == ExtSize \subseteq Nat /\ HostBuffer \in Nat /\ MaxExtSends \in Nat

VARIABLES
    ext_bound,       \* "from" | "to" -> is that side bound
    send_queue,      \* of the side that sends
    carried,         \* popped by the host and not yet pushed
    recv_queue,      \* of the side that receives
    ext_got,         \* what recv_from returned
    ext_sent,        \* packets sent
    ext_pushed,      \* history: the number of the packet pushed last
    ext_closed       \* history: side -> the last packet sent, or pushed, when it was closed last

extVars == <<ext_bound, send_queue, carried, recv_queue, ext_got, ext_sent, ext_pushed, ext_closed>>

\* A packet: its number, its size, and how many of its bytes are left.
ExtPacket == [no : 1 .. MaxExtSends, size : ExtSize, kept : Nat]

ExternalTypeOK ==
    /\ ext_bound \in [{"from", "to"} -> BOOLEAN]
    /\ \A q \in {send_queue, carried, recv_queue, ext_got} : \A i \in DOMAIN q :
          q[i] \in ExtPacket /\ q[i].kept <= q[i].size
    /\ ext_sent \in 0 .. MaxExtSends /\ ext_pushed \in 0 .. ext_sent

ExternalInit ==
    /\ ext_bound = [side \in {"from", "to"} |-> FALSE]
    /\ send_queue = <<>> /\ carried = <<>> /\ recv_queue = <<>> /\ ext_got = <<>>
    /\ ext_sent = 0 /\ ext_pushed = 0
    /\ ext_closed = [side \in {"from", "to"} |-> 0]

external_bind(side) ==
    /\ ~ext_bound[side]
    /\ ext_bound' = [ext_bound EXCEPT ![side] = TRUE]
    /\ UNCHANGED <<send_queue, carried, recv_queue, ext_got, ext_sent, ext_pushed, ext_closed>>

\* What a side has sent, or was pushed, so far.
Through(side) == IF side = "from" THEN ext_sent ELSE ext_pushed

\* Mutation of external_close: only the send queue is cleared.
external_close_half(side) ==
    /\ ext_bound' = [ext_bound EXCEPT ![side] = FALSE]
    /\ send_queue' = IF side = "from" THEN <<>> ELSE send_queue
    /\ ext_closed' = [ext_closed EXCEPT ![side] = Through(side)]
    /\ UNCHANGED <<carried, recv_queue, ext_got, ext_sent, ext_pushed>>

\* Both queues are cleared, bound or not.
external_close(side) ==
    /\ ext_bound' = [ext_bound EXCEPT ![side] = FALSE]
    /\ send_queue' = IF side = "from" THEN <<>> ELSE send_queue
    /\ recv_queue' = IF side = "to" THEN <<>> ELSE recv_queue
    /\ ext_closed' = [ext_closed EXCEPT ![side] = Through(side)]
    /\ UNCHANGED <<carried, ext_got, ext_sent, ext_pushed>>

external_send_to(size) ==
    /\ ext_bound["from"] /\ ext_sent < MaxExtSends
    /\ ext_sent' = ext_sent + 1
    /\ send_queue' = Append(send_queue, [no |-> ext_sent', size |-> size, kept |-> size])
    /\ UNCHANGED <<ext_bound, carried, recv_queue, ext_got, ext_pushed, ext_closed>>

\* pcol_transport_external_pop_send: the packet leaves the queue even if the
\* buffer is too short for it, and out_len tells its full size.
pop_send ==
    /\ send_queue # <<>>
    /\ LET p == Head(send_queue)
       IN  carried' = Append(carried, [p EXCEPT !.kept = IF @ < HostBuffer THEN @ ELSE HostBuffer])
    /\ send_queue' = Tail(send_queue)
    /\ UNCHANGED <<ext_bound, recv_queue, ext_got, ext_sent, ext_pushed, ext_closed>>

\* pcol_transport_external_push_recv by a host that forwards whole packets, in
\* the order it took them; the side that receives need not be bound.
push_recv ==
    /\ carried # <<>>
    /\ LET p == Head(carried)
       IN  IF p.kept = p.size
           THEN recv_queue' = Append(recv_queue, p) /\ ext_pushed' = p.no
           ELSE UNCHANGED <<recv_queue, ext_pushed>>
    /\ carried' = Tail(carried)
    /\ UNCHANGED <<ext_bound, send_queue, ext_got, ext_sent, ext_closed>>

external_recv_from ==
    /\ ext_bound["to"] /\ recv_queue # <<>>
    /\ ext_got' = Append(ext_got, Head(recv_queue))
    /\ recv_queue' = Tail(recv_queue)
    /\ UNCHANGED <<ext_bound, send_queue, carried, ext_sent, ext_pushed, ext_closed>>

ExternalNext ==
    \/ \E side \in {"from", "to"} : external_bind(side) \/ external_close(side)
    \/ \E size \in ExtSize : external_send_to(size)
    \/ pop_send
    \/ push_recv
    \/ external_recv_from

ExternalSpec == ExternalInit /\ [][ExternalNext]_extVars

-----------------------------------------------------------------------------
\* What the peer behind the bridge receives is a subsequence of what was sent,
\* each packet once and in order, over any number of closes: everything on the
\* way is in sending order from the receiver back to the sender.
BridgeInOrder ==
    LET way == ext_got \o recv_queue \o carried \o send_queue
    IN  \A i, j \in DOMAIN way : i < j => way[i].no < way[j].no

\* close() cuts the way on both sides: the host takes no packet from the queue
\* of a side that it sent before its last close, and a side receives no packet
\* that it was pushed before its own.  A close does not reach what the host
\* carries: a packet popped before the sender closed, or pushed after the
\* receiver did, arrives, also at a receiver that has bound again since.
ClosedQueueGone ==
    /\ \A i \in DOMAIN send_queue : send_queue[i].no > ext_closed["from"]
    /\ \A i \in DOMAIN recv_queue : recv_queue[i].no > ext_closed["to"]

\* The invariant of the bridge: packets arrive once and in order, over any
\* closes, and none from a queue that a close has cleared.
ExternalInv == ExternalTypeOK /\ BridgeInOrder /\ ClosedQueueGone
=============================================================================
