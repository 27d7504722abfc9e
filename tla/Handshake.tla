------------------------------ MODULE Handshake ------------------------------
(***************************************************************************)
(* How peers set up and close connections: Connection's state machine, the *)
(* slots of ConnectionManager, handshake::process_packet, and the Peer     *)
(* calls that drive them.                                                  *)
(*                                                                         *)
(* A blocking call (connect, accept_from, connect_to, accept_node) is two  *)
(* steps: it sends or prepares, then takes ONE packet, whatever it is, or  *)
(* times out.  The application makes no other call in between.             *)
(*                                                                         *)
(* Packets are counted, not numbered: net[k] copies of packet k are in     *)
(* flight.  A peer's endpoint is its node id.  A connection matches a      *)
(* packet by endpoint only, and handshake packets carry no attempt number. *)
(* A send that the transport refuses and whose result the code ignores,    *)
(* any but a CONNECT's, is a lost packet.                                  *)
(***************************************************************************)
EXTENDS Integers, FiniteSets

CONSTANTS
    Node,      \* the peers, positive integers: id and endpoint in one
    Programs,  \* what the applications may do: each maps peers to programs
    MaxData,   \* bound on the flushes of a peer
    MaxAuto,   \* bound on the connections a peer's poll auto-accepts
    MaxFaults  \* bound on packets lost or duplicated

Ops == {"connect", "accept_from", "connect_to", "accept_node", "connect_start",
        "accept_start", "disconnect", "disconnect_node"}

\* The first id that poll gives to a connection it auto-accepts.
FirstAuto == 1000

ASSUME HandshakeAssumption ==
    /\ Node \subseteq 1 .. FirstAuto - 1
    /\ Programs \subseteq [Node -> [ops : SUBSET Ops, with : SUBSET Node, calls : Nat]]
    /\ MaxData \in Nat /\ MaxAuto \in Nat /\ MaxFaults \in Nat

VARIABLES
    program, \* program[p]: the calls p's application makes, with whom, how many
    slots,   \* slots[p][s]: p's connection in slot s (state "NONE": no slot)
    call,    \* call[p]: the blocking call p is in
    hs,      \* hs[p]: hs_state_ of the non-blocking handshake
    auto,    \* auto[p]: how many ids next_auto_node_id_ has handed out
    net,     \* net[k]: copies of packet k in flight
    calls, flushes, faults, \* used up of the bounds
    said,    \* history: the CONNECT and ACCEPT packets sent so far
    unsent,  \* history: the CONNECT packets that the transport refused
    hasty    \* history: a call timed out although something was in flight

vars == <<program, slots, call, hs, auto, net, calls, flushes, faults, said, unsent, hasty>>

None == 0
AutoSlot == FirstAuto .. FirstAuto + MaxAuto - 1
Slot == {0} \cup Node \cup AutoSlot
State == {"NONE", "IDLE", "CONNECTING", "ACCEPTING", "CONNECTED", "CLOSING", "CLOSED"}
Connection == [state : State, remote : Node \cup {None}]
Packet == [type : {"CONNECT", "ACCEPT", "CLOSE", "DATA"}, from : Node, to : Node]
Blocking == {"connect", "accept_from", "connect_to", "accept_node"}
Call == [op : Blocking \cup {"none"}, slot : Slot]

Absent == [state |-> "NONE", remote |-> None]
Fresh == [state |-> "IDLE", remote |-> None]
NoCall == [op |-> "none", slot |-> 0]

TypeOK ==
    /\ program \in Programs
    /\ slots \in [Node -> [Slot -> Connection]]
    /\ call \in [Node -> Call]
    /\ hs \in [Node -> {"NONE", "CONNECTING", "ACCEPTING"}]
    /\ auto \in [Node -> 0 .. MaxAuto]
    /\ net \in [Packet -> Nat]
    /\ calls \in [Node -> Nat]
    /\ \A p \in Node : calls[p] <= program[p].calls
    /\ flushes \in [Node -> 0 .. MaxData]
    /\ faults \in 0 .. MaxFaults
    /\ said \in SUBSET Packet /\ unsent \in SUBSET Packet
    /\ hasty \in BOOLEAN

Init ==
    /\ program \in Programs
    /\ slots = [p \in Node |-> [s \in Slot |-> Absent]]
    /\ call = [p \in Node |-> NoCall]
    /\ hs = [p \in Node |-> "NONE"]
    /\ auto = [p \in Node |-> 0]
    /\ net = [k \in Packet |-> 0]
    /\ calls = [p \in Node |-> 0]
    /\ flushes = [p \in Node |-> 0]
    /\ faults = 0
    /\ said = {} /\ unsent = {}
    /\ hasty = FALSE

-----------------------------------------------------------------------------
(* Connection and ConnectionManager.                                       *)

packet(t, p, q) == [type |-> t, from |-> p, to |-> q]

\* conn_mgr_.add for a slot that may already be there (slot 0).
added(c) == IF c.state = "NONE" THEN Fresh ELSE c

\* Mutation of process_packet: on_close is for the side that closes only.
process_packet_closing(c, k) ==
    [c EXCEPT !.state = CASE k.type = "CONNECT" -> "ACCEPTING"
                          [] k.type = "ACCEPT" /\ @ = "CONNECTING" -> "CONNECTED"
                          [] k.type = "CLOSE" /\ @ = "CLOSING" -> "CLOSED"
                          [] OTHER -> @]

\* handshake::process_packet: on_connect and on_close from any state,
\* on_accept from CONNECTING only.
process_packet(c, k) ==
    [c EXCEPT !.state = CASE k.type = "CONNECT" -> "ACCEPTING"
                          [] k.type = "ACCEPT" /\ @ = "CONNECTING" -> "CONNECTED"
                          [] k.type = "CLOSE" -> "CLOSED"
                          [] OTHER -> @]

\* process_packet of a CONNECT, then Connection::accept.
accepted(k) == [state |-> "CONNECTED", remote |-> k.from]

Live(p) == {s \in Slot : slots[p][s].state = "CONNECTED"}
has_connections(p) == Live(p) # {}
LiveTo(p, q) == {s \in Live(p) : slots[p][s].remote = q}
ConnectedTo(p, q) == LiveTo(p, q) # {}

Idle(p) == call[p] = NoCall

-----------------------------------------------------------------------------
(* The network.                                                            *)

Deliverable(p) == {k \in Packet : k.to = p /\ net[k] > 0}

Without(k) == [net EXCEPT ![k] = @ - 1]

\* The packet is taken without an answer, or answered with an ACCEPT.
take(k) == net' = Without(k) /\ UNCHANGED said

answer(k) ==
    LET reply == packet("ACCEPT", k.to, k.from)
    IN  /\ net' = [Without(k) EXCEPT ![reply] = @ + 1]
        /\ said' = said \cup {reply}

Lose(k) ==
    /\ net[k] > 0 /\ faults < MaxFaults
    /\ net' = Without(k)
    /\ faults' = faults + 1
    /\ UNCHANGED <<slots, call, hs, auto, calls, flushes, said, hasty, program, unsent>>

Duplicate(k) ==
    /\ net[k] > 0 /\ faults < MaxFaults
    /\ net' = [net EXCEPT ![k] = @ + 1]
    /\ faults' = faults + 1
    /\ UNCHANGED <<slots, call, hs, auto, calls, flushes, said, hasty, program, unsent>>

-----------------------------------------------------------------------------
(* Calls that start a handshake.                                           *)

\* p's application makes a handshake call.
Calls(p, op) ==
    /\ Idle(p)
    /\ op \in program[p].ops
    /\ calls[p] < program[p].calls
    /\ calls' = [calls EXCEPT ![p] = @ + 1]
    /\ UNCHANGED <<auto, flushes, faults, hasty, program>>

\* Connection::initiate in slot s.
initiate(p, s, q) ==
    /\ q # p
    /\ slots' = [slots EXCEPT ![p][s] = [state |-> "CONNECTING", remote |-> q]]

send_connect(p, q) ==
    /\ net' = [net EXCEPT ![packet("CONNECT", p, q)] = @ + 1]
    /\ said' = said \cup {packet("CONNECT", p, q)}
    /\ UNCHANGED unsent

\* transport_.send_to returned 0 or less.
refused_connect(p, q) ==
    /\ unsent' = unsent \cup {packet("CONNECT", p, q)}
    /\ UNCHANGED <<net, said>>

\* Slot 0 is reused, but initiate refuses it unless it is IDLE.  It stays
\* CONNECTING when the send fails.
connect(p, q) ==
    /\ Calls(p, "connect")
    /\ added(slots[p][0]).state = "IDLE"
    /\ initiate(p, 0, q)
    /\ \/ send_connect(p, q) /\ call' = [call EXCEPT ![p] = [op |-> "connect", slot |-> 0]]
       \/ refused_connect(p, q) /\ UNCHANGED call
    /\ UNCHANGED hs

connect_start(p, q) ==
    /\ Calls(p, "connect_start")
    /\ added(slots[p][0]).state = "IDLE"
    /\ initiate(p, 0, q)
    /\ \/ send_connect(p, q) /\ hs' = [hs EXCEPT ![p] = "CONNECTING"]
       \/ refused_connect(p, q) /\ UNCHANGED hs
    /\ UNCHANGED call

\* conn_mgr_.add refuses a slot that exists; the slot goes when the send fails.
connect_to(p, q) ==
    /\ Calls(p, "connect_to")
    /\ slots[p][q].state = "NONE" /\ q # p
    /\ \/ /\ initiate(p, q, q) /\ send_connect(p, q)
          /\ call' = [call EXCEPT ![p] = [op |-> "connect_to", slot |-> q]]
       \/ refused_connect(p, q) /\ UNCHANGED <<slots, call>>
    /\ UNCHANGED hs

accept_from(p) ==
    /\ Calls(p, "accept_from")
    /\ slots' = [slots EXCEPT ![p][0] = added(@)]
    /\ call' = [call EXCEPT ![p] = [op |-> "accept_from", slot |-> 0]]
    /\ UNCHANGED <<hs, net, said, unsent>>

accept_start(p) ==
    /\ Calls(p, "accept_start")
    /\ slots' = [slots EXCEPT ![p][0] = added(@)]
    /\ hs' = [hs EXCEPT ![p] = "ACCEPTING"]
    /\ UNCHANGED <<call, net, said, unsent>>

accept_node(p, q) ==
    /\ Calls(p, "accept_node")
    /\ q # p
    /\ slots[p][q].state = "NONE"
    /\ slots' = [slots EXCEPT ![p][q] = Fresh]
    /\ call' = [call EXCEPT ![p] = [op |-> "accept_node", slot |-> q]]
    /\ UNCHANGED <<hs, net, said, unsent>>

-----------------------------------------------------------------------------
(* Calls that end a connection.                                            *)

\* Peer::disconnect closes the first connection of the map, any slot.
disconnect(p) ==
    /\ Calls(p, "disconnect")
    /\ \E s \in Live(p) :
          /\ slots' = [slots EXCEPT ![p][s].state = "CLOSING"]
          /\ net' = [net EXCEPT ![packet("CLOSE", p, slots[p][s].remote)] = @ + 1]
    /\ UNCHANGED <<call, hs, said, unsent>>

disconnect_node(p, s) ==
    /\ Calls(p, "disconnect_node")
    /\ slots[p][s].state # "NONE"
    /\ slots' = [slots EXCEPT ![p][s] = Absent]
    /\ net' = IF s \in Live(p)
              THEN [net EXCEPT ![packet("CLOSE", p, slots[p][s].remote)] = @ + 1]
              ELSE net
    /\ UNCHANGED <<call, hs, said, unsent>>

-----------------------------------------------------------------------------
(* The second half of the blocking calls.                                  *)

\* The slot after the call p is blocked in took packet k.
Outcome(p, k) ==
    LET c == slots[p][call[p].slot]
    IN  CASE call[p].op = "connect" -> process_packet(c, k)
          [] call[p].op = "connect_to" ->
                 IF k.type = "ACCEPT" THEN process_packet(c, k) ELSE Absent
          [] call[p].op = "accept_from" ->
                 IF k.type = "CONNECT" THEN accepted(k) ELSE process_packet(c, k)
          [] call[p].op = "accept_node" ->
                 IF k.type = "CONNECT" THEN accepted(k) ELSE Absent

\* Mutation of Answers: the handshake event is not tested.
Answers_any(op, k) == op \in {"accept_from", "accept_node"}

Answers(op, k) == op \in {"accept_from", "accept_node"} /\ k.type = "CONNECT"

Return(p, k) ==
    /\ ~Idle(p)
    /\ k \in Deliverable(p)
    /\ slots' = [slots EXCEPT ![p][call[p].slot] = Outcome(p, k)]
    /\ IF Answers(call[p].op, k) THEN answer(k) ELSE take(k)
    /\ call' = [call EXCEPT ![p] = NoCall]
    /\ UNCHANGED <<hs, auto, calls, flushes, faults, hasty, program, unsent>>

\* connect and accept_from leave slot 0 as it is.
Timeout(p) ==
    /\ ~Idle(p)
    /\ slots' = IF call[p].op \in {"connect_to", "accept_node"}
                THEN [slots EXCEPT ![p][call[p].slot] = Absent]
                ELSE slots
    /\ call' = [call EXCEPT ![p] = NoCall]
    /\ hasty' = (hasty \/ \E k \in Packet : net[k] > 0)
    /\ UNCHANGED <<hs, auto, net, calls, flushes, faults, said, program, unsent>>

-----------------------------------------------------------------------------
(* The non-blocking handshake.                                             *)

\* The first test of connect_poll and of accept_poll.
AlreadyConnected(p) ==
    /\ Idle(p)
    /\ hs[p] # "NONE"
    /\ 0 \in Live(p)
    /\ hs' = [hs EXCEPT ![p] = "NONE"]
    /\ UNCHANGED <<slots, call, auto, net, calls, flushes, faults, said, hasty, program, unsent>>

connect_poll(p, k) ==
    /\ Idle(p)
    /\ hs[p] = "CONNECTING" /\ slots[p][0].state # "NONE" /\ 0 \notin Live(p)
    /\ k \in Deliverable(p)
    /\ slots' = [slots EXCEPT ![p][0] = process_packet(@, k)]
    /\ take(k)
    /\ hs' = [hs EXCEPT ![p] = IF k.type = "ACCEPT" THEN "NONE" ELSE @]
    /\ UNCHANGED <<call, auto, calls, flushes, faults, hasty, program, unsent>>

accept_poll(p, k) ==
    /\ Idle(p)
    /\ hs[p] = "ACCEPTING" /\ slots[p][0].state # "NONE" /\ 0 \notin Live(p)
    /\ k \in Deliverable(p)
    /\ IF k.type = "CONNECT"
       THEN /\ slots' = [slots EXCEPT ![p][0] = accepted(k)]
            /\ answer(k)
            /\ hs' = [hs EXCEPT ![p] = "NONE"]
       ELSE /\ slots' = [slots EXCEPT ![p][0] = process_packet(@, k)]
            /\ take(k)
            /\ UNCHANGED hs
    /\ UNCHANGED <<call, auto, calls, flushes, faults, hasty, program, unsent>>

-----------------------------------------------------------------------------
(* Connected peers.                                                        *)

\* Peer::flush sends a DATA packet on every connection.
flush(p) ==
    /\ Idle(p)
    /\ has_connections(p)
    /\ flushes[p] < MaxData
    /\ flushes' = [flushes EXCEPT ![p] = @ + 1]
    /\ net' = [k \in Packet |->
                  IF k.type = "DATA" /\ k.from = p
                  THEN net[k] + Cardinality(LiveTo(p, k.to)) ELSE net[k]]
    /\ UNCHANGED <<slots, call, hs, auto, calls, faults, said, hasty, program, unsent>>

\* Peer::poll on a packet from the other end of a connection.
poll_matched(p, k) ==
    \E s \in LiveTo(p, k.from) :
        /\ slots' = [slots EXCEPT ![p][s] = process_packet(@, k)]
        /\ take(k)
        /\ UNCHANGED auto

\* Peer::poll on a CONNECT from anybody else: a new connection.
poll_auto_accept(p, k) ==
    /\ ~ConnectedTo(p, k.from)
    /\ k.type = "CONNECT"
    /\ auto[p] < MaxAuto
    /\ slots' = [slots EXCEPT ![p][FirstAuto + auto[p]] = accepted(k)]
    /\ auto' = [auto EXCEPT ![p] = @ + 1]
    /\ answer(k)

\* Peer::poll on another packet of anybody else, which changes no slot.
poll_unmatched(p, k) ==
    /\ ~ConnectedTo(p, k.from)
    /\ k.type # "CONNECT"
    /\ take(k)
    /\ UNCHANGED <<slots, auto>>

poll(p, k) ==
    /\ Idle(p)
    /\ has_connections(p)
    /\ k \in Deliverable(p)
    /\ poll_matched(p, k) \/ poll_auto_accept(p, k) \/ poll_unmatched(p, k)
    /\ UNCHANGED <<call, hs, calls, flushes, faults, hasty, program, unsent>>

-----------------------------------------------------------------------------
(* The specification.                                                      *)

ApplicationCall(p) ==
    \/ \E q \in program[p].with : \/ connect(p, q)
                                  \/ connect_start(p, q)
                                  \/ connect_to(p, q)
                                  \/ accept_node(p, q)
    \/ accept_from(p)
    \/ accept_start(p)
    \/ disconnect(p)
    \/ \E s \in Slot : disconnect_node(p, s)
    \/ flush(p)

Receives(p) ==
    \E k \in Packet : Return(p, k) \/ connect_poll(p, k) \/ accept_poll(p, k) \/ poll(p, k)

Next ==
    \/ \E p \in Node : \/ ApplicationCall(p)
                       \/ Receives(p)
                       \/ Timeout(p)
                       \/ AlreadyConnected(p)
    \/ \E k \in Packet : Lose(k) \/ Duplicate(k)

Spec == Init /\ [][Next]_vars

-----------------------------------------------------------------------------
(* Properties.                                                             *)

\* A peer is CONNECTED to q only if one of the two sent the other a CONNECT,
\* or tried to, and it is about to be told so only if it really sent one: stray,
\* repeated and late packets never make up a connection.  Trying is enough
\* because connect and connect_start leave the slot CONNECTING when the send
\* fails, where the late ACCEPT of somebody else completes it.
NoConnectionUnasked ==
    \A p, q \in Node :
        /\ net[packet("ACCEPT", q, p)] > 0 => packet("CONNECT", p, q) \in said
        /\ ConnectedTo(p, q) => \/ packet("CONNECT", p, q) \in said \cup unsent
                                \/ packet("CONNECT", q, p) \in said

Quiet == \A k \in Packet : net[k] = 0

\* p uses the single-connection calls, to connect or to accept.
SingleConnection(p) ==
    \/ program[p].ops \subseteq {"connect", "disconnect"}
    \/ program[p].ops \subseteq {"accept_from", "disconnect"}

\* When every packet arrived once and no call gave up early, both ends agree
\* on being connected as soon as nothing is in flight.
SymmetricWhenQuiet ==
    (/\ Quiet /\ faults = 0 /\ ~hasty
     /\ \A p \in Node : Idle(p) /\ SingleConnection(p)) =>
        \A p, q \in Node : ConnectedTo(p, q) <=> ConnectedTo(q, p)

\* connection.h on CONNECTED: "Handshake complete, bidirectional streaming".
\* A peer that is CONNECTED to q was asked or answered by q itself.
ConnectedMeansAnswered ==
    \A p, q \in Node : ConnectedTo(p, q) =>
        {packet("ACCEPT", q, p), packet("CONNECT", q, p)} \cap said # {}

\* The invariant of the handshake: its types, and no connection unasked for.
HandshakeInv == TypeOK /\ NoConnectionUnasked
=============================================================================
