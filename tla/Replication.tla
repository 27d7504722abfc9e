----------------------------- MODULE Replication -----------------------------
(***************************************************************************)
(* What the peers of a mesh share when they replicate ONE state region:    *)
(* the connections a Peer may send on (ConnectionManager), the public keys *)
(* it verifies deltas with (peer_keys_), and the datagrams in flight.      *)
(*                                                                         *)
(* The transports are unreliable: a datagram may be lost, delivered twice  *)
(* and overtaken by later ones.  net is a SET of datagrams, so any of them *)
(* may be received next.  Peer::poll never asks RecvTracker::is_duplicate, *)
(* hence a second copy is processed like the first.                        *)
(*                                                                         *)
(* One module per CRDT extends this one and adds the region's state and    *)
(* the actions Declare, the local mutations, Flush and Poll.  The packet   *)
(* numbers, the ack trackers and the router that flush and poll also       *)
(* update are projected away: replication never reads them.                *)
(***************************************************************************)
EXTENDS Integers, FiniteSets

CONSTANTS
    Node,         \* the node ids of the peers
    InitConn,     \* connections already CONNECTED, as pairs <<peer, remote>>
    InitKnown,    \* keys already registered, as pairs <<peer, author>>
    InitDeclared, \* peers that have already declared the region
    MaxLoss,      \* bound: how many datagrams the network may lose
    Duplicates    \* whether the network may deliver a datagram twice

ASSUME ReplicationAssumption ==
    /\ InitConn \subseteq Node \X Node
    /\ InitKnown \subseteq Node \X Node
    /\ InitDeclared \subseteq Node
    /\ MaxLoss \in Nat
    /\ Duplicates \in BOOLEAN

VARIABLES
    conn,     \* conn[p]: remotes with which p has a CONNECTED connection
    known,    \* known[p]: authors whose public key p has registered
    declared, \* peers whose StateRegistry holds the region
    net,      \* datagrams in flight
    lost      \* how many datagrams were lost so far

meshVars == <<conn, known, declared, net, lost>>

\* A datagram carries one STATE_DELTA frame: its author, the peer it is sent
\* to and the encoded delta.
Datagram(Data) == [author : Node, to : Node, data : Data]

MeshTypeOK(Data) ==
    /\ conn \in [Node -> SUBSET Node]
    /\ known \in [Node -> SUBSET Node]
    /\ declared \in SUBSET Node
    /\ net \in SUBSET Datagram(Data)
    /\ lost \in 0 .. MaxLoss

MeshInit ==
    /\ conn = [p \in Node |-> {q \in Node : <<p, q>> \in InitConn}]
    /\ known = [p \in Node |-> {q \in Node : <<p, q>> \in InitKnown}]
    /\ declared = InitDeclared
    /\ net = {}
    /\ lost = 0

has_connections(p) == conn[p] # {}

-----------------------------------------------------------------------------
(* Steps of the mesh that do not touch the region.                         *)

register_peer_key(p, q) ==
    /\ q \notin known[p]
    /\ known' = [known EXCEPT ![p] = @ \cup {q}]
    /\ UNCHANGED <<conn, declared, net, lost>>

\* A handshake completes on p's side (Connection::accept or on_accept).
ConnectionUp(p, q) ==
    /\ q # p
    /\ q \notin conn[p]
    /\ conn' = [conn EXCEPT ![p] = @ \cup {q}]
    /\ UNCHANGED <<known, declared, net, lost>>

\* p leaves CONNECTED (Connection::close or on_close).
ConnectionDown(p, q) ==
    /\ q \in conn[p]
    /\ conn' = [conn EXCEPT ![p] = @ \ {q}]
    /\ UNCHANGED <<known, declared, net, lost>>

Lose(m) ==
    /\ m \in net
    /\ lost < MaxLoss
    /\ lost' = lost + 1
    /\ net' = net \ {m}
    /\ UNCHANGED <<conn, known, declared>>

-----------------------------------------------------------------------------
(* Building blocks of the actions on the region.                           *)

\* StateRegistry::declare succeeds once; later calls return false.
declare(p) ==
    /\ p \notin declared
    /\ declared' = declared \cup {p}
    /\ UNCHANGED <<conn, known, net, lost>>

\* Mutation of send_deltas: only one connection is served.
send_deltas_once(p, d) ==
    /\ \E q \in conn[p] : net' = net \cup {[author |-> p, to |-> q, data |-> d]}
    /\ UNCHANGED <<conn, known, declared, lost>>

\* Peer::send_deltas_to for every CONNECTED connection of p.
send_deltas(p, d) ==
    /\ net' = net \cup {[author |-> p, to |-> q, data |-> d] : q \in conn[p]}
    /\ UNCHANGED <<conn, known, declared, lost>>

\* The transport hands m to p's poll, and keeps a copy when it duplicates.
receive(p, m) ==
    /\ m \in net
    /\ m.to = p
    /\ has_connections(p)
    /\ \/ net' = net \ {m}
       \/ Duplicates /\ net' = net
    /\ UNCHANGED <<conn, known, declared, lost>>

\* process_data_frames reaches apply_delta's merge only when the author's key
\* is registered (verify_frame_signature) and the region is declared here.
applies(p, m) == m.author \in known[p] /\ p \in declared

=============================================================================
