----------------------------- MODULE MCHandshake -----------------------------
(* Finite instances of Handshake.                                           *)
EXTENDS Handshake

Does(ops, peers, n) == [ops |-> ops, with |-> peers, calls |-> n]
Nothing == Does({}, {}, 0)

\* Two peers that may do anything.
Anything == [p \in Node |-> IF p = 3 THEN Nothing ELSE Does(Ops, {1, 2}, 2)]

\* Peer 1 accepts one connection and auto-accepts others.
Hub == [p \in Node |-> CASE p = 1 -> Does({"accept_from"}, {}, 1)
                          [] p = 2 -> Does({"connect", "disconnect"}, {1}, 2)
                          [] p = 3 -> Does({"connect_to", "disconnect_node"}, {1}, 2)]

\* One connection, with calls before, during and after it.
Single == [p \in Node |-> CASE p = 1 -> Does({"accept_from", "disconnect"}, {}, 6)
                            [] p = 2 -> Does({"connect", "disconnect"}, {1}, 6)
                            [] p = 3 -> Nothing]

\* Peer 1 gives up on peer 3, tries peer 2 and waits for anybody.
Stray == [p \in Node |-> CASE p = 1 -> Does({"connect_to", "connect", "connect_start", "accept_from"}, {2, 3}, 3)
                           [] p = 2 -> Nothing
                           [] p = 3 -> Does({"accept_node"}, {1}, 1)]

Applications == {Anything, Hub, Single, Stray}

\* Peer 1 tries one peer and then another.
Retrying == {[p \in Node |-> IF p = 1 THEN Does({"connect_to"}, {2, 3}, 2)
                                      ELSE Does({"accept_node"}, {1}, 2)]}
=============================================================================
