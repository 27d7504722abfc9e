-------------------------------- MODULE MCLww --------------------------------
(* Finite instances of LwwReplication.                                      *)
EXTENDS LwwReplication

FullMesh == {e \in Node \X Node : e[1] # e[2]}

\* Peer 1 verifies peer 2's deltas; peer 2 has yet to register a key.
OneKey == {<<1, 2>>}

\* How often each peer writes.
OneEach == [p \in Node |-> 1]
TwoByFirst == [p \in Node |-> IF p = 1 THEN 2 ELSE 1]

\* Both ends of the connections share one epoch, or node 2 is one unit late,
\* as the accepting end always is.
SameEpoch == [p \in Node |-> 0]
LateAcceptor == [p \in Node |-> IF p = 2 THEN 1 ELSE 0]
=============================================================================
