------------------------------ MODULE MCCounter ------------------------------
(* Finite instances of CounterReplication.                                  *)
EXTENDS CounterReplication

\* Every peer connected to, and knowing the key of, every other one.
FullMesh == {e \in Node \X Node : e[1] # e[2]}

\* Mutations that let a PN-Counter's counts travel through a third peer.
GWriters == Node \X {"p"}
PnWriters == {<<1, "p">>, <<2, "n">>, <<3, "p">>}
=============================================================================
