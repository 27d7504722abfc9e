------------------------------- MODULE MCOrSet -------------------------------
(* Finite instances of OrSetReplication.                                    *)
EXTENDS OrSetReplication

FullMesh == {e \in Node \X Node : e[1] # e[2]}

\* Every peer adds once.
OneEach == [p \in Node |-> 1]
=============================================================================
