------------------------------- MODULE MCAsync -------------------------------
(* Finite instances of AsyncTransport.                                      *)
EXTENDS AsyncTransport

\* The callback of job 1 submits job 2.
Chained == [j \in Job |-> IF j = 1 THEN 2 ELSE None]
=============================================================================
