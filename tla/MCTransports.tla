---------------------------- MODULE MCTransports ----------------------------
(***************************************************************************)
(* Finite instances of the transports and of the relay.  The parts share   *)
(* no state: the part a behaviour is about is chosen at the start, and the *)
(* variables of the others keep their initial values.  An action that the  *)
(* fairness conditions name is disabled there, so that they ask nothing of *)
(* a part that is not active.                                              *)
(***************************************************************************)
EXTENDS MCAsync, Iocp, Dtls, External, Relay

VARIABLE part

transportsVars == <<part, vars, iocpVars, dtlsVars, extVars, relayVars>>

\* How a relay is configured: small batches, or larger ones that are
\* forwarded at once, or larger ones of which only versions are forwarded.
Eager == [batch |-> 2, age |-> 1, tier |-> "FULL"]
Relays == {Eager, [batch |-> 3, age |-> 0, tier |-> "COARSE"],
           [batch |-> 3, age |-> 1, tier |-> "METADATA"]}

TransportsInit ==
    /\ part \in {"async", "iocp", "dtls", "external", "relay"}
    /\ Init /\ IocpInit /\ DtlsInit /\ ExternalInit /\ RelayInit
    /\ part # "relay" => relay_config = Eager

Only(p) ==
    /\ part = p
    /\ UNCHANGED part
    /\ IF p = "async" THEN TRUE ELSE UNCHANGED vars
    /\ IF p = "iocp" THEN TRUE ELSE UNCHANGED iocpVars
    /\ IF p = "dtls" THEN TRUE ELSE UNCHANGED dtlsVars
    /\ IF p = "external" THEN TRUE ELSE UNCHANGED extVars
    /\ IF p = "relay" THEN TRUE ELSE UNCHANGED relayVars

TransportsNext ==
    \/ Only("async") /\ Next
    \/ Only("iocp") /\ IocpNext
    \/ Only("dtls") /\ DtlsNext
    \/ Only("external") /\ ExternalNext
    \/ Only("relay") /\ RelayNext

TransportsSpec ==
    /\ TransportsInit /\ [][TransportsNext]_transportsVars
    /\ Fairness /\ IocpFairness /\ RelayFairness
=============================================================================
