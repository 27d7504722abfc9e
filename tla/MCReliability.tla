---------------------------- MODULE MCReliability ----------------------------
(***************************************************************************)
(* Finite instances of the reliability layer and of the in-process         *)
(* transport.  The parts share no state: the part a behaviour is about is  *)
(* chosen at the start, and the variables of the others keep their initial *)
(* values.                                                                 *)
(***************************************************************************)
EXTENDS MCAck, Fec, Freshness, Congestion, Loopback

VARIABLE part

reliabilityVars == <<part, vars, fecVars, freshnessVars, congestionVars, loopVars>>

ReliabilityInit ==
    /\ part \in {"ack", "fec", "outbox", "congestion", "loopback"}
    /\ Init /\ FecInit /\ FreshnessInit /\ CongestionInit /\ LoopbackInit

Only(p) ==
    /\ part = p
    /\ UNCHANGED part
    /\ IF p = "ack" THEN TRUE ELSE UNCHANGED vars
    /\ IF p = "fec" THEN TRUE ELSE UNCHANGED fecVars
    /\ IF p = "outbox" THEN TRUE ELSE UNCHANGED freshnessVars
    /\ IF p = "congestion" THEN TRUE ELSE UNCHANGED congestionVars
    /\ IF p = "loopback" THEN TRUE ELSE UNCHANGED loopVars

ReliabilityNext ==
    \/ Only("ack") /\ Next
    \/ Only("fec") /\ FecNext
    \/ Only("outbox") /\ FreshnessNext
    \/ Only("congestion") /\ CongestionNext
    \/ Only("loopback") /\ LoopbackNext

ReliabilitySpec == ReliabilityInit /\ [][ReliabilityNext]_reliabilityVars
=============================================================================
