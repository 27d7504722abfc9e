------------------------------- MODULE MCPeer -------------------------------
(***************************************************************************)
(* Finite instances of replication in a mesh and of the tables of a peer   *)
(* that replication consults: paths, subscriptions, watches, resolution    *)
(* filters, routes, capabilities, the event log and the wire format.  The  *)
(* parts share no state: the part a behaviour is about is chosen at the    *)
(* start, and the variables of the others keep their initial values.       *)
(***************************************************************************)
EXTENDS MCCounter, StatePathCheck, Subscriptions, Observers, Resolution, Routing,
        Capabilities, Recovery, Wire

VARIABLE part

peerVars == <<part, vars, pathVars, subVars, observerVars, resolutionVars, routingVars, capVars,
              recoveryVars, wireVars>>

PeerInit ==
    /\ part \in {"counter", "path", "subscription", "observer", "resolution", "routing",
                 "capability", "recovery", "wire"}
    /\ Init /\ PathInit /\ SubInit /\ ObserverInit /\ ResolutionInit /\ RoutingInit /\ CapInit
    /\ RecoveryInit /\ WireInit
    /\ part # "wire" => layout = CloseLayout
    /\ part # "resolution" => filter = NewFilter("FULL") /\ whole = {}

Only(p) ==
    /\ part = p
    /\ UNCHANGED part
    /\ IF p = "counter" THEN TRUE ELSE UNCHANGED vars
    /\ IF p = "path" THEN TRUE ELSE UNCHANGED pathVars
    /\ IF p = "subscription" THEN TRUE ELSE UNCHANGED subVars
    /\ IF p = "observer" THEN TRUE ELSE UNCHANGED observerVars
    /\ IF p = "resolution" THEN TRUE ELSE UNCHANGED resolutionVars
    /\ IF p = "routing" THEN TRUE ELSE UNCHANGED routingVars
    /\ IF p = "capability" THEN TRUE ELSE UNCHANGED capVars
    /\ IF p = "recovery" THEN TRUE ELSE UNCHANGED recoveryVars
    /\ IF p = "wire" THEN TRUE ELSE UNCHANGED wireVars

PeerNext ==
    \/ Only("counter") /\ StableNext
    \/ Only("path") /\ PathNext
    \/ Only("subscription") /\ SubNext
    \/ Only("observer") /\ ObserverNext
    \/ Only("resolution") /\ ResolutionNext
    \/ Only("routing") /\ RoutingNext
    \/ Only("capability") /\ CapNext
    \/ Only("recovery") /\ RecoveryNext
    \/ Only("wire") /\ WireNext

PeerSpec == PeerInit /\ [][PeerNext]_peerVars /\ Fairness

-----------------------------------------------------------------------------
(* Constants of the instance: segments are sequences of characters.        *)

SegA == <<"a">>
SegB == <<"b">>
AnySeg == <<Star>>

TwoPaths == {<<SegA>>, <<SegB>>}
ExactAndAny == {<<SegA>>, <<AnySeg>>}

\* No limit, a grant that takes a credit back, none, and one or two.
Credits == {-2, -1, 0, 1, 2}

\* What a token permits.
Limits == {[permissions |-> {"READ", "WRITE"}, pattern |-> <<AnySeg>>, expiry |-> 2],
           [permissions |-> {"WRITE"}, pattern |-> <<SegA>>, expiry |-> 1],
           [permissions |-> {"WRITE"}, pattern |-> <<SegA>>, expiry |-> 0],
           [permissions |-> {"READ"}, pattern |-> <<SegA, AnySeg>>, expiry |-> 2]}

\* The payload of a pattern: empty, and "/*".
Patterns == {<<>>, <<47, 42>>}

SmallRouter == [success_increment |-> 4, failure_decrement |-> 8, Decay |-> 2,
                min_route_weight |-> 4, max_routes_per_path |-> 1,
                min_weight |-> 1, max_weight |-> 12]

\* Watches for one notification, for two, for ever, and one made with 0.
WatchKinds == {[pattern |-> <<SegA>>, filter |-> NoFilter, remaining |-> 1],
               [pattern |-> <<AnySeg>>, filter |-> "LWW", remaining |-> 2],
               [pattern |-> <<SegB>>, filter |-> NoFilter, remaining |-> 0],
               [pattern |-> <<SegB>>, filter |-> "SET", remaining |-> -1]}
=============================================================================
