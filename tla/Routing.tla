------------------------------- MODULE Routing -------------------------------
(***************************************************************************)
(* Router and RouteTable: for every path the next hops this node has heard *)
(* of, each with a weight that deliveries raise and failures and time      *)
(* lower.                                                                  *)
(*                                                                         *)
(* Weights are integers in the unit of RouterConfig, whose decay_factor is *)
(* 1 / Decay; a model that ticks k times takes every weight of the         *)
(* configuration as a multiple of Decay^k, so that no division rounds.     *)
(* on_delivery_success and on_delivery_failure remove a route and add it   *)
(* anew, so that success_count, failure_count and the latency average start *)
(* over with every feedback: only the weight outlives it, and is all that  *)
(* is kept here.                                                           *)
(***************************************************************************)
EXTENDS Integers, FiniteSets, Sequences

CONSTANTS
    RoutePath,    \* path hashes
    RouteNode,    \* node ids
    LocalNode,    \* local_node_id_
    RouterConfig, \* the fields of RouterConfig that the router reads
    MaxTicks      \* bound on calls of tick

ASSUME RoutingAssumption ==
    /\ LocalNode \in RouteNode /\ IsFiniteSet(RouteNode)
    /\ RouterConfig \in [success_increment : Nat, failure_decrement : Nat, Decay : Nat \ {0},
                         min_route_weight : Nat, max_routes_per_path : Nat,
                         min_weight : Nat, max_weight : Nat]
    /\ RouterConfig.min_weight <= RouterConfig.max_weight
    /\ MaxTicks \in Nat

VARIABLES
    table,       \* table[p]: the routes for p, a function from next hop to weight
    local_paths, \* paths announced by this node
    heard,       \* history: <<p, n>> announced by n since n was last removed
    weakened,    \* history: paths that have had a route below min_route_weight
    ticks        \* used up of MaxTicks

routingVars == <<table, local_paths, heard, weakened, ticks>>

NoRoutes == [n \in {} |-> 0]

RoutingTypeOK ==
    /\ DOMAIN table = RoutePath
    /\ \A p \in RoutePath :
           /\ DOMAIN table[p] \subseteq RouteNode \ {LocalNode}
           /\ \A n \in DOMAIN table[p] : table[p][n] \in Nat
    /\ local_paths \in SUBSET RoutePath
    /\ heard \in SUBSET (RoutePath \X RouteNode)
    /\ weakened \in SUBSET RoutePath
    /\ ticks \in 0 .. MaxTicks

RoutingInit ==
    /\ table = [p \in RoutePath |-> NoRoutes]
    /\ local_paths = {}
    /\ heard = {}
    /\ weakened = {}
    /\ ticks = 0

-----------------------------------------------------------------------------
(* RouteTable.                                                             *)

\* Mutation of add_route: a route that exists gets the initial weight again.
add_route_resets(routes, n, weight) ==
    [m \in DOMAIN routes \cup {n} |-> IF m = n THEN weight ELSE routes[m]]

\* A route that exists is left alone.
add_route(routes, n, weight) ==
    [m \in DOMAIN routes \cup {n} |-> IF m \in DOMAIN routes THEN routes[m] ELSE weight]

remove_route(routes, n) == [m \in DOMAIN routes \ {n} |-> routes[m]]

routes_above(routes, weight) == {n \in DOMAIN routes : routes[n] >= weight}

\* existing.back().weight >= min_route_weight, where existing is sorted by weight.
Healthy(routes) == \A n \in DOMAIN routes : routes[n] >= RouterConfig.min_route_weight

-----------------------------------------------------------------------------
(* Router.                                                                 *)

clamp_weight(w) ==
    IF w < RouterConfig.min_weight THEN RouterConfig.min_weight
    ELSE IF w > RouterConfig.max_weight THEN RouterConfig.max_weight ELSE w

\* The orders in which the sort may leave some routes: among routes of equal
\* weight any may come first.
ByWeight(routes, nodes) ==
    {order \in [1 .. Cardinality(nodes) -> nodes] :
        /\ \A n \in nodes : \E i \in DOMAIN order : order[i] = n
        /\ \A i, j \in DOMAIN order : i < j => routes[order[i]] >= routes[order[j]]}

\* How many hops the loop takes from count routes: it looks at the limit only
\* after it has taken one.
Taken(count) ==
    IF count <= 1 \/ count <= RouterConfig.max_routes_per_path THEN count
    ELSE IF RouterConfig.max_routes_per_path = 0 THEN 1 ELSE RouterConfig.max_routes_per_path

select_next_hops(p) ==
    LET healthy == routes_above(table[p], RouterConfig.min_route_weight)
    IN  {SubSeq(order, 1, Taken(Cardinality(healthy))) : order \in ByWeight(table[p], healthy)}

\* Every step records the paths with a route below min_route_weight.
NoteWeak == weakened' = weakened \cup {p \in RoutePath : ~Healthy(table'[p])}

announce_path(p) ==
    /\ local_paths' = local_paths \cup {p}
    /\ UNCHANGED <<table, heard, weakened, ticks>>

\* With max_routes_per_path routes or more, all of them healthy, the news is
\* ignored; with one that has decayed the new route is added beside it.
learn_route(p, n) ==
    /\ n # LocalNode
    /\ table' = [table EXCEPT ![p] =
           IF /\ Cardinality(DOMAIN @) >= RouterConfig.max_routes_per_path
              /\ @ # NoRoutes
              /\ Healthy(@)
           THEN @
           ELSE add_route(@, n, 2 * RouterConfig.min_route_weight)]
    /\ NoteWeak
    /\ heard' = heard \cup {<<p, n>>}
    /\ UNCHANGED <<local_paths, ticks>>

\* Mutation of remove_node: it ends with the first path it finds.
remove_node_first(n) ==
    /\ \E q \in RoutePath :
           table' = [p \in RoutePath |-> IF p = q THEN remove_route(table[p], n) ELSE table[p]]
    /\ heard' = {h \in heard : h[2] # n}
    /\ NoteWeak
    /\ UNCHANGED <<local_paths, ticks>>

remove_node(n) ==
    /\ table' = [p \in RoutePath |-> remove_route(table[p], n)]
    /\ heard' = {h \in heard : h[2] # n}
    /\ NoteWeak
    /\ UNCHANGED <<local_paths, ticks>>

on_delivery_success(p, n) ==
    /\ n \in DOMAIN table[p]
    /\ table' = [table EXCEPT ![p] =
           add_route(remove_route(@, n), n, clamp_weight(@[n] + RouterConfig.success_increment))]
    /\ NoteWeak
    /\ UNCHANGED <<local_paths, heard, ticks>>

on_delivery_failure(p, n) ==
    /\ n \in DOMAIN table[p]
    /\ LET raw == table[p][n] - RouterConfig.failure_decrement
           rest == remove_route(table[p], n)
       IN  table' = [table EXCEPT ![p] =
               IF raw >= RouterConfig.min_weight
               THEN add_route(rest, n, clamp_weight(raw)) ELSE rest]
    /\ NoteWeak
    /\ UNCHANGED <<local_paths, heard, ticks>>

\* decay_all
router_tick ==
    /\ ticks < MaxTicks
    /\ table' = [p \in RoutePath |->
                     [n \in DOMAIN table[p] |-> table[p][n] \div RouterConfig.Decay]]
    /\ NoteWeak
    /\ ticks' = ticks + 1
    /\ UNCHANGED <<local_paths, heard>>

RoutingNext ==
    \/ router_tick
    \/ \E p \in RoutePath : announce_path(p)
    \/ \E n \in RouteNode : remove_node(n)
    \/ \E p \in RoutePath, n \in RouteNode :
           \/ learn_route(p, n)
           \/ on_delivery_success(p, n)
           \/ on_delivery_failure(p, n)

RoutingSpec == RoutingInit /\ [][RoutingNext]_routingVars

-----------------------------------------------------------------------------
(* Properties.                                                             *)

\* disconnect_node removes a node from the routes of every path, and nothing
\* but an announcement brings it back: no path is routed through a node that
\* has not announced it since it left, whatever feedback is still given.
NoRouteThroughLeaver ==
    \A p \in RoutePath : \A n \in DOMAIN table[p] : <<p, n>> \in heard

\* "Max concurrent routes per path hash" (router.h): the table of a path grows
\* past max_routes_per_path only if one of its routes has been weak, since
\* learn_route then adds and replaces none; from there nothing bounds it.  With
\* a limit of 0 it still takes one route.
GrowsOnlyWeak ==
    \A p \in RoutePath \ weakened :
        Cardinality(DOMAIN table[p]) <= 1 \/ Cardinality(DOMAIN table[p]) <= RouterConfig.max_routes_per_path

\* However large the table, the next hops of a path are at most
\* max_routes_per_path (one if that is 0); none is dead; none is weaker than a
\* route left out; and there is one unless all routes are dead.
NextHopsBest ==
    \A p \in RoutePath : \A hops \in select_next_hops(p) :
        /\ Len(hops) <= 1 \/ Len(hops) <= RouterConfig.max_routes_per_path
        /\ hops = <<>> => \A n \in DOMAIN table[p] : table[p][n] < RouterConfig.min_route_weight
        /\ \A i \in DOMAIN hops :
               /\ table[p][hops[i]] >= RouterConfig.min_route_weight
               /\ \A n \in DOMAIN table[p] :
                      (\A j \in DOMAIN hops : hops[j] # n) => table[p][n] <= table[p][hops[i]]

\* No route gains more than a delivery gives (success_increment, or what lifts
\* it to min_weight), and a step in which one gains changes no other route.
Earned ==
    \A p \in RoutePath : \A n \in DOMAIN table[p] \cap DOMAIN table'[p] :
        table'[p][n] > table[p][n] =>
            /\ table'[p][n] <= clamp_weight(table[p][n] + RouterConfig.success_increment)
            /\ \A q \in RoutePath : \A m \in RouteNode :
                   <<q, m>> # <<p, n>> =>
                       /\ m \in DOMAIN table[q] <=> m \in DOMAIN table'[q]
                       /\ m \in DOMAIN table[q] => table[q][m] = table'[q][m]

\* A route that is in the table gains weight only by a delivery: an announcement
\* never lifts one that failures have lowered.  One that failures have removed
\* is forgotten, and an announcement brings it back at the initial weight.
WeightIsEarned == [][Earned]_routingVars

\* The invariant of the router: no route through a node that left, no more
\* routes than the limit while none has been weak, and the best next hops first.
RoutingInv == RoutingTypeOK /\ NoRouteThroughLeaver /\ GrowsOnlyWeak /\ NextHopsBest
=============================================================================
