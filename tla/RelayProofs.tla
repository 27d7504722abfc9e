---------------------------- MODULE RelayProofs -----------------------------
(***************************************************************************)
(* The table of routes, the filter of a subscription and the aggregating   *)
(* relay.                                                                  *)
(***************************************************************************)
EXTENDS Routing, Resolution, Relay, FiniteSetTheorems, TLAPS

\* A leaf that names no prover is left to Zenon; the others need arithmetic.
USE ZenonT(60)

-----------------------------------------------------------------------------
(***************************************************************************)
(* Routing, for every set of paths and nodes and every configuration: no   *)
(* route leads through a node that left, the next hops are the best ones,  *)
(* and weight is earned by deliveries only.                                *)
(***************************************************************************)

\* What the proofs use of the configuration.
LEMMA ConfigFacts ==
    /\ RouterConfig.success_increment \in Nat /\ RouterConfig.failure_decrement \in Nat
    /\ RouterConfig.Decay \in Nat \ {0}
    /\ RouterConfig.min_route_weight \in Nat /\ RouterConfig.max_routes_per_path \in Nat
    /\ RouterConfig.min_weight \in Nat /\ RouterConfig.max_weight \in Nat
    /\ RouterConfig.min_weight <= RouterConfig.max_weight
  BY RoutingAssumption

\* A table of routes: next hops among the other nodes, with weights.
Routes(r) == /\ r = [n \in DOMAIN r |-> r[n]]
             /\ DOMAIN r \subseteq RouteNode \ {LocalNode}
             /\ \A n \in DOMAIN r : r[n] \in Nat

\* Every table is one, and is of a node's hearing: the inductive invariant.
Tables ==
    /\ table = [p \in RoutePath |-> table[p]]
    /\ \A p \in RoutePath : Routes(table[p])

\* A path with a weak route is recorded.
WeakNoted == \A p \in RoutePath \ weakened : Healthy(table[p])

RoutingIInv == Tables /\ RoutingTypeOK /\ NoRouteThroughLeaver /\ WeakNoted /\ GrowsOnlyWeak

-----------------------------------------------------------------------------
(* The operators.                                                          *)

\* add_route() keeps every route, adds one, and changes no weight.
LEMMA AddFacts ==
    ASSUME NEW r, Routes(r), NEW n \in RouteNode \ {LocalNode}, NEW w \in Nat
    PROVE  /\ Routes(add_route(r, n, w))
           /\ DOMAIN add_route(r, n, w) = DOMAIN r \cup {n}
           /\ \A m \in DOMAIN r : add_route(r, n, w)[m] = r[m]
           /\ n \notin DOMAIN r => add_route(r, n, w)[n] = w
  BY DEF Routes, add_route

\* remove_route() drops one route and changes no weight.
LEMMA RemoveFacts ==
    ASSUME NEW r, Routes(r), NEW n
    PROVE  /\ Routes(remove_route(r, n))
           /\ DOMAIN remove_route(r, n) = DOMAIN r \ {n}
           /\ \A m \in DOMAIN r \ {n} : remove_route(r, n)[m] = r[m]
  BY DEF Routes, remove_route

\* clamp_weight() returns a weight, and never less than its argument allows.
LEMMA ClampFacts ==
    ASSUME NEW w \in Int
    PROVE  clamp_weight(w) \in Nat
  BY ConfigFacts, SMTT(60) DEF clamp_weight

\* A route that is removed and added again has the new weight, and the others
\* keep theirs.
LEMMA RenewFacts ==
    ASSUME NEW r, Routes(r), NEW n \in DOMAIN r, NEW w \in Nat
    PROVE  LET s == add_route(remove_route(r, n), n, w)
           IN  /\ Routes(s) /\ DOMAIN s = DOMAIN r
               /\ s[n] = w
               /\ \A m \in DOMAIN r \ {n} : s[m] = r[m]
<1> DEFINE q == remove_route(r, n)
<1>1. n \in RouteNode \ {LocalNode}
  BY DEF Routes
<1>2. Routes(q) /\ DOMAIN q = DOMAIN r \ {n} /\ \A m \in DOMAIN r \ {n} : q[m] = r[m]
  BY RemoveFacts
<1> HIDE DEF q
<1>3. /\ Routes(add_route(q, n, w))
      /\ DOMAIN add_route(q, n, w) = DOMAIN q \cup {n}
      /\ \A m \in DOMAIN q : add_route(q, n, w)[m] = q[m]
      /\ n \notin DOMAIN q => add_route(q, n, w)[n] = w
  BY <1>1, <1>2, AddFacts
<1>4. DOMAIN add_route(q, n, w) = DOMAIN r
  BY <1>2, <1>3
<1> QED
  BY <1>2, <1>3, <1>4 DEF q

\* Decay never raises a weight.
LEMMA DecayFacts ==
    ASSUME NEW w \in Nat
    PROVE  w \div RouterConfig.Decay \in 0 .. w
<1> DEFINE d == RouterConfig.Decay
<1>1. d \in Nat /\ d > 0
  BY ConfigFacts, SMTT(60)
<1> HIDE DEF d
<1>2. w \div d \in 0 .. w
  BY <1>1, SMTT(60)
<1> QED
  BY <1>2 DEF d

-----------------------------------------------------------------------------
(* The steps.                                                              *)

\* A step that changes the routes of one path.
LEMMA OnePath ==
    ASSUME RoutingIInv, NEW p \in RoutePath, NEW r, Routes(r), table' = [table EXCEPT ![p] = r]
    PROVE  /\ Tables'
           /\ table'[p] = r
           /\ \A q \in RoutePath : q # p => table'[q] = table[q]
  BY SMTT(60) DEF RoutingIInv, Tables, Routes

\* What the type invariant says, from the tables.
LEMMA Typed ==
    ASSUME Tables, local_paths \in SUBSET RoutePath, heard \in SUBSET (RoutePath \X RouteNode),
           weakened \in SUBSET RoutePath, ticks \in 0 .. MaxTicks
    PROVE  RoutingTypeOK
  BY DEF Tables, Routes, RoutingTypeOK

\* The same after a step.
LEMMA TypedNext ==
    ASSUME Tables', local_paths' \in SUBSET RoutePath, weakened' \in SUBSET RoutePath,
           heard' \in SUBSET (RoutePath \X RouteNode), ticks' \in 0 .. MaxTicks
    PROVE  RoutingTypeOK'
  BY DEF Tables, Routes, RoutingTypeOK

\* Weak routes are recorded.
LEMMA NoteFacts ==
    ASSUME RoutingIInv, NoteWeak
    PROVE  weakened' \in SUBSET RoutePath /\ weakened \subseteq weakened' /\ WeakNoted'
<1>1. weakened \in SUBSET RoutePath
  BY DEF RoutingIInv, RoutingTypeOK
<1>2. weakened' \in SUBSET RoutePath /\ weakened \subseteq weakened'
  BY <1>1 DEF NoteWeak
<1> QED
  BY <1>2 DEF NoteWeak, WeakNoted, Healthy

\* A step that adds a route to no path without weak routes.
LEMMA NothingAdded ==
    ASSUME RoutingIInv, weakened \subseteq weakened',
           \A p \in RoutePath \ weakened' : DOMAIN table'[p] \subseteq DOMAIN table[p]
    PROVE  GrowsOnlyWeak'
<1> SUFFICES ASSUME NEW p \in RoutePath \ weakened'
             PROVE  Cardinality(DOMAIN table'[p]) <= 1 \/ Cardinality(DOMAIN table'[p]) <= RouterConfig.max_routes_per_path
  BY DEF GrowsOnlyWeak
<1> DEFINE d == DOMAIN table[p]
           e == DOMAIN table'[p]
           k == Cardinality(d)
           l == Cardinality(e)
           max == RouterConfig.max_routes_per_path
<1>1. k <= 1 \/ k <= max
  BY DEF RoutingIInv, GrowsOnlyWeak
<1>2. IsFiniteSet(d) /\ e \subseteq d
  <2>1. DOMAIN table[p] \subseteq RouteNode
    BY DEF RoutingIInv, Tables, Routes
  <2> QED
    BY <2>1, RoutingAssumption, FS_Subset
<1> HIDE DEF d, e
<1>3. k \in Nat /\ l \in Nat /\ l <= k
  BY <1>2, FS_Subset, FS_CardinalityType
<1>4. max \in Nat
  BY ConfigFacts
<1> HIDE DEF k, l, max
<1>5. l <= 1 \/ l <= max
  BY <1>1, <1>3, <1>4, SMTT(60)
<1> QED
  BY <1>5 DEF l, max, e

\* A step that raises no weight.
LEMMA NothingEarned ==
    ASSUME RoutingIInv, Tables',
           \A p \in RoutePath : \A n \in DOMAIN table[p] \cap DOMAIN table'[p] :
               table'[p][n] <= table[p][n]
    PROVE  Earned
<1>1. \A p \in RoutePath : \A n \in DOMAIN table[p] \cap DOMAIN table'[p] :
          table[p][n] \in Nat /\ table'[p][n] \in Nat
  BY DEF RoutingIInv, Tables, Routes
<1>2. \A p \in RoutePath : \A n \in DOMAIN table[p] \cap DOMAIN table'[p] :
          ~(table'[p][n] > table[p][n])
  BY <1>1, SMTT(60)
<1> QED
  BY <1>2 DEF Earned

\* An announcement of another node.
LEMMA LearnStep ==
    ASSUME RoutingIInv, NEW p \in RoutePath, NEW n \in RouteNode, learn_route(p, n)
    PROVE  RoutingIInv' /\ Earned
<1> DEFINE w == 2 * RouterConfig.min_route_weight
<1>1. Routes(table[p]) /\ n \in RouteNode \ {LocalNode} /\ w \in Nat
  <2>1. w \in Nat
    BY ConfigFacts, SMTT(60)
  <2>2. Routes(table[p])
    BY DEF RoutingIInv, Tables
  <2>3. n \in RouteNode \ {LocalNode}
    BY DEF learn_route
  <2> QED
    BY <2>1, <2>2, <2>3
<1>2. \/ table' = [table EXCEPT ![p] = table[p]]
      \/ table' = [table EXCEPT ![p] = add_route(table[p], n, w)]
  BY DEF learn_route
<1> HIDE DEF w
<1>3. PICK s : /\ s = table[p] \/ s = add_route(table[p], n, w)
               /\ table' = [table EXCEPT ![p] = s]
  BY <1>2
<1>4. /\ Routes(s) /\ DOMAIN s \subseteq DOMAIN table[p] \cup {n}
      /\ \A m \in DOMAIN table[p] : m \in DOMAIN s /\ s[m] = table[p][m]
  <2>1. CASE s = table[p]
    BY <1>1, <2>1
  <2>2. CASE s = add_route(table[p], n, w)
    <3>1. /\ Routes(add_route(table[p], n, w))
          /\ DOMAIN add_route(table[p], n, w) = DOMAIN table[p] \cup {n}
          /\ \A m \in DOMAIN table[p] : add_route(table[p], n, w)[m] = table[p][m]
      BY <1>1, AddFacts
    <3> QED
      BY <2>2, <3>1
  <2> QED
    BY <1>3, <2>1, <2>2
<1>5. /\ Tables' /\ table'[p] = s
      /\ \A q \in RoutePath : q # p => table'[q] = table[q]
  BY <1>3, <1>4, OnePath
<1>6. heard' = heard \cup {<<p, n>>} /\ local_paths' = local_paths /\ ticks' = ticks /\ NoteWeak
  BY DEF learn_route
<1>10. weakened' \in SUBSET RoutePath /\ weakened \subseteq weakened' /\ WeakNoted'
  BY <1>6, NoteFacts
<1>11. GrowsOnlyWeak'
  <2> DEFINE d == DOMAIN table[p]
             k == Cardinality(d)
             max == RouterConfig.max_routes_per_path
  <2>1. CASE k >= max /\ table[p] # NoRoutes /\ (Healthy(table[p]) \/ p \in weakened)
    <3>1. p \notin weakened => table' = [table EXCEPT ![p] = table[p]]
      BY <2>1 DEF learn_route
    <3>2. p \notin weakened => table'[p] = table[p]
      BY <3>1 DEF RoutingIInv, Tables
    <3>3. \A q \in RoutePath \ weakened' : table'[q] = table[q]
      BY <1>5, <1>10, <3>2
    <3> QED
      BY <1>10, <3>3, NothingAdded
  <2>2. Healthy(table[p]) \/ p \in weakened
    BY DEF RoutingIInv, WeakNoted
  <2>3. CASE ~(k >= max) \/ table[p] = NoRoutes
    <3> SUFFICES ASSUME NEW q \in RoutePath \ weakened'
                 PROVE  Cardinality(DOMAIN table'[q]) <= 1 \/ Cardinality(DOMAIN table'[q]) <= max
      BY DEF GrowsOnlyWeak
    <3>1. CASE q # p
      BY <1>5, <1>10, <3>1 DEF RoutingIInv, GrowsOnlyWeak
    <3>2. CASE q = p
      <4> DEFINE e == DOMAIN s
      <4>1. IsFiniteSet(d) /\ e \subseteq d \cup {n}
        <5>1. DOMAIN table[p] \subseteq RouteNode
          BY <1>1 DEF Routes
        <5> QED
          BY <1>4, <5>1, RoutingAssumption, FS_Subset
      <4>0. table[p] = NoRoutes => d = {}
        BY DEF NoRoutes
      <4> HIDE DEF d, e
      <4>2. /\ IsFiniteSet(d \cup {n}) /\ k \in Nat /\ Cardinality(d \cup {n}) \in Nat
            /\ Cardinality(d \cup {n}) = IF n \in d THEN k ELSE k + 1
        BY <4>1, FS_AddElement, FS_CardinalityType
      <4>3. Cardinality(e) \in Nat /\ Cardinality(e) <= Cardinality(d \cup {n})
        BY <4>1, <4>2, FS_Subset, FS_CardinalityType
      <4>4. max \in Nat
        BY ConfigFacts
      <4>5. table[p] = NoRoutes => k = 0
        BY <4>0, FS_EmptySet
      <4> HIDE DEF k, max
      <4>6. Cardinality(e) <= 1 \/ Cardinality(e) <= max
        BY <2>3, <4>2, <4>3, <4>4, <4>5, SMTT(60)
      <4> QED
        BY <1>5, <3>2, <4>6 DEF e
    <3> QED
      BY <3>1, <3>2
  <2> QED
    BY <2>1, <2>2, <2>3
<1>7. RoutingTypeOK'
  <2>1. heard' \in SUBSET (RoutePath \X RouteNode)
    BY <1>6, SMTT(60) DEF RoutingIInv, RoutingTypeOK
  <2> QED
    BY <1>5, <1>6, <1>10, <2>1, TypedNext DEF RoutingIInv, RoutingTypeOK
<1>8. NoRouteThroughLeaver'
  BY <1>4, <1>5, <1>6 DEF RoutingIInv, NoRouteThroughLeaver
<1>9. \A q \in RoutePath : \A m \in DOMAIN table[q] \cap DOMAIN table'[q] :
          table'[q][m] <= table[q][m]
  <2>1. \A q \in RoutePath : \A m \in DOMAIN table[q] : table[q][m] \in Nat
    BY DEF RoutingIInv, Tables, Routes
  <2>2. \A q \in RoutePath : \A m \in DOMAIN table[q] : table'[q][m] = table[q][m]
    BY <1>4, <1>5
  <2> QED
    BY <2>1, <2>2, SMTT(60)
<1> QED
  BY <1>5, <1>7, <1>8, <1>9, <1>10, <1>11, NothingEarned DEF RoutingIInv

\* Feedback of a delivery.
LEMMA SuccessStep ==
    ASSUME RoutingIInv, NEW p \in RoutePath, NEW n \in RouteNode, on_delivery_success(p, n)
    PROVE  RoutingIInv' /\ Earned
<1> DEFINE w == clamp_weight(table[p][n] + RouterConfig.success_increment)
           s == add_route(remove_route(table[p], n), n, w)
<1>1. Routes(table[p]) /\ n \in DOMAIN table[p] /\ table[p][n] \in Nat
  BY DEF RoutingIInv, Tables, Routes, on_delivery_success
<1>2. w \in Nat
  BY <1>1, ConfigFacts, ClampFacts, SMTT(60)
<1>3. table' = [table EXCEPT ![p] = s]
  BY DEF on_delivery_success
<1> HIDE DEF w
<1>4. /\ Routes(s) /\ DOMAIN s = DOMAIN table[p] /\ s[n] = w
      /\ \A m \in DOMAIN table[p] \ {n} : s[m] = table[p][m]
  BY <1>1, <1>2, RenewFacts, SMTT(60)
<1> HIDE DEF s
<1>5. /\ Tables' /\ table'[p] = s
      /\ \A q \in RoutePath : q # p => table'[q] = table[q]
  BY <1>3, <1>4, OnePath
<1>6. heard' = heard /\ local_paths' = local_paths /\ ticks' = ticks /\ NoteWeak
  BY DEF on_delivery_success
<1>10. weakened' \in SUBSET RoutePath /\ weakened \subseteq weakened' /\ WeakNoted'
  BY <1>6, NoteFacts
<1>11. GrowsOnlyWeak'
  BY <1>4, <1>5, <1>10, NothingAdded
<1>7. RoutingTypeOK'
  BY <1>5, <1>6, <1>10, TypedNext DEF RoutingIInv, RoutingTypeOK
<1>8. NoRouteThroughLeaver'
  BY <1>4, <1>5, <1>6 DEF RoutingIInv, NoRouteThroughLeaver
<1>9. Earned
  <2> SUFFICES ASSUME NEW q \in RoutePath, NEW m \in DOMAIN table[q] \cap DOMAIN table'[q],
                      table'[q][m] > table[q][m]
               PROVE  /\ table'[q][m] <= clamp_weight(table[q][m] + RouterConfig.success_increment)
                      /\ \A o \in RoutePath : \A k \in RouteNode :
                             <<o, k>> # <<q, m>> =>
                                 /\ k \in DOMAIN table[o] <=> k \in DOMAIN table'[o]
                                 /\ k \in DOMAIN table[o] => table[o][k] = table'[o][k]
    BY DEF Earned
  <2>1. table[q][m] \in Nat
    BY DEF RoutingIInv, Tables, Routes
  <2>2. ~(table[q][m] > table[q][m])
    BY <2>1, SMTT(60)
  <2>3. q = p /\ m = n
    BY <1>4, <1>5, <2>2
  <2>4. table'[q][m] = w /\ w <= w
    BY <1>2, <1>4, <1>5, <2>3, SMTT(60)
  <2> QED
    BY <1>4, <1>5, <2>3, <2>4 DEF w
<1> QED
  BY <1>5, <1>7, <1>8, <1>9, <1>10, <1>11 DEF RoutingIInv

\* Feedback of a failure.
LEMMA FailureStep ==
    ASSUME RoutingIInv, NEW p \in RoutePath, NEW n \in RouteNode, on_delivery_failure(p, n)
    PROVE  RoutingIInv' /\ Earned
<1> DEFINE raw == table[p][n] - RouterConfig.failure_decrement
           w == clamp_weight(raw)
           rest == remove_route(table[p], n)
<1>1. Routes(table[p]) /\ n \in DOMAIN table[p] /\ table[p][n] \in Nat
  BY DEF RoutingIInv, Tables, Routes, on_delivery_failure
<1>2. raw >= RouterConfig.min_weight => w \in Nat /\ w <= table[p][n]
  BY <1>1, ConfigFacts, SMTT(60) DEF clamp_weight
<1>3. \/ /\ raw >= RouterConfig.min_weight
         /\ table' = [table EXCEPT ![p] = add_route(rest, n, w)]
      \/ table' = [table EXCEPT ![p] = rest]
  BY DEF on_delivery_failure
<1> HIDE DEF raw, w
<1>4. PICK s : /\ Routes(s) /\ DOMAIN s \subseteq DOMAIN table[p]
               /\ \A m \in DOMAIN s : s[m] <= table[p][m]
               /\ table' = [table EXCEPT ![p] = s]
  <2>1. \A m \in DOMAIN table[p] : table[p][m] \in Nat /\ table[p][m] <= table[p][m]
    BY <1>1, SMTT(60) DEF Routes
  <2>2. CASE table' = [table EXCEPT ![p] = rest]
    <3>1. /\ Routes(rest) /\ DOMAIN rest = DOMAIN table[p] \ {n}
          /\ \A m \in DOMAIN table[p] \ {n} : rest[m] = table[p][m]
      BY <1>1, RemoveFacts
    <3> QED
      BY <2>1, <2>2, <3>1
  <2>3. CASE /\ raw >= RouterConfig.min_weight
             /\ table' = [table EXCEPT ![p] = add_route(rest, n, w)]
    <3> DEFINE s == add_route(rest, n, w)
    <3>1. w \in Nat /\ w <= table[p][n]
      BY <1>2, <2>3
    <3>2. /\ Routes(s) /\ DOMAIN s = DOMAIN table[p] /\ s[n] = w
          /\ \A m \in DOMAIN table[p] \ {n} : s[m] = table[p][m]
      BY <1>1, <3>1, RenewFacts, SMTT(60)
    <3>3. table' = [table EXCEPT ![p] = s]
      BY <2>3
    <3> HIDE DEF s
    <3> QED
      BY <2>1, <3>1, <3>2, <3>3
  <2> QED
    BY <1>3, <2>2, <2>3
<1>5. /\ Tables' /\ table'[p] = s
      /\ \A q \in RoutePath : q # p => table'[q] = table[q]
  BY <1>4, OnePath
<1>6. heard' = heard /\ local_paths' = local_paths /\ ticks' = ticks /\ NoteWeak
  BY DEF on_delivery_failure
<1>10. weakened' \in SUBSET RoutePath /\ weakened \subseteq weakened' /\ WeakNoted'
  BY <1>6, NoteFacts
<1>11. GrowsOnlyWeak'
  BY <1>4, <1>5, <1>10, NothingAdded
<1>7. RoutingTypeOK'
  BY <1>5, <1>6, <1>10, TypedNext DEF RoutingIInv, RoutingTypeOK
<1>8. NoRouteThroughLeaver'
  BY <1>4, <1>5, <1>6 DEF RoutingIInv, NoRouteThroughLeaver
<1>9. \A q \in RoutePath : \A m \in DOMAIN table[q] \cap DOMAIN table'[q] :
          table'[q][m] <= table[q][m]
  <2>1. \A q \in RoutePath : \A m \in DOMAIN table[q] : table[q][m] <= table[q][m]
    BY SMTT(60) DEF RoutingIInv, Tables, Routes
  <2> QED
    BY <1>4, <1>5, <2>1
<1> QED
  BY <1>5, <1>7, <1>8, <1>9, <1>10, <1>11, NothingEarned DEF RoutingIInv

\* A node leaves.
LEMMA LeaveStep ==
    ASSUME RoutingIInv, NEW n \in RouteNode, remove_node(n)
    PROVE  RoutingIInv' /\ Earned
<1>1. \A p \in RoutePath : Routes(table[p])
  BY DEF RoutingIInv, Tables
<1>2. \A p \in RoutePath :
          /\ Routes(remove_route(table[p], n))
          /\ DOMAIN remove_route(table[p], n) = DOMAIN table[p] \ {n}
          /\ \A m \in DOMAIN table[p] \ {n} : remove_route(table[p], n)[m] = table[p][m]
  BY <1>1, RemoveFacts
<1>3. /\ table' = [p \in RoutePath |-> remove_route(table[p], n)]
      /\ heard' = {h \in heard : h[2] # n} /\ local_paths' = local_paths /\ ticks' = ticks /\ NoteWeak
  BY DEF remove_node
<1>4. /\ DOMAIN table' = RoutePath
      /\ \A p \in RoutePath : /\ Routes(table'[p])
                              /\ DOMAIN table'[p] = DOMAIN table[p] \ {n}
                              /\ \A m \in DOMAIN table'[p] : table'[p][m] = table[p][m]
  BY <1>2, <1>3
<1>5. Tables'
  BY <1>3, <1>4 DEF Tables, Routes
<1>10. weakened' \in SUBSET RoutePath /\ weakened \subseteq weakened' /\ WeakNoted'
  BY <1>3, NoteFacts
<1>11. GrowsOnlyWeak'
  BY <1>4, <1>10, NothingAdded
<1>6. heard' \in SUBSET (RoutePath \X RouteNode)
  BY <1>3 DEF RoutingIInv, RoutingTypeOK
<1>7. RoutingTypeOK'
  BY <1>3, <1>5, <1>6, <1>10, TypedNext DEF RoutingIInv, RoutingTypeOK
<1>8. NoRouteThroughLeaver'
  <2> SUFFICES ASSUME NEW p \in RoutePath, NEW m \in DOMAIN table'[p]
               PROVE  <<p, m>> \in heard'
    BY DEF NoRouteThroughLeaver
  <2>1. m \in DOMAIN table[p] /\ m # n
    BY <1>4
  <2>2. <<p, m>> \in heard
    BY <2>1 DEF RoutingIInv, NoRouteThroughLeaver
  <2> QED
    BY <1>3, <2>1, <2>2
<1>9. \A p \in RoutePath : \A m \in DOMAIN table[p] \cap DOMAIN table'[p] :
          table'[p][m] <= table[p][m]
  <2>1. \A p \in RoutePath : \A m \in DOMAIN table[p] : table[p][m] \in Nat
    BY <1>1 DEF Routes
  <2> QED
    BY <1>4, <2>1, SMTT(60)
<1> QED
  BY <1>5, <1>7, <1>8, <1>9, <1>10, <1>11, NothingEarned DEF RoutingIInv

\* The weights decay.
LEMMA TickStep ==
    ASSUME RoutingIInv, router_tick
    PROVE  RoutingIInv' /\ Earned
<1>1. \A p \in RoutePath : Routes(table[p])
  BY DEF RoutingIInv, Tables
<1>2. \A p \in RoutePath : \A m \in DOMAIN table[p] :
          table[p][m] \div RouterConfig.Decay \in 0 .. table[p][m]
  BY <1>1, DecayFacts DEF Routes
<1>3. /\ table' = [p \in RoutePath |->
                       [n \in DOMAIN table[p] |-> table[p][n] \div RouterConfig.Decay]]
      /\ heard' = heard /\ local_paths' = local_paths /\ NoteWeak
  BY DEF router_tick
<1>4. ticks' \in 0 .. MaxTicks
  BY RoutingAssumption, SMTT(60) DEF router_tick, RoutingIInv, RoutingTypeOK
<1>5. \A p \in RoutePath : /\ DOMAIN table'[p] = DOMAIN table[p]
                           /\ \A m \in DOMAIN table[p] : table'[p][m] \in 0 .. table[p][m]
  BY <1>2, <1>3
<1>6. ASSUME NEW p \in RoutePath
      PROVE  Routes(table'[p])
  <2>1. table'[p] = [n \in DOMAIN table[p] |-> table[p][n] \div RouterConfig.Decay]
    BY <1>3
  <2>2. table'[p] = [n \in DOMAIN table'[p] |-> table'[p][n]]
    BY <2>1
  <2>3. \A m \in DOMAIN table[p] : table[p][m] \in Nat
    BY <1>1 DEF Routes
  <2>4. \A m \in DOMAIN table'[p] : table'[p][m] \in Nat
    BY <1>5, <2>3, SMTT(60)
  <2>5. DOMAIN table'[p] \subseteq RouteNode \ {LocalNode}
    BY <1>1, <1>5 DEF Routes
  <2> QED
    BY <2>2, <2>4, <2>5 DEF Routes
<1>7. Tables'
  BY <1>3, <1>6 DEF Tables, Routes
<1>11. weakened' \in SUBSET RoutePath /\ weakened \subseteq weakened' /\ WeakNoted'
  BY <1>3, NoteFacts
<1>12. GrowsOnlyWeak'
  BY <1>5, <1>11, NothingAdded
<1>8. RoutingTypeOK'
  BY <1>3, <1>4, <1>7, <1>11, TypedNext DEF RoutingIInv, RoutingTypeOK
<1>9. NoRouteThroughLeaver'
  BY <1>3, <1>5 DEF RoutingIInv, NoRouteThroughLeaver
<1>10. \A p \in RoutePath : \A m \in DOMAIN table[p] \cap DOMAIN table'[p] :
          table'[p][m] <= table[p][m]
  <2>1. \A p \in RoutePath : \A m \in DOMAIN table[p] : table[p][m] \in Nat
    BY <1>1 DEF Routes
  <2> QED
    BY <1>5, <2>1, SMTT(60)
<1> QED
  BY <1>7, <1>8, <1>9, <1>10, <1>11, <1>12, NothingEarned DEF RoutingIInv

\* A step that leaves the table and what was heard alone.
LEMMA RoutingQuietStep ==
    ASSUME RoutingIInv, UNCHANGED routingVars \/ \E p \in RoutePath : announce_path(p)
    PROVE  RoutingIInv' /\ Earned
<1>1. /\ table' = table /\ heard' = heard /\ ticks' = ticks /\ local_paths' \in SUBSET RoutePath
      /\ weakened' = weakened
  BY DEF routingVars, announce_path, RoutingIInv, RoutingTypeOK
<1>2. Tables'
  BY <1>1 DEF RoutingIInv, Tables, Routes
<1>3. RoutingTypeOK'
  BY <1>1, <1>2, TypedNext DEF RoutingIInv, RoutingTypeOK
<1>4. NoRouteThroughLeaver' /\ WeakNoted' /\ GrowsOnlyWeak'
  BY <1>1 DEF RoutingIInv, NoRouteThroughLeaver, WeakNoted, Healthy, GrowsOnlyWeak
<1>5. \A p \in RoutePath : \A m \in DOMAIN table[p] \cap DOMAIN table'[p] :
          table'[p][m] <= table[p][m]
  BY <1>1, SMTT(60) DEF RoutingIInv, Tables, Routes
<1> QED
  BY <1>2, <1>3, <1>4, <1>5, NothingEarned DEF RoutingIInv

\* Every step keeps the invariant and earns what it gives.
LEMMA RoutingInductive == RoutingIInv /\ [RoutingNext]_routingVars => RoutingIInv' /\ Earned
  BY LearnStep, SuccessStep, FailureStep, LeaveStep, TickStep, RoutingQuietStep DEF RoutingNext

\* The invariant holds at the start.
LEMMA RoutingInitially == RoutingInit => RoutingIInv
<1> SUFFICES ASSUME RoutingInit PROVE RoutingIInv
  OBVIOUS
<1>1. \A p \in RoutePath : Routes(table[p]) /\ DOMAIN table[p] = {}
  BY DEF RoutingInit, NoRoutes, Routes
<1>2. Tables
  BY <1>1 DEF RoutingInit, Tables
<1>3. ticks \in 0 .. MaxTicks
  BY RoutingAssumption, SMTT(60) DEF RoutingInit
<1>4. RoutingTypeOK
  BY <1>2, <1>3, Typed DEF RoutingInit
<1>5. NoRouteThroughLeaver /\ WeakNoted
  BY <1>1 DEF NoRouteThroughLeaver, WeakNoted, Healthy
<1>6. GrowsOnlyWeak
  <2>1. \A p \in RoutePath : Cardinality(DOMAIN table[p]) = 0
    BY <1>1, FS_EmptySet
  <2>2. 0 <= 1
    BY SMTT(60)
  <2> QED
    BY <2>1, <2>2 DEF GrowsOnlyWeak
<1> QED
  BY <1>2, <1>4, <1>5, <1>6 DEF RoutingIInv

-----------------------------------------------------------------------------
(* The theorems.                                                           *)

\* The next hops that select_next_hops() returns are the best ones, in any
\* table the router can have.
LEMMA HopsBest == RoutingIInv => NextHopsBest
<1> DEFINE max == RouterConfig.max_routes_per_path
           w == RouterConfig.min_route_weight
<1> SUFFICES ASSUME RoutingIInv, NEW p \in RoutePath, NEW hops \in select_next_hops(p)
             PROVE  /\ Len(hops) <= 1 \/ Len(hops) <= max
                    /\ hops = <<>> => \A n \in DOMAIN table[p] : table[p][n] < w
                    /\ \A i \in DOMAIN hops :
                           /\ table[p][hops[i]] >= w
                           /\ \A n \in DOMAIN table[p] :
                                  (\A j \in DOMAIN hops : hops[j] # n) => table[p][n] <= table[p][hops[i]]
  BY DEF NextHopsBest
<1> DEFINE c == routes_above(table[p], w)
           k == Cardinality(c)
<1>1. PICK order \in ByWeight(table[p], c) : hops = SubSeq(order, 1, Taken(k))
  BY DEF select_next_hops
<1>2. DOMAIN table[p] \subseteq RouteNode /\ \A n \in DOMAIN table[p] : table[p][n] \in Nat
  BY DEF RoutingIInv, Tables, Routes
<1>3. c \subseteq DOMAIN table[p] /\ \A n \in DOMAIN table[p] : n \in c <=> table[p][n] >= w
  BY DEF routes_above
<1>4. w \in Nat /\ max \in Nat
  BY ConfigFacts
<1>5. /\ order \in [1 .. k -> c] /\ \A n \in c : \E i \in 1 .. k : order[i] = n
      /\ \A i, j \in 1 .. k : i < j => table[p][order[i]] >= table[p][order[j]]
  BY <1>1 DEF ByWeight
<1> HIDE DEF c, w
<1>6. IsFiniteSet(c)
  BY <1>2, <1>3, RoutingAssumption, FS_Subset
<1>7. k \in Nat
  BY <1>6, FS_CardinalityType
<1> DEFINE l == Taken(k)
<1> HIDE DEF k
<1>8. /\ l \in 0 .. k
      /\ l <= 1 \/ l <= max
      /\ l = 0 => k = 0
  BY <1>4, <1>7, SMTT(60) DEF Taken
<1> HIDE DEF l, max
<1>9. order \in Seq(c) /\ Len(order) = k
  BY <1>5, <1>7, SMTT(60)
<1>10. Len(hops) = l /\ DOMAIN hops = 1 .. l /\ \A i \in 1 .. l : hops[i] = order[i] /\ i \in 1 .. k
  <2>1. hops = SubSeq(order, 1, l)
    BY <1>1 DEF l
  <2> QED
    BY <1>7, <1>8, <1>9, <2>1, SMTT(60)
<1>11. Len(hops) <= 1 \/ Len(hops) <= max
  BY <1>8, <1>10
<1>12. ASSUME hops = <<>>, NEW n \in DOMAIN table[p] PROVE table[p][n] < w
  <2>1. l = 0
    BY <1>10, <1>12, SMTT(60)
  <2>2. k = 0
    BY <1>8, <2>1
  <2>3. n \notin c
    BY <1>5, <2>2, SMTT(60)
  <2> QED
    BY <1>2, <1>3, <1>4, <2>3, SMTT(60)
<1>13. ASSUME NEW i \in DOMAIN hops PROVE table[p][hops[i]] >= w /\ hops[i] \in c
  BY <1>3, <1>5, <1>10
<1>14. ASSUME NEW i \in DOMAIN hops, NEW n \in DOMAIN table[p], \A j \in DOMAIN hops : hops[j] # n
       PROVE  table[p][n] <= table[p][hops[i]]
  <2>0. i \in 1 .. l /\ i \in 1 .. k /\ hops[i] = order[i] /\ table[p][order[i]] \in Nat /\ table[p][n] \in Nat
    BY <1>2, <1>3, <1>10, <1>13
  <2>1. CASE n \in c
    <3>1. PICK m \in 1 .. k : order[m] = n
      BY <1>5, <2>1
    <3>2. m \notin 1 .. l
      BY <1>10, <1>14, <3>1
    <3>3. i < m
      BY <1>7, <1>8, <2>0, <3>1, <3>2, SMTT(60)
    <3>4. table[p][order[i]] >= table[p][n]
      BY <1>5, <2>0, <3>1, <3>3
    <3> QED
      BY <2>0, <3>4, SMTT(60)
  <2>2. CASE n \notin c
    BY <1>3, <1>4, <1>13, <2>0, <2>2, SMTT(60)
  <2> QED
    BY <2>1, <2>2
<1> QED
  BY <1>11, <1>12, <1>13, <1>14 DEF w

\* Whatever is announced, delivered, lost and removed, and in whatever order:
\* no path is routed through a node that has not announced it since it left,
\* a table outgrows its limit only if it has had a weak route, and the next
\* hops are the best ones, for every configuration.
THEOREM RouterCorrect == RoutingSpec => []RoutingInv
<1>1. RoutingSpec => []RoutingIInv
  BY RoutingInitially, RoutingInductive, PTL DEF RoutingSpec
<1>2. RoutingIInv => RoutingInv
  BY HopsBest DEF RoutingIInv, RoutingInv
<1> QED
  BY <1>1, <1>2, PTL

\* A known route gains weight only by a delivery, and then alone.
THEOREM WeightEarned == RoutingSpec => WeightIsEarned
<1>1. RoutingSpec => []RoutingIInv
  BY RoutingInitially, RoutingInductive, PTL DEF RoutingSpec
<1>2. RoutingIInv /\ [RoutingNext]_routingVars => [Earned]_routingVars
  BY RoutingInductive
<1> QED
  BY <1>1, <1>2, PTL DEF RoutingSpec, WeightIsEarned

-----------------------------------------------------------------------------
(***************************************************************************)
(* Resolution: what a filtered subscription receives, and how often.       *)
(***************************************************************************)

\* The deltas of an interval, and the deltas of a second.
PerInterval == IF UpdatesPerSec = 0 THEN 1 ELSE UpdatesPerSec
PerSecond == IF UpdatesPerSec = 0 THEN 1 ELSE 2 * UpdatesPerSec - 1

\* Deltas that left at the times t, and the rate limit r they left behind, at
\* time now: the last r.sent of t are the interval that began at r.since, and
\* what is PerInterval or more before it is a second older.
Paced(t, r, now) ==
    /\ t \in Seq(Nat) /\ now \in Nat
    /\ r.sent \in 0 .. PerInterval /\ r.sent <= Len(t) /\ r.since \in 0 .. now
    /\ r.sent = 0 => Len(t) = 0
    /\ r.sent > 0 => t[Len(t) - r.sent + 1] = r.since
    /\ \A i \in 1 .. Len(t) : t[i] <= now
    /\ \A i, j \in 1 .. Len(t) : i <= j => t[i] <= t[j]
    /\ \A i \in 1 .. Len(t) : i + PerInterval <= Len(t) - r.sent + 1 => t[i] + Second <= r.since
    /\ \A i, j \in 1 .. Len(t) : i <= j /\ t[j] - t[i] < Second => j - i + 1 <= PerSecond

\* The filter's parts.
FilterOK ==
    /\ filter \in [tier : Tier,
                   rate : [FilterPath -> [sent : 0 .. PerInterval, since : 0 .. clock]],
                   last : [FilterPath -> SUBSET FilterUpdate],
                   pending : SUBSET FilterPath]

\* The other end has less than this end has, and what the filter remembers it
\* sent.
ValuesOK ==
    \A p \in FilterPath :
        /\ IsFiniteSet(value[p])
        /\ remote[p] \subseteq value[p] /\ filter.last[p] \subseteq remote[p]

\* The deltas that passed a NORMAL filter are paced.
TimesOK ==
    filter.tier = "NORMAL" => \A p \in FilterPath : Paced(times[p], filter.rate[p], clock)

\* What ResolutionInv needs to be inductive.
ResolutionIInv ==
    /\ ResolutionTypeOK /\ FilterOK /\ ValuesOK /\ TimesOK
    /\ CoarseDriftBounded /\ RefusedAndMissing
    /\ times = [p \in FilterPath |-> times[p]]

-----------------------------------------------------------------------------
(* The rate limit.                                                         *)

\* The bounds are numbers.
LEMMA PerBounds ==
    /\ UpdatesPerSec \in Nat /\ Second \in Nat \ {0} /\ PerInterval \in Nat \ {0} /\ PerSecond \in Nat \ {0}
    /\ PerInterval <= PerSecond
    /\ \A s \in Nat : s < UpdatesPerSec => s + PerInterval <= PerSecond /\ s + 1 <= PerInterval
  BY FilterAssumption, SMTT(60) DEF PerInterval, PerSecond

\* A filter that has sent nothing.
LEMMA PacedNew ==
    ASSUME NEW now \in Nat
    PROVE  Paced(<<>>, [sent |-> 0, since |-> 0], now)
<1> DEFINE t == <<>>
           r == [sent |-> 0, since |-> 0]
<1>1. t \in Seq(Nat) /\ Len(t) = 0 /\ r.sent = 0 /\ r.since = 0 /\ \A i \in 1 .. Len(t) : FALSE
  BY SMTT(60)
<1> HIDE DEF t, r
<1>2. Paced(t, r, now)
  BY <1>1, PerBounds, SMTT(60) DEF Paced
<1> QED
  BY <1>2 DEF t, r

\* Time passes.
LEMMA PacedLater ==
    ASSUME NEW t, NEW r, NEW now, Paced(t, r, now)
    PROVE  Paced(t, r, now + 1)
<1>1. now \in Nat /\ now + 1 \in Nat /\ (\A x \in Nat : x <= now => x <= now + 1) /\ r.since \in 0 .. now + 1
  BY SMTT(60) DEF Paced
<1>2. \A i \in 1 .. Len(t) : t[i] \in Nat
  BY SMTT(60) DEF Paced
<1> QED
  BY <1>1, <1>2 DEF Paced

\* A delta passes the rate limit.
LEMMA PacedNext ==
    ASSUME NEW t, NEW r, NEW now, Paced(t, r, now), check_rate_limit(r, now)
    PROVE  Paced(Append(t, now), Counted(r, now), now)
<1> DEFINE u == Append(t, now)
           c == Counted(r, now)
           n == Len(t)
<1>1. /\ t \in Seq(Nat) /\ n \in Nat /\ now \in Nat /\ r.sent \in Nat /\ r.since \in Nat
      /\ r.sent <= PerInterval /\ r.sent <= n /\ r.since <= now
  BY PerBounds, SMTT(60) DEF Paced
<1>2. /\ r.sent = 0 => n = 0
      /\ r.sent > 0 => t[n - r.sent + 1] = r.since
      /\ \A i \in 1 .. n : t[i] \in Nat /\ t[i] <= now
      /\ \A i, j \in 1 .. n : i <= j => t[i] <= t[j]
      /\ \A i \in 1 .. n : i + PerInterval <= n - r.sent + 1 => t[i] + Second <= r.since
      /\ \A i, j \in 1 .. n : i <= j /\ t[j] - t[i] < Second => j - i + 1 <= PerSecond
  BY SMTT(60) DEF Paced
<1>3. /\ u \in Seq(Nat) /\ Len(u) = n + 1 /\ u[n + 1] = now
      /\ \A i \in 1 .. n : u[i] = t[i]
  BY <1>1, SMTT(60)
<1>4. \/ (r.sent = 0 \/ now - r.since >= Second) /\ c.sent = 1 /\ c.since = now
      \/ r.sent > 0 /\ now - r.since < Second /\ r.sent < UpdatesPerSec /\ c.sent = r.sent + 1 /\ c.since = r.since
  <2>1. CASE NewInterval(r, now)
    BY <1>1, <2>1 DEF NewInterval, Counted
  <2>2. CASE ~NewInterval(r, now)
    BY <1>1, <2>2, PerBounds, SMTT(60) DEF NewInterval, Counted, check_rate_limit
  <2> QED
    BY <2>1, <2>2
<1> DEFINE m == n + 1
           st == m - c.sent + 1
<1> HIDE DEF u, c, n
<1>5. \A i \in 1 .. n + 1 : i \in Nat /\ (i \in 1 .. n \/ i = n + 1)
  BY <1>1, SMTT(60)
<1>6. \A i \in 1 .. n + 1 : u[i] \in Nat /\ u[i] <= now
  <2> TAKE i \in 1 .. n + 1
  <2>1. CASE i \in 1 .. n
    BY <1>2, <1>3, <2>1
  <2>2. CASE i = n + 1
    BY <1>1, <1>3, <2>2, SMTT(60)
  <2> QED
    BY <1>5, <2>1, <2>2
<1>7. \A i, j \in 1 .. n + 1 : i <= j => u[i] <= u[j]
  <2> TAKE i, j \in 1 .. n + 1
  <2>1. CASE j = n + 1
    BY <1>3, <1>6, <2>1
  <2>2. CASE j \in 1 .. n
    <3>1. i <= j => i \in 1 .. n
      BY <1>1, <1>5, <2>2, SMTT(60)
    <3> QED
      BY <1>2, <1>3, <2>2, <3>1
  <2> QED
    BY <1>5, <2>1, <2>2
<1>8. /\ c.sent \in 0 .. PerInterval /\ c.sent <= n + 1 /\ c.since \in 0 .. now /\ c.sent > 0
      /\ u[st] = c.since
      /\ \A i \in 1 .. n + 1 : i + PerInterval <= st => u[i] + Second <= c.since
      /\ \A i \in 1 .. n + 1 : now - u[i] < Second => m - i + 1 <= PerSecond
  <2>1. CASE (r.sent = 0 \/ now - r.since >= Second) /\ c.sent = 1 /\ c.since = now
    <3>1. c.sent \in 0 .. PerInterval /\ c.sent <= n + 1 /\ c.since \in 0 .. now /\ c.sent > 0
      BY <1>1, <2>1, PerBounds, SMTT(60)
    <3>2. st = n + 1
      BY <1>1, <2>1, SMTT(60)
    <3>3. ASSUME NEW i \in 1 .. n, i <= n - r.sent + 1 PROVE t[i] + Second <= now
      <4>1. r.sent > 0
        BY <1>1, <1>2, <3>3, SMTT(60)
      <4>2. n - r.sent + 1 \in 1 .. n
        BY <1>1, <4>1, SMTT(60)
      <4>3. t[i] <= r.since
        BY <1>2, <3>3, <4>1, <4>2
      <4> QED
        BY <1>1, <1>2, <2>1, <4>1, <4>3, PerBounds, SMTT(60)
    <3>4. ASSUME NEW i \in 1 .. n + 1, i + PerInterval <= n + 1 PROVE u[i] + Second <= c.since
      <4>1. i \in 1 .. n /\ i <= n - r.sent + 1
        BY <1>1, <1>5, <3>4, PerBounds, SMTT(60)
      <4> QED
        BY <1>3, <2>1, <3>3, <4>1
    <3>5. ASSUME NEW i \in 1 .. n + 1, now - u[i] < Second PROVE m - i + 1 <= PerSecond
      <4>1. CASE i = n + 1
        BY <1>1, <4>1, PerBounds, SMTT(60)
      <4>2. CASE i \in 1 .. n
        <5>1. ~(i <= n - r.sent + 1)
          <6>1. t[i] \in Nat /\ u[i] = t[i]
            BY <1>2, <1>3, <4>2
          <6> QED
            BY <1>1, <3>3, <3>5, <4>2, <6>1, PerBounds, SMTT(60)
        <5> QED
          BY <1>1, <4>2, <5>1, PerBounds, SMTT(60)
      <4> QED
        BY <1>5, <4>1, <4>2
    <3> HIDE DEF st, m
    <3> QED
      BY <1>3, <2>1, <3>1, <3>2, <3>4, <3>5
  <2>2. CASE r.sent > 0 /\ now - r.since < Second /\ r.sent < UpdatesPerSec /\ c.sent = r.sent + 1 /\ c.since = r.since
    <3>1. c.sent \in 0 .. PerInterval /\ c.sent <= n + 1 /\ c.since \in 0 .. now /\ c.sent > 0
      <4>1. c.sent = r.sent + 1 /\ c.since = r.since
        BY <2>2
      <4>2. r.sent + 1 <= PerInterval /\ PerInterval \in Nat
        BY <1>1, <2>2, PerBounds
      <4> QED
        BY <1>1, <4>1, <4>2, SMTT(60)
    <3>2. st = n - r.sent + 1 /\ n - r.sent + 1 \in 1 .. n
      <4>1. c.sent = r.sent + 1
        BY <2>2
      <4>2. (n + 1) - (r.sent + 1) + 1 = n - r.sent + 1 /\ n - r.sent + 1 \in 1 .. n
        <5>1. \A a, b \in Nat : b <= a /\ b > 0 => (a + 1) - (b + 1) + 1 = a - b + 1 /\ a - b + 1 \in 1 .. a
          BY SMTT(60)
        <5>2. n \in Nat /\ r.sent \in Nat /\ r.sent <= n /\ r.sent > 0
          BY <1>1, <2>2
        <5> QED
          BY <5>1, <5>2
      <4> QED
        BY <4>1, <4>2
    <3>3. ASSUME NEW i \in 1 .. n + 1, i + PerInterval <= n - r.sent + 1 PROVE i \in 1 .. n /\ u[i] + Second <= r.since
      <4>1. i \in 1 .. n
        BY <1>1, <1>5, <3>2, <3>3, PerBounds, SMTT(60)
      <4> QED
        BY <1>2, <1>3, <3>3, <4>1
    <3>4. ASSUME NEW i \in 1 .. n + 1, now - u[i] < Second PROVE m - i + 1 <= PerSecond
      <4>1. ~(i + PerInterval <= n - r.sent + 1)
        <5>1. u[i] \in Nat
          BY <1>6
        <5> QED
          BY <1>1, <3>3, <3>4, <5>1, PerBounds, SMTT(60)
      <4>2. m - i + 1 <= r.sent + PerInterval
        BY <1>1, <1>5, <4>1, PerBounds, SMTT(60)
      <4>3. r.sent + PerInterval <= PerSecond
        BY <1>1, <2>2, PerBounds
      <4> QED
        BY <1>1, <1>5, <4>2, <4>3, PerBounds, SMTT(60)
    <3>5. u[st] = c.since
      BY <1>2, <1>3, <2>2, <3>2
    <3> HIDE DEF st, m
    <3> QED
      BY <2>2, <3>1, <3>2, <3>3, <3>4, <3>5
  <2> QED
    BY <1>4, <2>1, <2>2
<1>9. \A i, j \in 1 .. n + 1 : i <= j /\ u[j] - u[i] < Second => j - i + 1 <= PerSecond
  <2> TAKE i, j \in 1 .. n + 1
  <2>1. CASE j = n + 1
    <3>1. now - u[i] < Second => m - i + 1 <= PerSecond
      BY <1>8
    <3>2. u[j] = now /\ j = m
      BY <1>3, <2>1
    <3> HIDE DEF m
    <3> QED
      BY <3>1, <3>2
  <2>2. CASE j \in 1 .. n
    <3>1. i <= j => i \in 1 .. n
      BY <1>1, <1>5, <2>2, SMTT(60)
    <3> QED
      BY <1>2, <1>3, <2>2, <3>1
  <2> QED
    BY <1>5, <2>1, <2>2
<1>10. Paced(u, c, now)
  <2>1. /\ u \in Seq(Nat) /\ Len(u) = m /\ now \in Nat
        /\ c.sent \in 0 .. PerInterval /\ c.sent <= m /\ c.since \in 0 .. now /\ c.sent # 0
        /\ u[st] = c.since
        /\ \A i \in 1 .. m : u[i] <= now
    BY <1>1, <1>3, <1>6, <1>8, PerBounds, SMTT(60)
  <2>2. /\ \A i \in 1 .. m : i + PerInterval <= st => u[i] + Second <= c.since
        /\ \A i, j \in 1 .. m : i <= j => u[i] <= u[j]
        /\ \A i, j \in 1 .. m : i <= j /\ u[j] - u[i] < Second => j - i + 1 <= PerSecond
    BY <1>7, <1>8, <1>9
  <2>3. st = Len(u) - c.sent + 1
    BY <2>1
  <2> HIDE DEF m, st
  <2> QED
    BY <2>1, <2>2, <2>3 DEF Paced
<1> QED
  BY <1>10 DEF u, c

-----------------------------------------------------------------------------
(* The steps.                                                              *)

\* What the filter answers at each tier.
LEMMA ForwardTiers ==
    ASSUME NEW f, NEW p, NEW d, NEW now
    PROVE  /\ f.tier = "NORMAL" => should_forward(f, p, d, now) = check_rate_limit(f.rate[p], now)
           /\ f.tier = "COARSE" => should_forward(f, p, d, now) = check_change_threshold(f.last[p], d)
           /\ f.tier = "METADATA" => ~should_forward(f, p, d, now)
  BY DEF should_forward

\* Types, in the form the steps use.
LEMMA ResolutionParts ==
    ASSUME ResolutionIInv
    PROVE  /\ filter.tier \in Tier /\ clock \in Nat /\ clock <= MaxFilterTime /\ offers \in 0 .. MaxFlushes
           /\ filter.rate \in [FilterPath -> [sent : 0 .. PerInterval, since : 0 .. clock]]
           /\ filter.last \in [FilterPath -> SUBSET FilterUpdate]
           /\ filter.pending \in SUBSET FilterPath /\ whole \in SUBSET FilterPath /\ changed \in SUBSET FilterPath
           /\ fresh \in [FilterPath -> SUBSET FilterUpdate] /\ refused \in [FilterPath -> SUBSET FilterUpdate]
           /\ value \in [FilterPath -> SUBSET FilterUpdate] /\ remote \in [FilterPath -> SUBSET FilterUpdate]
<1>1. FilterOK /\ ResolutionTypeOK
  BY DEF ResolutionIInv
<1> QED
  BY <1>1, ResolutionAssumption, SMTT(60) DEF FilterOK, ResolutionTypeOK

\* The difference of two deltas, one of which has the other.
LEMMA DriftShrinks ==
    ASSUME NEW a, NEW b, NEW c, IsFiniteSet(c), a \subseteq b, b \subseteq c
    PROVE  /\ differing_bytes(c, b) <= differing_bytes(a, c)
           /\ differing_bytes(c, b) \in Nat /\ differing_bytes(a, c) \in Nat
<1> DEFINE d == (c \ b) \cup (b \ c)
           e == (a \ c) \cup (c \ a)
<1>1. d \subseteq e /\ e \subseteq c
  OBVIOUS
<1> HIDE DEF d, e
<1>2. IsFiniteSet(e)
  BY <1>1, FS_Subset
<1>3. Cardinality(d) <= Cardinality(e) /\ IsFiniteSet(d)
  BY <1>1, <1>2, FS_Subset
<1>4. Cardinality(d) \in Nat /\ Cardinality(e) \in Nat
  BY <1>2, <1>3, FS_CardinalityType
<1> QED
  BY <1>3, <1>4 DEF differing_bytes, d, e

\* What is equal does not differ.
LEMMA NoDrift ==
    ASSUME NEW a
    PROVE  differing_bytes(a, a) = 0
<1>1. (a \ a) \cup (a \ a) = {}
  OBVIOUS
<1> QED
  BY <1>1, FS_EmptySet DEF differing_bytes

\* flush: each dirty path is forwarded or held back.
LEMMA FlushKeeps ==
    ASSUME ResolutionIInv, flush_filtered
    PROVE  ResolutionIInv'
<1> DEFINE go == Passing
           delta == Deltas
<1>1. /\ offers < MaxFlushes /\ changed' = {}
      /\ filter' = [tier    |-> filter.tier,
                    rate    |-> [p \in FilterPath |-> IF filter.tier = "NORMAL" /\ p \in go
                                                      THEN Counted(filter.rate[p], clock) ELSE filter.rate[p]],
                    last    |-> [p \in FilterPath |-> IF filter.tier = "COARSE" /\ p \in go
                                                      THEN delta[p] ELSE filter.last[p]],
                    pending |-> IF filter.tier = "METADATA" THEN filter.pending \cup changed ELSE filter.pending]
      /\ remote' = [p \in FilterPath |-> IF p \in go THEN remote[p] \cup delta[p] ELSE remote[p]]
      /\ times' = [p \in FilterPath |-> IF p \in go THEN Append(times[p], clock) ELSE times[p]]
      /\ fresh' = [p \in FilterPath |-> {}]
      /\ refused' = [p \in FilterPath |-> IF p \in go THEN refused[p] \ delta[p]
                                          ELSE refused[p] \cup (fresh[p] \ remote[p])]
      /\ offers' = offers + 1 /\ value' = value /\ clock' = clock /\ whole' = whole
  BY DEF flush_filtered, remember, Passing
<1>2. /\ filter.tier \in Tier /\ clock \in Nat /\ clock <= MaxFilterTime /\ offers \in 0 .. MaxFlushes
      /\ filter.rate \in [FilterPath -> [sent : 0 .. PerInterval, since : 0 .. clock]]
      /\ filter.last \in [FilterPath -> SUBSET FilterUpdate]
      /\ filter.pending \in SUBSET FilterPath /\ whole \in SUBSET FilterPath /\ changed \in SUBSET FilterPath
      /\ fresh \in [FilterPath -> SUBSET FilterUpdate] /\ refused \in [FilterPath -> SUBSET FilterUpdate]
      /\ value \in [FilterPath -> SUBSET FilterUpdate] /\ remote \in [FilterPath -> SUBSET FilterUpdate]
  BY ResolutionParts
<1>3. /\ go \in SUBSET FilterPath /\ go \in SUBSET changed
      /\ filter.tier = "NORMAL" => \A p \in go : check_rate_limit(filter.rate[p], clock)
      /\ filter.tier = "COARSE" => \A p \in changed \ go : ~check_change_threshold(filter.last[p], delta[p])
  BY <1>2, ForwardTiers DEF Passing
<1>a. \A p \in FilterPath : delta[p] = IF p \in whole THEN value[p] ELSE fresh[p]
  BY DEF Deltas
<1>b. \A p \in FilterPath : /\ value[p] = remote[p] \cup refused[p] \cup fresh[p]
                            /\ remote[p] \cap refused[p] = {}
                            /\ p \notin whole => fresh[p] \cap (remote[p] \cup refused[p]) = {}
  BY DEF ResolutionIInv, RefusedAndMissing
<1>c. \A p \in FilterPath : delta[p] \subseteq value[p] /\ fresh[p] \subseteq delta[p] /\ delta[p] \in SUBSET FilterUpdate
  BY <1>2, <1>a, <1>b
<1> HIDE DEF go, delta
<1>4. /\ filter'.tier = filter.tier
      /\ filter'.rate = [p \in FilterPath |-> IF filter.tier = "NORMAL" /\ p \in go
                                              THEN Counted(filter.rate[p], clock) ELSE filter.rate[p]]
      /\ filter'.last = [p \in FilterPath |-> IF filter.tier = "COARSE" /\ p \in go THEN delta[p] ELSE filter.last[p]]
      /\ filter'.pending = IF filter.tier = "METADATA" THEN filter.pending \cup changed ELSE filter.pending
  BY <1>1
<1>5. TimesOK'
  <2> SUFFICES ASSUME filter.tier = "NORMAL", NEW p \in FilterPath
               PROVE  Paced(times'[p], filter'.rate[p], clock)
    BY <1>1, <1>4 DEF TimesOK
  <2>1. Paced(times[p], filter.rate[p], clock)
    BY DEF ResolutionIInv, TimesOK
  <2>2. CASE p \in go
    <3>1. Paced(Append(times[p], clock), Counted(filter.rate[p], clock), clock)
      BY <1>3, <2>1, <2>2, PacedNext
    <3>2. times'[p] = Append(times[p], clock) /\ filter'.rate[p] = Counted(filter.rate[p], clock)
      BY <1>1, <1>4, <2>2
    <3> QED
      BY <3>1, <3>2
  <2>3. CASE p \notin go
    BY <1>1, <1>4, <2>1, <2>3
  <2> QED
    BY <2>2, <2>3
<1>6. filter'.rate \in [FilterPath -> [sent : 0 .. PerInterval, since : 0 .. clock]]
  <2>1. ASSUME NEW p \in FilterPath
        PROVE  (IF filter.tier = "NORMAL" /\ p \in go THEN Counted(filter.rate[p], clock) ELSE filter.rate[p])
                 \in [sent : 0 .. PerInterval, since : 0 .. clock]
    <3>1. CASE filter.tier = "NORMAL" /\ p \in go
      <4>1. Paced(times[p], filter.rate[p], clock)
        BY <3>1 DEF ResolutionIInv, TimesOK
      <4>2. Paced(Append(times[p], clock), Counted(filter.rate[p], clock), clock)
        BY <1>3, <3>1, <4>1, PacedNext
      <4>3. \E s, t : Counted(filter.rate[p], clock) = [sent |-> s, since |-> t]
        BY DEF Counted
      <4>4. Counted(filter.rate[p], clock).sent \in 0 .. PerInterval /\ Counted(filter.rate[p], clock).since \in 0 .. clock
        BY <4>2 DEF Paced
      <4>5. Counted(filter.rate[p], clock) \in [sent : 0 .. PerInterval, since : 0 .. clock]
        BY <4>3, <4>4
      <4> QED
        BY <3>1, <4>5
    <3>2. CASE ~(filter.tier = "NORMAL" /\ p \in go)
      BY <1>2, <3>2
    <3> QED
      BY <3>1, <3>2
  <2> QED
    BY <1>4, <2>1
<1>7. filter'.last \in [FilterPath -> SUBSET FilterUpdate] /\ filter'.pending \in SUBSET FilterPath
  BY <1>2, <1>4, <1>c
<1>8. FilterOK'
  BY <1>1, <1>2, <1>4, <1>6, <1>7 DEF FilterOK
<1>9. ResolutionTypeOK'
  <2>1. remote' \in [FilterPath -> SUBSET FilterUpdate]
    BY <1>1, <1>2, <1>c
  <2>2. offers' \in 0 .. MaxFlushes
    BY <1>1, <1>2, ResolutionAssumption, SMTT(60)
  <2>3. fresh' \in [FilterPath -> SUBSET FilterUpdate] /\ refused' \in [FilterPath -> SUBSET FilterUpdate]
    BY <1>1, <1>2
  <2> QED
    BY <1>1, <1>2, <1>4, <1>6, <1>7, <2>1, <2>2, <2>3, ResolutionAssumption, SMTT(60) DEF ResolutionTypeOK, PerInterval
<1>10. \A p \in FilterPath : IsFiniteSet(value[p]) /\ remote[p] \subseteq value[p] /\ filter.last[p] \subseteq remote[p]
  BY DEF ResolutionIInv, ValuesOK
<1>11. \A p \in FilterPath : remote'[p] = IF p \in go THEN remote[p] \cup delta[p] ELSE remote[p]
  BY <1>1
<1>12. \A p \in FilterPath : filter'.last[p] = IF filter.tier = "COARSE" /\ p \in go THEN delta[p] ELSE filter.last[p]
  BY <1>4
<1>13. ValuesOK'
  <2> SUFFICES ASSUME NEW p \in FilterPath
               PROVE  IsFiniteSet(value[p]) /\ remote'[p] \subseteq value[p] /\ filter'.last[p] \subseteq remote'[p]
    BY <1>1 DEF ValuesOK
  <2> QED
    BY <1>10, <1>11, <1>12, <1>c
<1>14. CoarseDriftBounded'
  <2> SUFFICES ASSUME filter.tier = "COARSE", NEW p \in whole, filter'.last[p] # {}, MinChange # 0
               PROVE  differing_bytes(value[p], remote'[p]) < MinChange
    BY <1>1, <1>4 DEF CoarseDriftBounded
  <2>0. p \in FilterPath /\ delta[p] = value[p] /\ remote[p] \cup value[p] = value[p]
    BY <1>2, <1>10, <1>a
  <2>1. MinChange \in Nat /\ MinChange > 0
    BY FilterAssumption, SMTT(60)
  <2>2. CASE p \in go
    BY <1>11, <2>0, <2>1, <2>2, NoDrift
  <2>3. CASE p \in changed \ go
    <3>1. ~(differing_bytes(filter.last[p], value[p]) >= MinChange)
      BY <1>3, <2>0, <2>3 DEF check_change_threshold
    <3>2. /\ differing_bytes(value[p], remote[p]) <= differing_bytes(filter.last[p], value[p])
          /\ differing_bytes(value[p], remote[p]) \in Nat /\ differing_bytes(filter.last[p], value[p]) \in Nat
      BY <1>10, <2>0, DriftShrinks
    <3>3. remote'[p] = remote[p]
      BY <1>11, <2>0, <2>3
    <3> QED
      BY <2>1, <3>1, <3>2, <3>3, SMTT(60)
  <2>4. CASE p \notin changed
    <3>1. p \notin go
      BY <1>3, <2>4
    <3>2. filter.last[p] # {}
      BY <1>12, <2>0, <3>1
    <3>3. differing_bytes(value[p], remote[p]) < MinChange
      BY <2>4, <3>2 DEF ResolutionIInv, CoarseDriftBounded
    <3> QED
      BY <1>11, <2>0, <3>1, <3>3
  <2> QED
    BY <2>2, <2>3, <2>4
<1>15. RefusedAndMissing'
  <2> SUFFICES ASSUME NEW p \in FilterPath
               PROVE  /\ value[p] = remote'[p] \cup refused'[p] \cup fresh'[p]
                      /\ remote'[p] \cap refused'[p] = {}
                      /\ fresh'[p] = {}
    BY <1>1 DEF RefusedAndMissing
  <2>1. fresh'[p] = {}
    BY <1>1
  <2>2. CASE p \in go
    <3>1. remote'[p] = remote[p] \cup delta[p] /\ refused'[p] = refused[p] \ delta[p]
      BY <1>1, <2>2
    <3> QED
      BY <1>b, <1>c, <2>1, <3>1
  <2>3. CASE p \notin go
    <3>1. remote'[p] = remote[p] /\ refused'[p] = refused[p] \cup (fresh[p] \ remote[p])
      BY <1>1, <2>3
    <3> QED
      BY <1>b, <2>1, <3>1
  <2> QED
    BY <2>2, <2>3
<1>16. times' = [p \in FilterPath |-> times'[p]]
  BY <1>1
<1> QED
  BY <1>5, <1>8, <1>9, <1>13, <1>14, <1>15, <1>16 DEF ResolutionIInv

\* A change of a path makes it dirty.
LEMMA UpdateKeeps ==
    ASSUME ResolutionIInv, NEW p \in FilterPath, NEW u \in FilterUpdate, Update(p, u)
    PROVE  ResolutionIInv'
<1>1. /\ p \in whole \/ u \notin value[p]
      /\ value' = [value EXCEPT ![p] = @ \cup {u}] /\ changed' = changed \cup {p}
      /\ fresh' = [fresh EXCEPT ![p] = @ \cup {u}]
      /\ UNCHANGED <<whole, filter, remote, clock, times, refused, offers>>
  BY DEF Update
<1>2. value \in [FilterPath -> SUBSET FilterUpdate] /\ fresh \in [FilterPath -> SUBSET FilterUpdate] /\ whole \in SUBSET FilterPath
  BY ResolutionParts
<1>3. /\ value' \in [FilterPath -> SUBSET FilterUpdate] /\ value'[p] = value[p] \cup {u}
      /\ fresh' \in [FilterPath -> SUBSET FilterUpdate] /\ fresh'[p] = fresh[p] \cup {u}
      /\ \A q \in FilterPath : q # p => value'[q] = value[q] /\ fresh'[q] = fresh[q]
  BY <1>1, <1>2
<1>4. ResolutionTypeOK' /\ FilterOK'
  BY <1>1, <1>3 DEF ResolutionIInv, ResolutionTypeOK, FilterOK
<1>5. ValuesOK'
  <2> SUFFICES ASSUME NEW q \in FilterPath
               PROVE  IsFiniteSet(value'[q]) /\ remote[q] \subseteq value'[q] /\ filter.last[q] \subseteq remote[q]
    BY <1>1 DEF ValuesOK
  <2>1. IsFiniteSet(value[q]) /\ remote[q] \subseteq value[q] /\ filter.last[q] \subseteq remote[q]
    BY DEF ResolutionIInv, ValuesOK
  <2>2. IsFiniteSet(value[q] \cup {u})
    BY <2>1, FS_AddElement
  <2>3. value'[q] = value[q] \/ value'[q] = value[q] \cup {u}
    BY <1>3
  <2> QED
    BY <2>1, <2>2, <2>3
<1>6. TimesOK' /\ times' = [q \in FilterPath |-> times'[q]]
  BY <1>1 DEF ResolutionIInv, TimesOK
<1>8. RefusedAndMissing'
  <2> SUFFICES ASSUME NEW q \in FilterPath
               PROVE  /\ value'[q] = remote[q] \cup refused[q] \cup fresh'[q]
                      /\ remote[q] \cap refused[q] = {}
                      /\ q \notin whole => fresh'[q] \cap (remote[q] \cup refused[q]) = {}
    BY <1>1 DEF RefusedAndMissing
  <2>1. /\ value[q] = remote[q] \cup refused[q] \cup fresh[q]
        /\ remote[q] \cap refused[q] = {}
        /\ q \notin whole => fresh[q] \cap (remote[q] \cup refused[q]) = {}
    BY DEF ResolutionIInv, RefusedAndMissing
  <2>2. CASE q = p
    <3>1. value'[q] = value[q] \cup {u} /\ fresh'[q] = fresh[q] \cup {u}
      BY <1>3, <2>2
    <3>2. q \notin whole => u \notin remote[q] \cup refused[q]
      BY <1>1, <2>1, <2>2
    <3>3. value'[q] = remote[q] \cup refused[q] \cup fresh'[q]
      BY <2>1, <3>1
    <3>4. q \notin whole => fresh'[q] \cap (remote[q] \cup refused[q]) = {}
      BY <2>1, <3>1, <3>2
    <3> QED
      BY <2>1, <3>3, <3>4
  <2>3. CASE q # p
    BY <1>3, <2>1, <2>3
  <2> QED
    BY <2>2, <2>3
<1>7. CoarseDriftBounded'
  <2>1. \A q \in whole \ changed' : q \in whole \ changed /\ value'[q] = value[q]
    BY <1>1, <1>2, <1>3
  <2> QED
    BY <1>1, <2>1 DEF ResolutionIInv, CoarseDriftBounded
<1> QED
  BY <1>4, <1>5, <1>6, <1>7, <1>8 DEF ResolutionIInv

\* The other end is told that there is a newer version.
LEMMA VersionKeeps ==
    ASSUME ResolutionIInv, NEW p \in FilterPath, should_send_version_info(p)
    PROVE  ResolutionIInv'
<1>1. /\ filter.tier = "METADATA" /\ filter' = [filter EXCEPT !.pending = @ \ {p}]
      /\ UNCHANGED <<whole, value, changed, fresh, remote, clock, times, refused, offers>>
  BY DEF should_send_version_info
<1>2. FilterOK /\ RefusedAndMissing /\ ValuesOK /\ ResolutionTypeOK
  BY DEF ResolutionIInv
<1>3. /\ filter'.tier = "METADATA" /\ filter'.rate = filter.rate /\ filter'.last = filter.last
      /\ filter'.pending = filter.pending \ {p} /\ FilterOK'
  BY <1>1, <1>2 DEF FilterOK
<1>4. ResolutionTypeOK'
  BY <1>1, <1>2, <1>3 DEF ResolutionTypeOK
<1>5. ValuesOK' /\ TimesOK' /\ CoarseDriftBounded' /\ RefusedAndMissing'
  BY <1>1, <1>2, <1>3 DEF ValuesOK, TimesOK, CoarseDriftBounded, RefusedAndMissing
<1> QED
  BY <1>1, <1>3, <1>4, <1>5 DEF ResolutionIInv

\* A new filter has sent nothing and holds nothing back.
LEMMA NewFilterKeeps ==
    ASSUME ResolutionIInv, NEW tier \in Tier, set_connection_resolution(tier)
    PROVE  ResolutionIInv'
<1>1. /\ filter' = NewFilter(tier) /\ times' = [p \in FilterPath |-> <<>>]
      /\ UNCHANGED <<whole, value, changed, fresh, remote, clock, refused, offers>>
  BY DEF set_connection_resolution
<1>2. FilterOK /\ ValuesOK /\ ResolutionTypeOK /\ RefusedAndMissing /\ clock \in Nat
  BY ResolutionParts DEF ResolutionIInv
<1>3. /\ filter'.tier = tier /\ filter'.rate = [p \in FilterPath |-> [sent |-> 0, since |-> 0]]
      /\ filter'.last = [p \in FilterPath |-> {}] /\ filter'.pending = {}
      /\ filter' = [tier |-> tier, rate |-> filter'.rate, last |-> filter'.last, pending |-> filter'.pending]
  BY <1>1 DEF NewFilter
<1>4. filter'.rate \in [FilterPath -> [sent : 0 .. PerInterval, since : 0 .. clock]]
  BY <1>2, <1>3, PerBounds, SMTT(60)
<1>5. FilterOK'
  BY <1>1, <1>3, <1>4 DEF FilterOK
<1>6. ResolutionTypeOK'
  BY <1>1, <1>2, <1>3, <1>4 DEF ResolutionTypeOK, PerInterval
<1>7. TimesOK'
  <2>1. \A p \in FilterPath : times'[p] = <<>> /\ filter'.rate[p] = [sent |-> 0, since |-> 0]
    BY <1>1, <1>3
  <2>2. Paced(<<>>, [sent |-> 0, since |-> 0], clock)
    BY <1>2, PacedNew
  <2> QED
    BY <1>1, <2>1, <2>2 DEF TimesOK
<1>8. ValuesOK' /\ CoarseDriftBounded' /\ RefusedAndMissing'
  <2>1. \A p \in whole : filter'.last[p] = {}
    BY <1>2, <1>3 DEF ResolutionTypeOK
  <2> QED
    BY <1>1, <1>2, <1>3, <2>1 DEF ValuesOK, CoarseDriftBounded, RefusedAndMissing
<1> QED
  BY <1>1, <1>5, <1>6, <1>7, <1>8 DEF ResolutionIInv

\* Time passes.
LEMMA ClockKeeps ==
    ASSUME ResolutionIInv, FilterClock
    PROVE  ResolutionIInv'
<1>1. /\ clock < MaxFilterTime /\ clock' = clock + 1
      /\ UNCHANGED <<whole, filter, value, changed, fresh, remote, times, refused, offers>>
  BY DEF FilterClock
<1>2. FilterOK /\ ValuesOK /\ ResolutionTypeOK /\ TimesOK
  BY DEF ResolutionIInv
<1>3. clock \in Nat /\ filter.rate \in [FilterPath -> [sent : 0 .. PerInterval, since : 0 .. clock]]
  BY ResolutionParts
<1>4. filter.rate \in [FilterPath -> [sent : 0 .. PerInterval, since : 0 .. clock + 1]]
  <2>1. \A p \in FilterPath : filter.rate[p] \in [sent : 0 .. PerInterval, since : 0 .. clock + 1]
    <3>1. \A x \in 0 .. clock : x \in 0 .. clock + 1
      BY <1>3, SMTT(60)
    <3> QED
      BY <1>3, <3>1
  <2> QED
    BY <1>3, <2>1
<1>5. FilterOK'
  BY <1>1, <1>2, <1>4 DEF FilterOK
<1>6. ResolutionTypeOK'
  <2>1. clock + 1 \in 0 .. MaxFilterTime
    BY <1>1, <1>3, ResolutionAssumption, SMTT(60)
  <2> QED
    BY <1>1, <1>2, <1>4, <2>1 DEF ResolutionTypeOK, PerInterval
<1>7. TimesOK'
  BY <1>1, <1>2, PacedLater DEF TimesOK
<1>8. ValuesOK' /\ CoarseDriftBounded' /\ RefusedAndMissing' /\ times' = [p \in FilterPath |-> times'[p]]
  BY <1>1 DEF ResolutionIInv, ValuesOK, CoarseDriftBounded, RefusedAndMissing
<1> QED
  BY <1>5, <1>6, <1>7, <1>8 DEF ResolutionIInv

\* A filtered connection, for all paths, rates, thresholds and seconds: what
\* flush holds back of registers and counters at COARSE is bounded, the other
\* end lacks only what is not collected or was refused, for an OR-Set for good,
\* and a second at NORMAL sees at most 2N - 1 deltas of a path.
THEOREM ResolutionCorrect == ResolutionSpec => []ResolutionInv
<1>1. ResolutionInit => ResolutionIInv
  <2> SUFFICES ASSUME ResolutionInit PROVE ResolutionIInv
    OBVIOUS
  <2>1. PICK tier \in Tier : filter = NewFilter(tier)
    BY DEF ResolutionInit
  <2>2. /\ filter.tier = tier /\ filter.rate = [p \in FilterPath |-> [sent |-> 0, since |-> 0]]
        /\ filter.last = [p \in FilterPath |-> {}] /\ filter.pending = {}
        /\ filter = [tier |-> tier, rate |-> filter.rate, last |-> filter.last, pending |-> filter.pending]
    BY <2>1 DEF NewFilter
  <2>3. /\ value = [p \in FilterPath |-> {}] /\ changed = {} /\ remote = [p \in FilterPath |-> {}]
        /\ clock = 0 /\ times = [p \in FilterPath |-> <<>>] /\ offers = 0 /\ whole \in SUBSET FilterPath
        /\ fresh = [p \in FilterPath |-> {}] /\ refused = [p \in FilterPath |-> {}]
    BY DEF ResolutionInit
  <2>4. filter.rate \in [FilterPath -> [sent : 0 .. PerInterval, since : 0 .. clock]]
    BY <2>2, <2>3, PerBounds, SMTT(60)
  <2>5. FilterOK
    BY <2>2, <2>4 DEF FilterOK
  <2>6. ResolutionTypeOK
    BY <2>2, <2>3, <2>4, ResolutionAssumption, SMTT(60) DEF ResolutionTypeOK, PerInterval
  <2>7. TimesOK
    <3>1. \A p \in FilterPath : times[p] = <<>> /\ filter.rate[p] = [sent |-> 0, since |-> 0]
      BY <2>2, <2>3
    <3>2. Paced(<<>>, [sent |-> 0, since |-> 0], clock)
      BY <2>3, PacedNew
    <3> QED
      BY <3>1, <3>2 DEF TimesOK
  <2>8. ValuesOK
    <3>1. \A p \in FilterPath : value[p] = {} /\ remote[p] = {} /\ filter.last[p] = {}
      BY <2>2, <2>3
    <3> QED
      BY <3>1, FS_EmptySet DEF ValuesOK
  <2>9. CoarseDriftBounded /\ RefusedAndMissing
    <3>1. \A p \in FilterPath : value[p] = {} /\ remote[p] = {} /\ refused[p] = {} /\ fresh[p] = {} /\ filter.last[p] = {}
      BY <2>2, <2>3
    <3>2. \A p \in whole : filter.last[p] = {}
      BY <2>3, <3>1
    <3> QED
      BY <3>1, <3>2 DEF CoarseDriftBounded, RefusedAndMissing
  <2> QED
    BY <2>3, <2>5, <2>6, <2>7, <2>8, <2>9 DEF ResolutionIInv
<1>2. ResolutionIInv /\ [ResolutionNext]_resolutionVars => ResolutionIInv'
  <2> SUFFICES ASSUME ResolutionIInv, [ResolutionNext]_resolutionVars
               PROVE  ResolutionIInv'
    OBVIOUS
  <2>1. CASE FilterClock
    BY <2>1, ClockKeeps
  <2>2. CASE flush_filtered
    BY <2>2, FlushKeeps
  <2>3. ASSUME NEW p \in FilterPath, should_send_version_info(p) PROVE ResolutionIInv'
    BY <2>3, VersionKeeps
  <2>4. ASSUME NEW p \in FilterPath, NEW u \in FilterUpdate, Update(p, u) PROVE ResolutionIInv'
    BY <2>4, UpdateKeeps
  <2>5. ASSUME NEW tier \in Tier, set_connection_resolution(tier) PROVE ResolutionIInv'
    BY <2>5, NewFilterKeeps
  <2>6. CASE UNCHANGED resolutionVars
    <3>1. UNCHANGED <<whole, filter, value, changed, fresh, remote, clock, times, refused, offers>>
      BY <2>6 DEF resolutionVars
    <3>2. ResolutionTypeOK' /\ FilterOK'
      BY <3>1 DEF ResolutionIInv, ResolutionTypeOK, FilterOK
    <3>3. ValuesOK' /\ TimesOK' /\ CoarseDriftBounded' /\ RefusedAndMissing'
      BY <3>1 DEF ResolutionIInv, ValuesOK, TimesOK, CoarseDriftBounded, RefusedAndMissing
    <3> QED
      BY <3>1, <3>2, <3>3 DEF ResolutionIInv
  <2> QED
    BY <2>1, <2>2, <2>3, <2>4, <2>5, <2>6 DEF ResolutionNext
<1>3. ResolutionIInv => ResolutionInv
  <2> SUFFICES ASSUME ResolutionIInv PROVE RateBounded
    BY DEF ResolutionIInv, ResolutionInv
  <2> SUFFICES ASSUME filter.tier = "NORMAL", NEW p \in FilterPath, NEW i \in DOMAIN times[p], NEW j \in DOMAIN times[p],
                      i <= j, times[p][j] - times[p][i] < Second
               PROVE  j - i + 1 <= PerSecond
    BY DEF RateBounded, PerSecond
  <2>1. Paced(times[p], filter.rate[p], clock)
    BY DEF ResolutionIInv, TimesOK
  <2> DEFINE t == times[p]
  <2>2. /\ t \in Seq(Nat) /\ i \in DOMAIN t /\ j \in DOMAIN t /\ t[j] - t[i] < Second
        /\ \A a, b \in 1 .. Len(t) : a <= b /\ t[b] - t[a] < Second => b - a + 1 <= PerSecond
    BY <2>1 DEF Paced
  <2> HIDE DEF t
  <2>3. i \in 1 .. Len(t) /\ j \in 1 .. Len(t)
    BY <2>2, SMTT(60)
  <2> QED
    BY <2>2, <2>3
<1> QED
  BY <1>1, <1>2, <1>3, PTL DEF ResolutionSpec

-----------------------------------------------------------------------------
(***************************************************************************)
(* Relay: an aggregating relay forwards everything it has received.        *)
(***************************************************************************)

\* What the forward queue holds.
Forwarded == FilterPath \X ((SUBSET RelayUpdate) \ {{}})

\* What RelayInv needs to be inductive: an open bucket has an update, and the
\* queue is a sequence.
RelayIInv ==
    /\ RelayTypeOK /\ RelayAccountsForAll
    /\ forward_queue \in Seq(Forwarded)
    /\ \A p \in FilterPath : buckets[p].count > 0 => buckets[p].data # {}

-----------------------------------------------------------------------------

\* Every path of a finite set has its place in the order.
LEMMA OrderCovers ==
    ASSUME NEW ps, IsFiniteSet(ps)
    PROVE  /\ Cardinality(ps) \in Nat /\ InSomeOrder(ps) \in [1 .. Cardinality(ps) -> ps]
           /\ \A p \in ps : \E i \in 1 .. Cardinality(ps) : InSomeOrder(ps)[i] = p
<1> DEFINE Q == [1 .. Cardinality(ps) -> ps]
           Covers(q) == \A p \in ps : \E i \in DOMAIN q : q[i] = p
<1>1. Cardinality(ps) \in Nat /\ ExistsBijection(1 .. Cardinality(ps), ps)
  BY FS_CardinalityType
<1>2. \E q \in Q : Covers(q)
  BY <1>1 DEF ExistsBijection, Bijection, Injection, Surjection, IsInjective
<1>3. InSomeOrder(ps) = CHOOSE q \in Q : Covers(q)
  BY DEF InSomeOrder
<1> HIDE DEF Q, Covers
<1>4. InSomeOrder(ps) \in Q /\ Covers(InSomeOrder(ps))
  BY <1>2, <1>3
<1> QED
  BY <1>1, <1>4 DEF Q, Covers

\* What two queues in a row hold of a path.
LEMMA DataInBoth ==
    ASSUME NEW S, NEW a \in Seq(S), NEW b \in Seq(S), NEW p
    PROVE  a \o b \in Seq(S) /\ DataIn(a \o b, p) = DataIn(a, p) \cup DataIn(b, p)
<1> DEFINE c == a \o b
<1>1. /\ c \in Seq(S) /\ Len(a) \in Nat /\ Len(b) \in Nat /\ DOMAIN c = 1 .. Len(a) + Len(b)
      /\ DOMAIN a = 1 .. Len(a) /\ DOMAIN b = 1 .. Len(b)
      /\ \A i \in 1 .. Len(a) : c[i] = a[i]
      /\ \A i \in Len(a) + 1 .. Len(a) + Len(b) : c[i] = b[i - Len(a)]
  BY SMTT(60)
<1>2. \A i \in DOMAIN a : i \in DOMAIN c /\ c[i] = a[i]
  BY <1>1, SMTT(60)
<1>3. \A i \in DOMAIN b : Len(a) + i \in DOMAIN c /\ c[Len(a) + i] = b[i]
  <2> TAKE i \in DOMAIN b
  <2>1. Len(a) + i \in Len(a) + 1 .. Len(a) + Len(b) /\ (Len(a) + i) - Len(a) = i /\ Len(a) + i \in 1 .. Len(a) + Len(b)
    BY <1>1, SMTT(60)
  <2> HIDE DEF c
  <2> QED
    BY <1>1, <2>1
<1>4. \A i \in DOMAIN c : (i \in DOMAIN a /\ c[i] = a[i]) \/ (i - Len(a) \in DOMAIN b /\ c[i] = b[i - Len(a)])
  <2> TAKE i \in DOMAIN c
  <2> HIDE DEF c
  <2>1. CASE i \in 1 .. Len(a)
    BY <1>1, <2>1
  <2>2. CASE i \notin 1 .. Len(a)
    <3>1. i \in Len(a) + 1 .. Len(a) + Len(b) /\ i - Len(a) \in 1 .. Len(b)
      BY <1>1, <2>2, SMTT(60)
    <3> QED
      BY <1>1, <3>1
  <2> QED
    BY <2>1, <2>2
<1> HIDE DEF c
<1>5. \A x : x \in DataIn(c, p) <=> x \in DataIn(a, p) \/ x \in DataIn(b, p)
  <2>1. \A q, x : x \in DataIn(q, p) <=> \E i \in DOMAIN q : q[i][1] = p /\ x \in q[i][2]
    BY DEF DataIn
  <2> TAKE x
  <2>2. ASSUME NEW i \in DOMAIN c, c[i][1] = p, x \in c[i][2]
        PROVE  (\E j \in DOMAIN a : a[j][1] = p /\ x \in a[j][2]) \/ (\E j \in DOMAIN b : b[j][1] = p /\ x \in b[j][2])
    BY <1>4, <2>2
  <2>3. ASSUME NEW i \in DOMAIN a, a[i][1] = p, x \in a[i][2]
        PROVE  \E j \in DOMAIN c : c[j][1] = p /\ x \in c[j][2]
    BY <1>2, <2>3
  <2>4. ASSUME NEW i \in DOMAIN b, b[i][1] = p, x \in b[i][2]
        PROVE  \E j \in DOMAIN c : c[j][1] = p /\ x \in c[j][2]
    BY <1>3, <2>4
  <2> QED
    BY <2>1, <2>2, <2>3, <2>4
<1>6. DataIn(c, p) = DataIn(a, p) \cup DataIn(b, p)
  BY <1>5
<1> QED
  BY <1>1, <1>6 DEF c

\* h is a relay whose buckets of ps can be flushed; the others are in B.
Flushable(h, ps, B) ==
    /\ h.queue \in Seq(Forwarded) /\ h.withheld \in [FilterPath -> SUBSET RelayUpdate]
    /\ \A p \in FilterPath : h.buckets[p].data \in SUBSET RelayUpdate
    /\ ps \in SUBSET FilterPath /\ \A p \in ps : h.buckets[p].data # {}
    /\ NoBucket \in B /\ \A p \in FilterPath \ ps : h.buckets[p] \in B

\* Flushing buckets moves what they hold of each path to the queue or to what
\* is withheld.
LEMMA FlushMoves ==
    ASSUME NEW h, NEW ps, NEW B, Flushable(h, ps, B), NEW g, g = flush_buckets(h, ps)
    PROVE  /\ g.buckets \in [FilterPath -> B]
           /\ \A p \in FilterPath : g.buckets[p] = IF p \in ps THEN NoBucket ELSE h.buckets[p]
           /\ g.queue \in Seq(Forwarded) /\ g.withheld \in [FilterPath -> SUBSET RelayUpdate]
           /\ \A p \in FilterPath :
                  g.buckets[p].data \cup DataIn(g.queue, p) \cup g.withheld[p]
                    = h.buckets[p].data \cup DataIn(h.queue, p) \cup h.withheld[p]
<1> DEFINE b == h.buckets
           q == h.queue
           wh == h.withheld
           data == [p \in FilterPath |-> h.buckets[p].data]
           full == relay_config.tier = "FULL"
           out == {p \in ps : full \/ should_forward(h.filter, p, data[p], 0)}
           order == InSomeOrder(out)
           more == [i \in DOMAIN order |-> <<order[i], data[order[i]]>>]
           n == Cardinality(out)
<1>1. /\ g.buckets = [p \in FilterPath |-> IF p \in ps THEN NoBucket ELSE h.buckets[p]]
      /\ g.queue = h.queue \o more
      /\ g.withheld = [p \in FilterPath |-> IF p \in ps \ out THEN h.withheld[p] \cup data[p] ELSE h.withheld[p]]
  BY DEF flush_buckets
<1>2. /\ h.buckets = b /\ h.queue = q /\ h.withheld = wh
      /\ q \in Seq(Forwarded) /\ wh \in [FilterPath -> SUBSET RelayUpdate]
      /\ \A p \in FilterPath : b[p].data \in SUBSET RelayUpdate
      /\ \A p \in ps : b[p].data # {}
      /\ ps \in SUBSET FilterPath /\ NoBucket \in B /\ \A p \in FilterPath \ ps : b[p] \in B
  BY DEF Flushable
<1>3. \A p \in FilterPath : data[p] = b[p].data
  BY <1>2
<1>4. out \subseteq ps
  OBVIOUS
<1>5. IsFiniteSet(out)
  BY <1>2, <1>4, RelayAssumption, FS_Subset
<1> HIDE DEF data, full, out, b, q, wh
<1>6. /\ n \in Nat /\ order \in [1 .. n -> out]
      /\ \A p \in out : \E i \in 1 .. n : order[i] = p
  BY <1>5, OrderCovers
<1> HIDE DEF order, n
<1>7. /\ DOMAIN more = 1 .. n
      /\ \A i \in 1 .. n : more[i] = <<order[i], b[order[i]].data>> /\ order[i] \in out
  BY <1>2, <1>3, <1>4, <1>6
<1> HIDE DEF more
<1>8. more \in Seq(Forwarded)
  <2>1. \A i \in 1 .. n : more[i] \in Forwarded
    <3> TAKE i \in 1 .. n
    <3> DEFINE o == order[i]
    <3>1. o \in ps /\ o \in FilterPath /\ more[i] = <<o, b[o].data>>
      BY <1>2, <1>4, <1>7
    <3> HIDE DEF o
    <3> DEFINE d == b[o].data
               D == (SUBSET RelayUpdate) \ {{}}
    <3>2. d \in SUBSET RelayUpdate /\ d # {}
      BY <1>2, <3>1
    <3>3. <<o, d>> \in FilterPath \X D
      <4>1. d \in D
        <5> HIDE DEF d
        <5> QED
          BY <3>2
      <4> HIDE DEF d, D
      <4> QED
        BY <3>1, <4>1
    <3> QED
      BY <3>1, <3>3 DEF Forwarded
  <2>2. more = [i \in 1 .. n |-> more[i]]
    BY <1>7 DEF more
  <2> QED
    BY <1>6, <2>1, <2>2, SMTT(60)
<1>9. \A p \in FilterPath : g.queue \in Seq(Forwarded) /\ DataIn(g.queue, p) = DataIn(q, p) \cup DataIn(more, p)
  <2> TAKE p \in FilterPath
  <2>1. q \o more \in Seq(Forwarded) /\ DataIn(q \o more, p) = DataIn(q, p) \cup DataIn(more, p)
    BY <1>2, <1>8, DataInBoth, SMTT(60)
  <2> QED
    BY <1>1, <1>2, <2>1
<1>10. \A p : DataIn(more, p) = IF p \in out THEN b[p].data ELSE {}
  <2> TAKE p
  <2>1. \A x : x \in DataIn(more, p) <=> \E i \in 1 .. n : order[i] = p /\ x \in b[order[i]].data
    <3>1. \A x : x \in DataIn(more, p) <=> \E i \in DOMAIN more : more[i][1] = p /\ x \in more[i][2]
      BY DEF DataIn
    <3>2. \A i \in 1 .. n : more[i][1] = order[i] /\ more[i][2] = b[order[i]].data
      BY <1>7, SMTT(60)
    <3> QED
      BY <1>7, <3>1, <3>2, SMTT(60)
  <2>2. CASE p \in out
    <3>1. \A x : x \in DataIn(more, p) <=> x \in b[p].data
      BY <1>6, <2>1, <2>2
    <3> QED
      BY <2>2, <3>1
  <2>3. CASE p \notin out
    BY <1>6, <2>1, <2>3, SMTT(60)
  <2> QED
    BY <2>2, <2>3
<1>11. g.withheld = [p \in FilterPath |-> IF p \in ps \ out THEN wh[p] \cup b[p].data ELSE wh[p]]
  BY <1>1, <1>2, <1>3
<1>12. g.queue \in Seq(Forwarded)
  <2>1. q \o more \in Seq(Forwarded)
    BY <1>2, <1>8, SMTT(60)
  <2> QED
    BY <1>1, <1>2, <2>1
<1>13. g.withheld \in [FilterPath -> SUBSET RelayUpdate]
  BY <1>2, <1>11
<1>14. ASSUME NEW p \in FilterPath
       PROVE  g.buckets[p].data \cup DataIn(g.queue, p) \cup g.withheld[p] = b[p].data \cup DataIn(q, p) \cup wh[p]
  <2>1. NoBucket.data = {}
    BY DEF NoBucket
  <2>2. g.buckets[p].data = IF p \in ps THEN {} ELSE b[p].data
    BY <1>1, <1>2, <2>1
  <2>3. g.withheld[p] = IF p \in ps \ out THEN wh[p] \cup b[p].data ELSE wh[p]
    BY <1>11
  <2>4. DataIn(g.queue, p) = DataIn(q, p) \cup (IF p \in out THEN b[p].data ELSE {})
    BY <1>9, <1>10
  <2> QED
    BY <1>4, <2>2, <2>3, <2>4
<1>15. /\ g.buckets \in [FilterPath -> B]
       /\ \A p \in FilterPath : g.buckets[p] = IF p \in ps THEN NoBucket ELSE h.buckets[p]
  BY <1>1, <1>2
<1> QED
  BY <1>2, <1>12, <1>13, <1>14, <1>15

-----------------------------------------------------------------------------
(* The steps.                                                              *)

\* The relay as a record has the relay's parts.
LEMMA HeldParts ==
    /\ Held = [buckets |-> buckets, filter |-> relay_filter, queue |-> forward_queue, withheld |-> withheld]
    /\ Held.buckets = buckets /\ Held.filter = relay_filter /\ Held.queue = forward_queue
    /\ Held.withheld = withheld
  BY DEF Held

\* No bucket has the largest batch in it.
LEMMA BatchBound ==
    /\ LargestBatch \in Nat \ {0}
    /\ \A c \in RelayConfigs : c.batch \in Nat \ {0} /\ c.batch <= LargestBatch
<1> DEFINE B == {c.batch : c \in RelayConfigs}
           Most(n) == \A c \in RelayConfigs : c.batch <= n
<1>1. \E n \in B : Most(n)
  BY RelayAssumption
<1>2. LargestBatch = CHOOSE n \in B : Most(n)
  BY DEF LargestBatch
<1>3. \A c \in RelayConfigs : c.batch \in Nat \ {0}
  BY RelayAssumption
<1>4. \A n \in B : n \in Nat \ {0}
  BY <1>3
<1> HIDE DEF B, Most
<1>5. LargestBatch \in B /\ Most(LargestBatch)
  BY <1>1, <1>2
<1> QED
  BY <1>3, <1>4, <1>5 DEF Most

\* tick and flush: what was flushed is forwarded, and the buckets that stay
\* are as they were.
LEMMA DrainKeeps ==
    ASSUME RelayIInv, NEW ps \in SUBSET Open(Held), drain(flush_buckets(Held, ps)),
           UNCHANGED <<relay_config, forward_cb, taken>>
    PROVE  RelayIInv'
<1> DEFINE g == flush_buckets(Held, ps)
           With(f) == [p \in FilterPath |-> f[p] \cup DataIn(g.queue, p)]
<1>1. /\ buckets' = g.buckets /\ forward_queue' = <<>>
      /\ passed_on' = IF forward_cb THEN With(passed_on) ELSE passed_on
      /\ withheld' = IF forward_cb THEN g.withheld ELSE With(g.withheld)
  BY DEF drain, Forward
<1>2. RelayTypeOK /\ RelayAccountsForAll /\ forward_queue \in Seq(Forwarded)
  BY DEF RelayIInv
<1>3. /\ buckets \in [FilterPath -> [data : SUBSET RelayUpdate, count : 0 .. LargestBatch - 1, age : 0 .. MaxBatchAge]]
      /\ withheld \in [FilterPath -> SUBSET RelayUpdate] /\ passed_on \in [FilterPath -> SUBSET RelayUpdate]
      /\ taken \in [FilterPath -> SUBSET RelayUpdate] /\ relay_config \in RelayConfigs /\ forward_cb \in BOOLEAN
  BY <1>2 DEF RelayTypeOK
<1>4. ps \in SUBSET FilterPath /\ \A p \in ps : buckets[p].data # {}
  BY HeldParts DEF Open, RelayIInv
<1>5. \A p \in FilterPath : buckets[p].data \in SUBSET RelayUpdate
  BY <1>3
<1> DEFINE B == [data : SUBSET RelayUpdate, count : 0 .. LargestBatch - 1, age : 0 .. MaxBatchAge]
<1>6. NoBucket \in B /\ NoBucket.count = 0 /\ \A p \in FilterPath : buckets[p] \in B
  BY <1>3, BatchBound, RelayAssumption, SMTT(60) DEF NoBucket
<1>7. /\ g.buckets \in [FilterPath -> B]
      /\ \A p \in FilterPath : g.buckets[p] = IF p \in ps THEN NoBucket ELSE buckets[p]
      /\ g.queue \in Seq(Forwarded) /\ g.withheld \in [FilterPath -> SUBSET RelayUpdate]
      /\ \A p \in FilterPath :
             g.buckets[p].data \cup DataIn(g.queue, p) \cup g.withheld[p]
               = buckets[p].data \cup DataIn(forward_queue, p) \cup withheld[p]
  <2> DEFINE h == Held
  <2>1. /\ h.buckets = buckets /\ h.queue = forward_queue /\ h.withheld = withheld
        /\ g = flush_buckets(h, ps)
    BY HeldParts
  <2> HIDE DEF h, g, B
  <2>2. Flushable(h, ps, B)
    BY <1>2, <1>3, <1>4, <1>5, <1>6, <2>1 DEF Flushable
  <2>3. /\ g.buckets \in [FilterPath -> B]
        /\ \A p \in FilterPath : g.buckets[p] = IF p \in ps THEN NoBucket ELSE h.buckets[p]
        /\ g.queue \in Seq(Forwarded) /\ g.withheld \in [FilterPath -> SUBSET RelayUpdate]
        /\ \A p \in FilterPath :
               g.buckets[p].data \cup DataIn(g.queue, p) \cup g.withheld[p]
                 = h.buckets[p].data \cup DataIn(h.queue, p) \cup h.withheld[p]
    BY <2>1, <2>2, FlushMoves, SMTT(60)
  <2> QED
    BY <2>1, <2>3
<1> HIDE DEF g
<1>8. /\ buckets' \in [FilterPath -> B]
      /\ \A p \in FilterPath : buckets'[p] = NoBucket \/ buckets'[p] = buckets[p]
  BY <1>1, <1>7
<1>9. \A p \in FilterPath : DataIn(g.queue, p) \subseteq RelayUpdate
  <2> TAKE p \in FilterPath
  <2>1. \A i \in DOMAIN g.queue : g.queue[i][2] \in SUBSET RelayUpdate
    BY <1>7, SMTT(60) DEF Forwarded
  <2> QED
    BY <2>1 DEF DataIn
<1>10. /\ passed_on' \in [FilterPath -> SUBSET RelayUpdate] /\ withheld' \in [FilterPath -> SUBSET RelayUpdate]
       /\ \A p \in FilterPath : passed_on'[p] \cup withheld'[p] = passed_on[p] \cup DataIn(g.queue, p) \cup g.withheld[p]
  <2>1. /\ With(passed_on) \in [FilterPath -> SUBSET RelayUpdate]
        /\ With(g.withheld) \in [FilterPath -> SUBSET RelayUpdate]
    BY <1>3, <1>7, <1>9
  <2>2. CASE forward_cb
    BY <1>1, <1>3, <1>7, <2>1, <2>2
  <2>3. CASE ~forward_cb
    BY <1>1, <1>3, <1>7, <2>1, <2>3
  <2> QED
    BY <2>2, <2>3
<1>11. RelayTypeOK'
  BY <1>1, <1>3, <1>8, <1>10, SMTT(60) DEF RelayTypeOK
<1>12. RelayAccountsForAll'
  <2> SUFFICES ASSUME NEW p \in FilterPath
               PROVE  taken[p] = g.buckets[p].data \cup DataIn(<<>>, p) \cup passed_on'[p] \cup withheld'[p]
    BY <1>1 DEF RelayAccountsForAll
  <2>1. DataIn(<<>>, p) = {}
    BY SMTT(60) DEF DataIn
  <2>2. taken[p] = buckets[p].data \cup DataIn(forward_queue, p) \cup passed_on[p] \cup withheld[p]
    BY <1>2 DEF RelayAccountsForAll
  <2>3. /\ g.buckets[p].data \cup DataIn(g.queue, p) \cup g.withheld[p]
             = buckets[p].data \cup DataIn(forward_queue, p) \cup withheld[p]
        /\ passed_on'[p] \cup withheld'[p] = passed_on[p] \cup DataIn(g.queue, p) \cup g.withheld[p]
    BY <1>7, <1>10
  <2> QED
    BY <2>1, <2>2, <2>3
<1>13. forward_queue' \in Seq(Forwarded)
  BY <1>1, SMTT(60)
<1>14. \A p \in FilterPath : buckets'[p].count > 0 => buckets'[p].data # {}
  BY <1>6, <1>8, SMTT(60) DEF RelayIInv
<1> QED
  BY <1>11, <1>12, <1>13, <1>14 DEF RelayIInv

\* A delta opens or joins the bucket of its path, which is flushed when it is
\* full.
LEMMA RelayReceiveKeeps ==
    ASSUME RelayIInv, NEW p \in FilterPath, NEW u \in RelayUpdate, receive_delta(p, u)
    PROVE  RelayIInv'
<1> DEFINE old == buckets[p]
           new == [data |-> old.data \cup {u}, count |-> old.count + 1, age |-> old.age]
           h == [Held EXCEPT !.buckets[p] = new]
           g == ingest(Held, p, u)
           B == [data : SUBSET RelayUpdate, count : 0 .. LargestBatch - 1, age : 0 .. MaxBatchAge]
<1>1. /\ buckets' = g.buckets /\ forward_queue' = g.queue /\ withheld' = g.withheld
      /\ taken' = [taken EXCEPT ![p] = @ \cup {u}]
      /\ UNCHANGED <<relay_config, forward_cb, passed_on>>
  BY DEF receive_delta
<1>2. RelayTypeOK /\ RelayAccountsForAll /\ forward_queue \in Seq(Forwarded)
  BY DEF RelayIInv
<1>3. /\ buckets \in [FilterPath -> B]
      /\ withheld \in [FilterPath -> SUBSET RelayUpdate] /\ passed_on \in [FilterPath -> SUBSET RelayUpdate]
      /\ taken \in [FilterPath -> SUBSET RelayUpdate] /\ relay_config \in RelayConfigs /\ forward_cb \in BOOLEAN
  BY <1>2 DEF RelayTypeOK
<1>4. /\ old \in B /\ old.data \in SUBSET RelayUpdate /\ old.count \in Nat /\ old.age \in 0 .. MaxBatchAge
  <2>1. old \in B
    BY <1>3
  <2> HIDE DEF old
  <2> QED
    BY <2>1, BatchBound, SMTT(60)
<1>5. /\ relay_config.batch \in Nat \ {0} /\ relay_config.batch <= LargestBatch /\ LargestBatch \in Nat \ {0}
  BY <1>3, BatchBound
<1>6. /\ new.data = old.data \cup {u} /\ new.count = old.count + 1
      /\ new.count < relay_config.batch => new \in B
  <2> HIDE DEF old
  <2> QED
    BY <1>4, <1>5, SMTT(60)
<1>7. /\ h.buckets = [buckets EXCEPT ![p] = new] /\ h.queue = forward_queue /\ h.withheld = withheld
  <2>1. h = [Held EXCEPT !.buckets = [Held.buckets EXCEPT ![p] = new]]
    OBVIOUS
  <2> HIDE DEF new
  <2> QED
    BY <2>1, HeldParts
<1>8. g = IF h.buckets[p].count >= relay_config.batch THEN flush_buckets(h, {p}) ELSE h
  BY HeldParts DEF ingest
<1> HIDE DEF h, g, new, old
<1>9. /\ h.buckets[p] = new /\ \A r \in FilterPath : r # p => h.buckets[r] = buckets[r]
      /\ h.buckets \in [FilterPath -> B \cup {new}]
  BY <1>3, <1>7
<1>10. /\ buckets' \in [FilterPath -> B] /\ forward_queue' \in Seq(Forwarded) /\ withheld' \in [FilterPath -> SUBSET RelayUpdate]
       /\ \A r \in FilterPath : buckets'[r] = NoBucket \/ buckets'[r] = h.buckets[r]
       /\ \A r \in FilterPath :
              buckets'[r].data \cup DataIn(forward_queue', r) \cup withheld'[r]
                = h.buckets[r].data \cup DataIn(forward_queue, r) \cup withheld[r]
  <2>1. CASE h.buckets[p].count >= relay_config.batch
    <3>1. g = flush_buckets(h, {p})
      BY <1>8, <2>1
    <3>2. NoBucket \in B
      BY <1>5, RelayAssumption, SMTT(60) DEF NoBucket
    <3>3. \A r \in FilterPath : h.buckets[r].data \in SUBSET RelayUpdate /\ buckets[r] \in B
      <4> TAKE r \in FilterPath
      <4>1. buckets[r] \in B
        BY <1>3
      <4>2. buckets[r].data \in SUBSET RelayUpdate
        BY <4>1
      <4>3. new.data \in SUBSET RelayUpdate
        BY <1>4, <1>6
      <4> QED
        BY <1>9, <4>1, <4>2, <4>3
    <3> HIDE DEF B
    <3>4. Flushable(h, {p}, B)
      <4>1. \A r \in {p} : h.buckets[r].data # {}
        BY <1>6, <1>9
      <4>2. \A r \in FilterPath \ {p} : h.buckets[r] \in B
        BY <1>9, <3>3
      <4> QED
        BY <1>2, <1>3, <1>7, <3>2, <3>3, <4>1, <4>2 DEF Flushable
    <3>5. /\ g.buckets \in [FilterPath -> B]
          /\ \A r \in FilterPath : g.buckets[r] = IF r \in {p} THEN NoBucket ELSE h.buckets[r]
          /\ g.queue \in Seq(Forwarded) /\ g.withheld \in [FilterPath -> SUBSET RelayUpdate]
          /\ \A r \in FilterPath :
                 g.buckets[r].data \cup DataIn(g.queue, r) \cup g.withheld[r]
                   = h.buckets[r].data \cup DataIn(h.queue, r) \cup h.withheld[r]
      <4> DEFINE ps == {p}
      <4>1. g = flush_buckets(h, ps) /\ Flushable(h, ps, B)
        BY <3>1, <3>4
      <4> HIDE DEF ps
      <4>2. /\ g.buckets \in [FilterPath -> B]
            /\ \A r \in FilterPath : g.buckets[r] = IF r \in ps THEN NoBucket ELSE h.buckets[r]
            /\ g.queue \in Seq(Forwarded) /\ g.withheld \in [FilterPath -> SUBSET RelayUpdate]
            /\ \A r \in FilterPath :
                   g.buckets[r].data \cup DataIn(g.queue, r) \cup g.withheld[r]
                     = h.buckets[r].data \cup DataIn(h.queue, r) \cup h.withheld[r]
        BY <4>1, FlushMoves, SMTT(60)
      <4> QED
        BY <4>2 DEF ps
    <3> QED
      BY <1>1, <1>7, <3>5
  <2>2. CASE ~(h.buckets[p].count >= relay_config.batch)
    <3>1. g = h
      BY <1>8, <2>2
    <3>2. new \in B
      BY <1>4, <1>5, <1>6, <1>9, <2>2, SMTT(60)
    <3> HIDE DEF B
    <3>3. h.buckets \in [FilterPath -> B]
      BY <1>9, <3>2
    <3> QED
      BY <1>1, <1>2, <1>3, <1>7, <3>1, <3>3
  <2> QED
    BY <2>1, <2>2
<1>11. taken' \in [FilterPath -> SUBSET RelayUpdate] /\ taken'[p] = taken[p] \cup {u}
       /\ \A r \in FilterPath : r # p => taken'[r] = taken[r]
  BY <1>1, <1>3
<1>12. RelayTypeOK'
  <2>1. \A i \in DOMAIN forward_queue' : forward_queue'[i] \in Forwarded
    BY <1>10, SMTT(60)
  <2> QED
    BY <1>1, <1>3, <1>10, <1>11, <2>1 DEF RelayTypeOK, Forwarded
<1>13. RelayAccountsForAll'
  <2> SUFFICES ASSUME NEW r \in FilterPath
               PROVE  taken'[r] = buckets'[r].data \cup DataIn(forward_queue', r) \cup passed_on[r] \cup withheld'[r]
    BY <1>1 DEF RelayAccountsForAll
  <2>1. taken[r] = buckets[r].data \cup DataIn(forward_queue, r) \cup passed_on[r] \cup withheld[r]
    BY <1>2 DEF RelayAccountsForAll
  <2>2. buckets'[r].data \cup DataIn(forward_queue', r) \cup withheld'[r]
          = h.buckets[r].data \cup DataIn(forward_queue, r) \cup withheld[r]
    BY <1>10
  <2>3. CASE r = p
    <3>1. h.buckets[r].data = buckets[r].data \cup {u}
      BY <1>6, <1>9, <2>3 DEF old
    <3> QED
      BY <1>11, <2>1, <2>2, <2>3, <3>1
  <2>4. CASE r # p
    <3>1. h.buckets[r].data = buckets[r].data
      BY <1>9, <2>4
    <3> QED
      BY <1>11, <2>1, <2>2, <2>4, <3>1
  <2> QED
    BY <2>3, <2>4
<1>14. \A r \in FilterPath : buckets'[r].count > 0 => buckets'[r].data # {}
  <2>1. NoBucket.count = 0 /\ new.data # {}
    BY <1>6 DEF NoBucket
  <2>2. \A r \in FilterPath : buckets[r].count > 0 => buckets[r].data # {}
    BY DEF RelayIInv
  <2> SUFFICES ASSUME NEW r \in FilterPath, buckets'[r].count > 0
               PROVE  buckets'[r].data # {}
    OBVIOUS
  <2>3. buckets'[r] = h.buckets[r]
    <3>1. ~(NoBucket.count > 0)
      BY <2>1, SMTT(60)
    <3> QED
      BY <1>10, <3>1
  <2> QED
    BY <1>9, <2>1, <2>2, <2>3
<1> QED
  BY <1>10, <1>12, <1>13, <1>14 DEF RelayIInv

\* Open buckets age.
LEMMA AgeKeeps ==
    ASSUME RelayIInv, Age
    PROVE  RelayIInv'
<1> DEFINE B == [data : SUBSET RelayUpdate, count : 0 .. LargestBatch - 1, age : 0 .. MaxBatchAge]
           older(b) == [b EXCEPT !.age = @ + 1]
<1>1. /\ buckets' = [p \in FilterPath |-> IF buckets[p].count > 0 /\ buckets[p].age < MaxBatchAge
                                          THEN older(buckets[p]) ELSE buckets[p]]
      /\ UNCHANGED <<relay_config, relay_filter, forward_queue, forward_cb, taken, passed_on, withheld>>
  BY DEF Age
<1>2. RelayTypeOK /\ RelayAccountsForAll /\ forward_queue \in Seq(Forwarded) /\ buckets \in [FilterPath -> B]
  BY DEF RelayIInv, RelayTypeOK
<1>3. \A b \in B : /\ older(b).data = b.data /\ older(b).count = b.count
                   /\ b.age < MaxBatchAge => older(b) \in B
  BY RelayAssumption, SMTT(60)
<1> HIDE DEF older, B
<1>4. /\ buckets' \in [FilterPath -> B]
      /\ \A p \in FilterPath : buckets'[p].data = buckets[p].data /\ buckets'[p].count = buckets[p].count
  BY <1>1, <1>2, <1>3
<1>5. RelayTypeOK'
  BY <1>1, <1>2, <1>4 DEF RelayTypeOK, B
<1>6. RelayAccountsForAll'
  BY <1>1, <1>2, <1>4 DEF RelayAccountsForAll
<1> QED
  BY <1>1, <1>2, <1>4, <1>5, <1>6 DEF RelayIInv

\* RelayNode, for all paths, updates and configurations: no batch, tick, flush
\* or reconfiguration loses an update or makes one up.
THEOREM RelayCorrect == RelaySpec => []RelayInv
<1>1. RelayInit => RelayIInv
  <2> SUFFICES ASSUME RelayInit PROVE RelayIInv
    OBVIOUS
  <2>1. NoBucket \in [data : SUBSET RelayUpdate, count : 0 .. LargestBatch - 1, age : 0 .. MaxBatchAge]
        /\ NoBucket.count = 0 /\ NoBucket.data = {}
    BY BatchBound, RelayAssumption, SMTT(60) DEF NoBucket
  <2>2. RelayTypeOK
    <3>1. /\ taken \in [FilterPath -> SUBSET RelayUpdate] /\ passed_on \in [FilterPath -> SUBSET RelayUpdate]
          /\ withheld \in [FilterPath -> SUBSET RelayUpdate]
      BY DEF RelayInit
    <3>2. buckets \in [FilterPath -> [data : SUBSET RelayUpdate, count : 0 .. LargestBatch - 1, age : 0 .. MaxBatchAge]]
      BY <2>1 DEF RelayInit
    <3>3. \A i \in DOMAIN forward_queue : forward_queue[i] \in FilterPath \X ((SUBSET RelayUpdate) \ {{}})
      BY SMTT(60) DEF RelayInit
    <3>4. relay_config \in RelayConfigs /\ forward_cb \in BOOLEAN
      BY DEF RelayInit
    <3> QED
      BY <3>1, <3>2, <3>3, <3>4 DEF RelayTypeOK
  <2>3. RelayAccountsForAll
    <3>1. \A p : DataIn(<<>>, p) = {}
      BY SMTT(60) DEF DataIn
    <3> QED
      <4>1. /\ forward_queue = <<>>
            /\ \A p \in FilterPath : buckets[p] = NoBucket /\ taken[p] = {} /\ passed_on[p] = {} /\ withheld[p] = {}
        BY DEF RelayInit
      <4> QED
        BY <2>1, <3>1, <4>1 DEF RelayAccountsForAll
  <2> QED
    BY <2>1, <2>2, <2>3, SMTT(60) DEF RelayInit, RelayIInv
<1>2. RelayIInv /\ [RelayNext]_relayVars => RelayIInv'
  <2> SUFFICES ASSUME RelayIInv, [RelayNext]_relayVars
               PROVE  RelayIInv'
    OBVIOUS
  <2>1. CASE relay_tick
    <3>1. Ready(Held) \in SUBSET Open(Held)
      BY DEF Ready
    <3> QED
      BY <2>1, <3>1, DrainKeeps DEF relay_tick
  <2>2. CASE relay_flush
    <3>1. Open(Held) \in SUBSET Open(Held)
      OBVIOUS
    <3> QED
      BY <2>2, <3>1, DrainKeeps DEF relay_flush
  <2>3. CASE Age
    BY <2>3, AgeKeeps
  <2>4. ASSUME NEW p \in FilterPath, NEW u \in RelayUpdate, receive_delta(p, u) PROVE RelayIInv'
    BY <2>4, RelayReceiveKeeps
  <2>5. CASE set_forward_callback
    BY <2>5 DEF set_forward_callback, RelayIInv, RelayTypeOK, RelayAccountsForAll
  <2>6. ASSUME NEW c \in RelayConfigs, set_config(c) PROVE RelayIInv'
    BY <2>6 DEF set_config, RelayIInv, RelayTypeOK, RelayAccountsForAll
  <2>7. CASE UNCHANGED relayVars
    BY <2>7 DEF relayVars, RelayIInv, RelayTypeOK, RelayAccountsForAll
  <2> QED
    BY <2>1, <2>2, <2>3, <2>4, <2>5, <2>6, <2>7 DEF RelayNext, receive_unknown
<1>3. RelayIInv => RelayInv
  BY DEF RelayIInv, RelayInv
<1> QED
  BY <1>1, <1>2, <1>3, PTL DEF RelaySpec
=============================================================================
