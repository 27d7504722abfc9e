--------------------------- MODULE CounterProofs ----------------------------
(***************************************************************************)
(* The replicated counter.                                                 *)
(***************************************************************************)
EXTENDS CounterReplication, TLAPS

\* A leaf that names no prover is left to Zenon; the others need arithmetic.
USE ZenonT(60)

-----------------------------------------------------------------------------
(***************************************************************************)
(* The counter, for every set of nodes, every connection history and every *)
(* loss, duplication and reordering.                                       *)
(***************************************************************************)

USE ReplicationAssumption, CounterAssumption

-----------------------------------------------------------------------------
(* What the CRDT's operators return.                                       *)

\* delta() is a well-typed set of counts, and carries only counts p holds.
LEMMA DeltaFacts ==
    ASSUME TypeOK, NEW p \in Node
    PROVE  /\ delta(p) \in Counts
           /\ \A h \in Half, q \in Node : delta(p)[h][q] <= entries[p][h][q]
<1>1. entries[p] \in Counts
  BY DEF TypeOK
<1> QED
  BY <1>1, SMTT(60) DEF delta, Counts

\* merge() returns, per node, the larger of the two counts.
LEMMA MergeFacts ==
    ASSUME NEW c \in Counts, NEW d \in Counts
    PROVE  /\ merge(c, d) \in Counts
           /\ \A h \in Half, q \in Node :
                 /\ merge(c, d)[h][q] \in Nat
                 /\ merge(c, d)[h][q] >= c[h][q]
                 /\ merge(c, d)[h][q] >= d[h][q]
                 /\ merge(c, d)[h][q] \in {c[h][q], d[h][q]}
  BY SMTT(60) DEF merge, Counts

\* Growing one's own count changes that count only.
LEMMA GrownFacts ==
    ASSUME NEW c \in Counts, NEW p \in Node, NEW h \in Half, NEW a \in Nat
    PROVE  /\ Grown(c, p, h, a) \in Counts
           /\ Grown(c, p, h, a)[h][p] = c[h][p] + a
           /\ \A k \in Half, q \in Node :
                 /\ (k # h \/ q # p) => Grown(c, p, h, a)[k][q] = c[k][q]
                 /\ Grown(c, p, h, a)[k][q] >= c[k][q]
  BY SMTT(60) DEF Grown, Counts

-----------------------------------------------------------------------------
(* Every mutation is: p's own count in one half grows, nothing else in     *)
(* entries or net changes.                                                 *)
LEMMA MutateShape ==
    ASSUME NEW p \in Node, Mutate(p), TypeOK
    PROVE  \E h \in Half, a \in Amounts :
              /\ entries' = [entries EXCEPT ![p] = Grown(@, p, h, a)]
              /\ dirty' = [dirty EXCEPT ![p] = @ \cup {h}]
              /\ version' \in [Node -> Nat]
              /\ UNCHANGED meshVars
<1>1. PICK h \in Half, a \in Amounts : mutate(p, h, a)
  BY DEF Mutate
<1>2. version' \in [Node -> Nat]
  BY <1>1, SMTT(60) DEF mutate, TypeOK
<1> QED
  BY <1>1, <1>2 DEF mutate

-----------------------------------------------------------------------------
(* Type correctness.                                                       *)

\* Every step, of the mesh or of a peer, keeps the types.
LEMMA TypeStep == TypeOK /\ [Next]_vars => TypeOK'
<1> SUFFICES ASSUME TypeOK, [Next]_vars PROVE TypeOK'
  OBVIOUS
<1>1. CASE MeshStep
  <2>1. UNCHANGED <<entries, dirty, version>>
    BY <1>1 DEF MeshStep
  <2>2. ASSUME NEW p \in Node, NEW q \in Node,
               \/ register_peer_key(p, q)
               \/ ConnectionUp(p, q)
               \/ ConnectionDown(p, q)
        PROVE  MeshTypeOK(Counts)'
    BY <2>2, SMTT(60) DEF register_peer_key, ConnectionUp, ConnectionDown, TypeOK, MeshTypeOK
  <2>3. ASSUME NEW m \in net, Lose(m)
        PROVE  MeshTypeOK(Counts)'
    BY <2>3, SMTT(60) DEF Lose, TypeOK, MeshTypeOK
  <2> QED
    BY <1>1, <2>1, <2>2, <2>3 DEF MeshStep, TypeOK
<1>2. ASSUME NEW p \in Node, Declare(p)
      PROVE  TypeOK'
  BY <1>2 DEF Declare, declare, TypeOK, MeshTypeOK
<1>3. ASSUME NEW p \in Node, Mutate(p)
      PROVE  TypeOK'
  <2>1. PICK h \in Half, a \in Amounts :
              /\ entries' = [entries EXCEPT ![p] = Grown(@, p, h, a)]
              /\ dirty' = [dirty EXCEPT ![p] = @ \cup {h}]
              /\ version' \in [Node -> Nat]
              /\ UNCHANGED meshVars
    BY <1>3, MutateShape
  <2>2. Grown(entries[p], p, h, a) \in Counts
    BY GrownFacts DEF TypeOK
  <2>3. entries' \in [Node -> Counts] /\ dirty' \in [Node -> SUBSET Half]
    BY <2>1, <2>2 DEF TypeOK
  <2> QED
    BY <2>1, <2>3 DEF TypeOK, MeshTypeOK, meshVars
<1>4. ASSUME NEW p \in Node, Flush(p)
      PROVE  TypeOK'
  <2>1. net' \in SUBSET Datagram(Counts)
    BY <1>4, DeltaFacts, SMTT(60) DEF Flush, send_deltas, TypeOK, MeshTypeOK, Datagram
  <2> QED
    BY <1>4, <2>1 DEF Flush, send_deltas, TypeOK, MeshTypeOK
<1>5. ASSUME NEW p \in Node, NEW m \in net, Poll(p, m)
      PROVE  TypeOK'
  <2>1. m.data \in Counts
    BY DEF TypeOK, MeshTypeOK, Datagram
  <2>2. merge(entries[p], m.data) \in Counts
    BY <2>1, MergeFacts DEF TypeOK
  <2>3. entries' \in [Node -> Counts]
    BY <1>5, <2>2 DEF Poll, TypeOK
  <2>4. MeshTypeOK(Counts)'
    BY <1>5 DEF Poll, receive, TypeOK, MeshTypeOK
  <2> QED
    BY <1>5, <2>3, <2>4 DEF Poll, TypeOK
<1>6. CASE UNCHANGED vars
  BY <1>6 DEF vars, meshVars, TypeOK, MeshTypeOK
<1> QED
  BY <1>1, <1>2, <1>3, <1>4, <1>5, <1>6 DEF Next, ReplicationStep

\* Every reachable state has the types of the C++ members it models.
THEOREM TypeCorrect == Spec => []TypeOK
<1>1. Init => TypeOK
  BY SMTT(60) DEF Init, MeshInit, TypeOK, MeshTypeOK, Counts
<1> QED
  BY <1>1, TypeStep, PTL DEF Spec

-----------------------------------------------------------------------------
(* The safety invariant is inductive relative to the types.                *)

\* No step, merge of a late delta included, credits a node with more than it
\* has counted.
LEMMA PhantomStep == TypeOK /\ NoPhantomCounts /\ [Next]_vars => NoPhantomCounts'
<1> SUFFICES ASSUME TypeOK, NoPhantomCounts, [Next]_vars PROVE NoPhantomCounts'
  OBVIOUS
<1> DEFINE Own(q, h) == entries[q][h][q]
<1>0. \A p, q \in Node, h \in Half : entries[p][h][q] \in Nat
  BY SMTT(60) DEF TypeOK, Counts
<1>1. CASE MeshStep
  <2>1. UNCHANGED entries
    BY <1>1 DEF MeshStep
  <2>2. net' \subseteq net
    BY <1>1 DEF MeshStep, register_peer_key, ConnectionUp, ConnectionDown, Lose
  <2> QED
    BY <2>1, <2>2 DEF NoPhantomCounts
<1>2. ASSUME NEW p \in Node, Declare(p)
      PROVE  NoPhantomCounts'
  BY <1>2 DEF Declare, declare, NoPhantomCounts
<1>3. ASSUME NEW p \in Node, Mutate(p)
      PROVE  NoPhantomCounts'
  <2>1. PICK h \in Half, a \in Amounts :
              /\ entries' = [entries EXCEPT ![p] = Grown(@, p, h, a)]
              /\ UNCHANGED meshVars
    BY <1>3, MutateShape
  <2>2. entries[p] \in Counts /\ a \in Nat
    BY DEF TypeOK
  <2>3. \A r, q \in Node, k \in Half :
            entries'[r][k][q] = IF r = p /\ q = p /\ k = h
                                THEN Own(p, h) + a ELSE entries[r][k][q]
    <3>1. entries'[p] = Grown(entries[p], p, h, a)
      BY <2>1 DEF TypeOK
    <3>2. \A r \in Node : r # p => entries'[r] = entries[r]
      BY <2>1 DEF TypeOK
    <3>3. \A q \in Node, k \in Half :
              Grown(entries[p], p, h, a)[k][q] =
                  IF q = p /\ k = h THEN Own(p, h) + a ELSE entries[p][k][q]
      BY <2>2, GrownFacts, SMTT(60)
    <3> QED
      BY <3>1, <3>2, <3>3, SMTT(60)
  <2>4. net' = net
    BY <2>1 DEF meshVars
  <2>5. \A m \in net, k \in Half, q \in Node : m.data[k][q] \in Nat
    BY SMTT(60) DEF TypeOK, MeshTypeOK, Datagram, Counts
  <2> QED
    BY <1>0, <2>2, <2>3, <2>4, <2>5, SMTT(60) DEF NoPhantomCounts
<1>4. ASSUME NEW p \in Node, Flush(p)
      PROVE  NoPhantomCounts'
  <2>1. entries' = entries
    BY <1>4 DEF Flush
  <2>2. \A m \in net' : m \in net \/ m.data = delta(p)
    BY <1>4, SMTT(60) DEF Flush, send_deltas
  <2>3. \A h \in Half, q \in Node : delta(p)[h][q] <= Own(q, h)
    <3> SUFFICES ASSUME NEW h \in Half, NEW q \in Node
                 PROVE  delta(p)[h][q] <= Own(q, h)
      OBVIOUS
    <3>1. delta(p)[h][q] \in Nat /\ delta(p)[h][q] <= entries[p][h][q]
      BY DeltaFacts, SMTT(60) DEF Counts
    <3>2. entries[p][h][q] <= Own(q, h)
      BY DEF NoPhantomCounts
    <3> QED
      BY <1>0, <3>1, <3>2, SMTT(60)
  <2> QED
    BY <2>1, <2>2, <2>3 DEF NoPhantomCounts
<1>5. ASSUME NEW p \in Node, NEW m \in net, Poll(p, m)
      PROVE  NoPhantomCounts'
  <2>1. net' \subseteq net
    BY <1>5 DEF Poll, receive
  <2>2. CASE ~applies(p, m)
    BY <1>5, <2>1, <2>2 DEF Poll, NoPhantomCounts
  <2>3. CASE applies(p, m)
    <3>1. entries' = [entries EXCEPT ![p] = merge(entries[p], m.data)]
      BY <1>5, <2>3 DEF Poll
    <3>2. entries[p] \in Counts /\ m.data \in Counts
      BY DEF TypeOK, MeshTypeOK, Datagram
    <3>3. \A h \in Half, q \in Node :
              merge(entries[p], m.data)[h][q] <= Own(q, h)
      BY <3>2, MergeFacts, SMTT(60) DEF NoPhantomCounts
    <3>4. \A h \in Half :
              merge(entries[p], m.data)[h][p] = Own(p, h)
      <4> SUFFICES ASSUME NEW h \in Half
                   PROVE  merge(entries[p], m.data)[h][p] = Own(p, h)
        OBVIOUS
      <4>1. /\ merge(entries[p], m.data)[h][p] >= Own(p, h)
            /\ merge(entries[p], m.data)[h][p] <= Own(p, h)
        BY <3>2, <3>3, MergeFacts
      <4>2. merge(entries[p], m.data)[h][p] \in Nat
        BY <3>2, MergeFacts
      <4> QED
        BY <1>0, <4>1, <4>2, SMTT(60)
    <3>5. \A q \in Node, h \in Half : entries'[q][h][q] = Own(q, h)
      <4> SUFFICES ASSUME NEW q \in Node PROVE \A h \in Half : entries'[q][h][q] = Own(q, h)
        OBVIOUS
      <4>1. CASE q = p
        <5>1. entries'[p] = merge(entries[p], m.data)
          BY <3>1 DEF TypeOK
        <5> QED
          BY <3>4, <4>1, <5>1
      <4>2. CASE q # p
        BY <3>1, <4>2 DEF TypeOK
      <4> QED
        BY <4>1, <4>2
    <3>6. \A r, q \in Node, h \in Half : entries'[r][h][q] <= Own(q, h)
      BY <3>1, <3>3 DEF TypeOK, NoPhantomCounts
    <3> QED
      BY <2>1, <3>5, <3>6 DEF NoPhantomCounts
  <2> QED
    BY <2>2, <2>3
<1>6. CASE UNCHANGED vars
  BY <1>6 DEF vars, meshVars, NoPhantomCounts
<1> QED
  BY <1>1, <1>2, <1>3, <1>4, <1>5, <1>6 DEF Next, ReplicationStep

\* No replica ever credits a node with counts the node did not make.
THEOREM PhantomFree == Spec => []NoPhantomCounts
<1>1. Init => TypeOK /\ NoPhantomCounts
  BY SMTT(60) DEF Init, MeshInit, TypeOK, MeshTypeOK, Counts, NoPhantomCounts
<1> QED
  BY <1>1, TypeStep, PhantomStep, PTL DEF Spec

-----------------------------------------------------------------------------
(* Steps.                                                                  *)

\* No step lowers any count: merge keeps the maximum, the rest only adds.
LEMMA ShrinkStep ==
    TypeOK /\ [Next]_vars
        => [\A p, q \in Node, h \in Half :
               entries'[p][h][q] >= entries[p][h][q]]_vars
<1> SUFFICES ASSUME TypeOK, Next
             PROVE  \A r, q \in Node, h \in Half :
                        entries'[r][h][q] >= entries[r][h][q]
  OBVIOUS
<1>0. \A r, q \in Node, h \in Half : entries[r][h][q] \in Nat
  BY SMTT(60) DEF TypeOK, Counts
<1>1. CASE UNCHANGED entries
  BY <1>0, <1>1, SMTT(60)
<1>2. ASSUME NEW p \in Node, Mutate(p)
      PROVE  \A r, q \in Node, h \in Half : entries'[r][h][q] >= entries[r][h][q]
  <2>1. PICK h \in Half, a \in Amounts :
              entries' = [entries EXCEPT ![p] = Grown(@, p, h, a)]
    BY <1>2, MutateShape
  <2>2. entries[p] \in Counts /\ a \in Nat
    BY DEF TypeOK
  <2>3. \A q \in Node, k \in Half :
            Grown(entries[p], p, h, a)[k][q] >= entries[p][k][q]
    BY <2>2, GrownFacts
  <2>4. /\ entries'[p] = Grown(entries[p], p, h, a)
        /\ \A r \in Node : r # p => entries'[r] = entries[r]
    BY <2>1 DEF TypeOK
  <2> QED
    BY <1>0, <2>3, <2>4, SMTT(60)
<1>3. ASSUME NEW p \in Node, NEW m \in net, Poll(p, m)
      PROVE  \A r, q \in Node, h \in Half : entries'[r][h][q] >= entries[r][h][q]
  <2>1. entries[p] \in Counts /\ m.data \in Counts
    BY DEF TypeOK, MeshTypeOK, Datagram
  <2>2. \A q \in Node, h \in Half :
            merge(entries[p], m.data)[h][q] >= entries[p][h][q]
    BY <2>1, MergeFacts
  <2> QED
    BY <1>0, <1>3, <2>2, SMTT(60) DEF Poll, TypeOK
<1> QED
  BY <1>1, <1>2, <1>3
  DEF Next, ReplicationStep, MeshStep, Declare, Flush

\* Whatever a replica has once counted for a node it keeps, however late or
\* often a delta arrives.
THEOREM NeverShrink == Spec => CountsNeverShrink
  BY TypeCorrect, ShrinkStep, PTL DEF Spec, CountsNeverShrink

-----------------------------------------------------------------------------
(* Refinement: every step is the owner counting, somebody learning, or     *)
(* invisible in the counts.                                                *)

\* Every step is, on the counts alone, a step of the abstract counter.
LEMMA ViewStep ==
    TypeOK /\ NoPhantomCounts /\ [Next]_vars => [Views!Next]_entries
<1> SUFFICES ASSUME TypeOK, NoPhantomCounts, [Next]_vars
             PROVE  Views!Next \/ UNCHANGED entries
  OBVIOUS
<1>1. ASSUME NEW p \in Node, Mutate(p)
      PROVE  Views!Grow(p)
  <2>1. PICK h \in Half, a \in Amounts :
              entries' = [entries EXCEPT ![p] = Grown(@, p, h, a)]
    BY <1>1, MutateShape
  <2>2. entries' = [entries EXCEPT ![p][h][p] = @ + a]
    BY <2>1 DEF Grown
  <2> QED
    BY <2>2 DEF Views!Grow
<1>2. ASSUME NEW p \in Node, NEW m \in net, Poll(p, m)
      PROVE  Views!Learn(p) \/ UNCHANGED entries
  <2>1. SUFFICES ASSUME applies(p, m) PROVE Views!Learn(p)
    BY <1>2 DEF Poll
  <2>2. entries[p] \in Counts /\ m.data \in Counts
    BY DEF TypeOK, MeshTypeOK, Datagram
  <2>3. /\ entries'[p] = merge(entries[p], m.data)
        /\ \A r \in Node \ {p} : entries'[r] = entries[r]
    BY <1>2, <2>1 DEF Poll, TypeOK
  <2>4. entries' \in [Node -> Counts]
    BY <1>2, <2>1, <2>2, MergeFacts DEF Poll, TypeOK
  <2>5. \A h \in Half, q \in Node :
            /\ merge(entries[p], m.data)[h][q] >= entries[p][h][q]
            /\ merge(entries[p], m.data)[h][q] <= entries[q][h][q]
    BY <2>2, MergeFacts, SMTT(60) DEF NoPhantomCounts
  <2>6. \A h \in Half, q \in Node :
            /\ entries[p][h][q] <= entries'[p][h][q]
            /\ entries'[p][h][q] <= entries[q][h][q]
    <3>1. \A h \in Half, q \in Node :
              entries[p][h][q] \in Nat /\ merge(entries[p], m.data)[h][q] \in Nat
      <4>1. merge(entries[p], m.data) \in Counts
        BY <2>2, MergeFacts
      <4> QED
        BY <2>2, <4>1, SMTT(60) DEF Counts
    <3> QED
      BY <2>3, <2>5, <3>1
  <2> QED
    BY <2>3, <2>4, <2>6 DEF Views!Learn, Views!Counts, Counts
<1>3. CASE UNCHANGED vars
  BY <1>3 DEF vars
<1> QED
  BY <1>1, <1>2, <1>3
  DEF Next, ReplicationStep, MeshStep, Declare, Flush, Views!Next

\* The whole protocol, churn, loss, duplication and reordering included,
\* implements the abstract counter.
THEOREM Refines == Spec => ViewsSpec
<1>1. Init => Views!Init
  BY DEF Init, Views!Init
<1> QED
  BY <1>1, TypeCorrect, PhantomFree, ViewStep, PTL DEF Spec, ViewsSpec, Views!Spec

-----------------------------------------------------------------------------
(* In a full mesh without loss, no count is ever left behind.              *)

FullMeshUp ==
    /\ InitConn = {e \in Node \X Node : e[1] # e[2]}
    /\ InitKnown = InitConn
    /\ InitDeclared = Node

\* The mesh stays as it is, and nobody is sent its own deltas.
MeshUp ==
    /\ \A p \in Node : conn[p] = Node \ {p} /\ known[p] = Node \ {p}
    /\ declared = Node
    /\ \A m \in net : m.author # m.to

\* flush and poll never undo connections, keys or declarations.
LEMMA MeshUpStep ==
    ASSUME TypeOK, MeshUp, [StableNext]_vars
    PROVE  MeshUp'
<1>2. ASSUME NEW p \in Node, Declare(p)
      PROVE  MeshUp'
  BY <1>2 DEF Declare, declare, MeshUp
<1>3. ASSUME NEW p \in Node, Mutate(p)
      PROVE  MeshUp'
  BY <1>3, MutateShape DEF meshVars, MeshUp
<1>4. ASSUME NEW p \in Node, Flush(p)
      PROVE  MeshUp'
  BY <1>4, SMTT(60) DEF Flush, send_deltas, MeshUp
<1>5. ASSUME NEW p \in Node, NEW m \in net, Poll(p, m)
      PROVE  MeshUp'
  BY <1>5 DEF Poll, receive, MeshUp
<1>6. CASE UNCHANGED vars
  BY <1>6 DEF vars, meshVars, MeshUp
<1> QED
  BY <1>2, <1>3, <1>4, <1>5, <1>6 DEF StableNext, ReplicationStep

\* flush moves a pending count into datagrams to everybody, and poll takes a
\* datagram only by merging it: the count is never in neither place.
LEMMA StrandedStep ==
    ASSUME TypeOK, NoPhantomCounts, NoPhantomCounts', TypeOK',
           MeshUp, NoUpdateStranded, [StableNext]_vars
    PROVE  NoUpdateStranded'
<1> SUFFICES ASSUME NEW p \in Node, NEW q \in Node, NEW h \in Half
             PROVE  \/ entries'[p][h][q] = entries'[q][h][q]
                    \/ h \in dirty'[q]
                    \/ \E m \in net' : m.to = p /\ m.data[h][q] = entries'[q][h][q]
  BY DEF NoUpdateStranded
<1>0. \/ entries[p][h][q] = entries[q][h][q]
      \/ h \in dirty[q]
      \/ \E m \in net : m.to = p /\ m.data[h][q] = entries[q][h][q]
  BY SMTT(60) DEF NoUpdateStranded
<1>2. CASE UNCHANGED <<entries, dirty, net>>
  BY <1>0, <1>2
<1>3. ASSUME NEW r \in Node, Mutate(r)
      PROVE  \/ entries'[p][h][q] = entries'[q][h][q]
             \/ h \in dirty'[q]
             \/ \E m \in net' : m.to = p /\ m.data[h][q] = entries'[q][h][q]
  <2>1. PICK k \in Half, a \in Amounts :
              /\ entries' = [entries EXCEPT ![r] = Grown(@, r, k, a)]
              /\ dirty' = [dirty EXCEPT ![r] = @ \cup {k}]
              /\ UNCHANGED meshVars
    BY <1>3, MutateShape
  <2>2. CASE r = q /\ k = h
    BY <2>1, <2>2 DEF TypeOK
  <2>3. CASE ~(r = q /\ k = h)
    <3>1. entries[r] \in Counts /\ a \in Nat
      BY DEF TypeOK
    <3>2. /\ entries'[r] = Grown(entries[r], r, k, a)
          /\ \A s \in Node : s # r => entries'[s] = entries[s]
      BY <2>1 DEF TypeOK
    <3>3. \A s \in Node : entries'[s][h][q] = entries[s][h][q]
      <4>1. Grown(entries[r], r, k, a)[h][q] = entries[r][h][q]
        BY <2>3, <3>1, GrownFacts, SMTT(60)
      <4> QED
        BY <3>2, <4>1
    <3>4. h \in dirty[q] => h \in dirty'[q]
      BY <2>1 DEF TypeOK
    <3>5. net' = net
      BY <2>1 DEF meshVars
    <3> QED
      BY <1>0, <3>3, <3>4, <3>5
  <2> QED
    BY <2>2, <2>3
<1>4. ASSUME NEW r \in Node, Flush(r)
      PROVE  \/ entries'[p][h][q] = entries'[q][h][q]
             \/ h \in dirty'[q]
             \/ \E m \in net' : m.to = p /\ m.data[h][q] = entries'[q][h][q]
  <2>1. entries' = entries /\ net \subseteq net'
    BY <1>4 DEF Flush, send_deltas
  <2>2. CASE r # q
    <3>1. dirty'[q] = dirty[q]
      BY <1>4, <2>2 DEF Flush, TypeOK
    <3> QED
      BY <1>0, <2>1, <3>1
  <2>3. CASE p = q
    BY <2>1, <2>3
  <2>4. CASE r = q /\ p # q
    <3> DEFINE sent == [author |-> q, to |-> p, data |-> delta(q)]
    <3>1. sent \in net'
      <4>1. p \in conn[q]
        BY <2>4 DEF MeshUp
      <4> QED
        BY <1>4, <2>4, <4>1 DEF Flush, send_deltas
    <3>2. sent.to = p /\ sent.data[h][q] = entries[q][h][q]
      BY DEF delta
    <3> QED
      BY <2>1, <3>1, <3>2
  <2> QED
    BY <2>2, <2>3, <2>4
<1>5. ASSUME NEW r \in Node, NEW m \in net, Poll(r, m)
      PROVE  \/ entries'[p][h][q] = entries'[q][h][q]
             \/ h \in dirty'[q]
             \/ \E n \in net' : n.to = p /\ n.data[h][q] = entries'[q][h][q]
  <2>1. applies(r, m)
    BY <1>5 DEF Poll, receive, applies, MeshUp, TypeOK, MeshTypeOK, Datagram
  <2>2. entries[r] \in Counts /\ m.data \in Counts
    BY DEF TypeOK, MeshTypeOK, Datagram
  <2>3. /\ entries'[r] = merge(entries[r], m.data)
        /\ \A s \in Node : s # r => entries'[s] = entries[s]
        /\ dirty' = dirty
        /\ \A n \in net : n # m => n \in net'
        /\ m.to = r
    BY <1>5, <2>1 DEF Poll, receive, TypeOK
  <2>4. /\ entries[p][h][q] \in Nat /\ entries'[p][h][q] \in Nat
        /\ entries[q][h][q] \in Nat /\ entries'[q][h][q] \in Nat
    BY SMTT(60) DEF TypeOK, Counts
  <2>5. entries'[q][h][q] = entries[q][h][q]
    <3>1. CASE r # q
      BY <2>3, <3>1
    <3>2. CASE r = q
      <4>1. m.data[h][q] <= entries[q][h][q]
        BY DEF NoPhantomCounts
      <4>2. merge(entries[q], m.data)[h][q] \in {entries[q][h][q], m.data[h][q]}
        BY <2>2, <3>2, MergeFacts
      <4>3. merge(entries[q], m.data)[h][q] >= entries[q][h][q]
        BY <2>2, <3>2, MergeFacts
      <4>4. entries'[q] = merge(entries[q], m.data)
        BY <2>3, <3>2
      <4>5. m.data[h][q] \in Nat
        BY <2>2 DEF Counts
      <4> QED
        BY <2>4, <4>1, <4>2, <4>3, <4>4, <4>5, SMTT(60)
    <3> QED
      BY <3>1, <3>2
  <2>6. entries'[p][h][q] >= entries[p][h][q] /\ entries'[p][h][q] <= entries'[q][h][q]
    <3>1. merge(entries[r], m.data)[h][q] >= entries[r][h][q]
      BY <2>2, MergeFacts
    <3>2. entries'[p][h][q] >= entries[p][h][q]
      <4>1. CASE p = r
        BY <2>3, <3>1, <4>1
      <4>2. CASE p # r
        BY <2>3, <2>4, <4>2, SMTT(60)
      <4> QED
        BY <4>1, <4>2
    <3>3. entries'[p][h][q] <= entries'[q][h][q]
      BY DEF NoPhantomCounts
    <3> QED
      BY <3>2, <3>3
  <2>7. CASE entries[p][h][q] = entries[q][h][q]
    <3>1. entries'[p][h][q] = entries'[q][h][q]
      BY <2>4, <2>5, <2>6, <2>7, SMTT(60)
    <3> QED
      BY <3>1
  <2>8. CASE h \in dirty[q]
    BY <2>3, <2>8
  <2>9. ASSUME NEW n \in net, n.to = p, n.data[h][q] = entries[q][h][q]
        PROVE  \/ entries'[p][h][q] = entries'[q][h][q]
               \/ \E o \in net' : o.to = p /\ o.data[h][q] = entries'[q][h][q]
    <3>1. CASE n # m
      BY <2>3, <2>5, <2>9, <3>1
    <3>2. CASE n = m
      <4>1. merge(entries[p], m.data)[h][q] >= m.data[h][q] /\ r = p
        BY <2>2, <2>3, <2>9, <3>2, MergeFacts
      <4>2. entries'[p][h][q] >= entries'[q][h][q]
        BY <2>3, <2>5, <2>9, <3>2, <4>1
      <4>3. entries'[p][h][q] = entries'[q][h][q]
        BY <2>4, <2>6, <4>2, SMTT(60)
      <4> QED
        BY <4>3
    <3> QED
      BY <3>1, <3>2
  <2> QED
    BY <1>0, <2>7, <2>8, <2>9
<1> QED
  BY <1>2, <1>3, <1>4, <1>5
  DEF StableNext, ReplicationStep, Declare, declare, vars, meshVars

\* In a set-up full mesh without loss, a count that a peer lacks is always
\* still pending at its owner or in flight to that peer, although flush keeps
\* no record of what it sent.
THEOREM NothingStranded ==
    ASSUME FullMeshUp
    PROVE  StableSpec => []NoUpdateStranded
<1> DEFINE Inv == TypeOK /\ NoPhantomCounts /\ MeshUp /\ NoUpdateStranded
<1>1. Init => Inv
  <2> SUFFICES ASSUME Init PROVE Inv
    OBVIOUS
  <2>1. TypeOK
    BY SMTT(60) DEF Init, MeshInit, TypeOK, MeshTypeOK, Counts
  <2>2. NoPhantomCounts /\ NoUpdateStranded
    BY SMTT(60) DEF Init, MeshInit, NoPhantomCounts, NoUpdateStranded
  <2>3. MeshUp
    BY DEF Init, MeshInit, MeshUp, FullMeshUp
  <2> QED
    BY <2>1, <2>2, <2>3
<1>2. Inv /\ [StableNext]_vars => Inv'
  <2>1. [StableNext]_vars => [Next]_vars
    BY DEF StableNext, Next, MeshStep
  <2> QED
    BY <2>1, TypeStep, PhantomStep, MeshUpStep, StrandedStep
<1> QED
  BY <1>1, <1>2, PTL DEF StableSpec
=============================================================================
