-------------------------- MODULE CounterReplication --------------------------
(***************************************************************************)
(* Replication of a counter region: GCounter, or PnCounter, which is two   *)
(* G-Counters.  A G-Counter is the case of one half, so both types share   *)
(* this module: Half has one element for G_COUNTER and two for PN_COUNTER. *)
(*                                                                         *)
(* entries_ is a vector of (node_id, count) with distinct ids; here it is  *)
(* a function on Node in which an absent entry counts 0.                   *)
(***************************************************************************)
EXTENDS Replication

CONSTANTS
    Type,     \* "G_COUNTER" or "PN_COUNTER"
    Amounts,  \* amounts an application passes to increment and decrement
    Writers,  \* the pairs <<peer, half>> the application mutates
    MaxCount  \* bound on a peer's own count

Half == IF Type = "G_COUNTER" THEN {"p"} ELSE {"p", "n"}

Counts == [Half -> [Node -> Nat]]

ASSUME CounterAssumption ==
    /\ Type \in {"G_COUNTER", "PN_COUNTER"}
    /\ Amounts \subseteq Nat
    /\ Writers \subseteq Node \X Half
    /\ MaxCount \in Nat

VARIABLES
    entries, \* entries[p][h][q]: what half h of p's counter holds for q
    dirty,   \* dirty[p]: the halves of p's counter with a pending delta
    version  \* version[p]: p's own component of the region's version vector

vars == <<meshVars, entries, dirty, version>>

TypeOK ==
    /\ MeshTypeOK(Counts)
    /\ entries \in [Node -> Counts]
    /\ dirty \in [Node -> SUBSET Half]
    /\ version \in [Node -> Nat]

Init ==
    /\ MeshInit
    /\ entries = [p \in Node |-> [h \in Half |-> [q \in Node |-> 0]]]
    /\ dirty = [p \in Node |-> {}]
    /\ version = [p \in Node |-> 0]

-----------------------------------------------------------------------------
(* The CRDT.                                                               *)

\* Mutation of Grown: the count goes down.
Grown_down(c, p, h, a) == [c EXCEPT ![h][p] = @ - a]

\* The counts c with node p's own count grown by a.
Grown(c, p, h, a) == [c EXCEPT ![h][p] = @ + a]

\* Mutation of merge: counts are added up.
merge_adds(mine, d) == [h \in Half |-> [q \in Node |-> mine[h][q] + d[h][q]]]

\* GCounter::merge on each half: the larger count per node.
merge(mine, d) ==
    [h \in Half |-> [q \in Node |->
        IF d[h][q] > mine[h][q] THEN d[h][q] ELSE mine[h][q]]]

\* A half with a pending delta sends its own entry only; PnCounter::delta
\* sends the whole of a half that has none.
delta(p) ==
    [h \in Half |-> [q \in Node |->
        IF h \in dirty[p] /\ q # p THEN 0 ELSE entries[p][h][q]]]

-----------------------------------------------------------------------------
(* Actions.                                                                *)

Declare(p) == declare(p) /\ UNCHANGED <<entries, dirty, version>>

\* p's application counts: by Peer::increment_counter, which also counts a
\* version and is for G_COUNTER regions only, or by PnCounter::increment (half
\* p) and decrement (half n), called on the region's CRDT.
mutate(p, h, a) ==
    /\ <<p, h>> \in Writers
    /\ p \in declared
    /\ entries[p][h][p] + a <= MaxCount
    /\ entries' = [entries EXCEPT ![p] = Grown(@, p, h, a)]
    /\ dirty' = [dirty EXCEPT ![p] = @ \cup {h}]
    /\ version' = [version EXCEPT ![p] = IF Type = "G_COUNTER" THEN @ + 1 ELSE @]
    /\ UNCHANGED meshVars

\* Mutation of Flush: has_pending_delta asks the first half only.
Flush_first_half(p) ==
    /\ has_connections(p)
    /\ "p" \in dirty[p]
    /\ send_deltas(p, delta(p))
    /\ dirty' = [dirty EXCEPT ![p] = {}]
    /\ UNCHANGED <<entries, version>>

\* Peer::flush: without a connection nothing is collected; otherwise the
\* pending delta is taken (which clears dirty_) and sent to every connection.
Flush(p) ==
    /\ has_connections(p)
    /\ dirty[p] # {}
    /\ send_deltas(p, delta(p))
    /\ dirty' = [dirty EXCEPT ![p] = {}]
    /\ UNCHANGED <<entries, version>>

\* Peer::poll receives a DATA packet with a STATE_DELTA.
Poll(p, m) ==
    /\ receive(p, m)
    /\ entries' = IF applies(p, m)
                  THEN [entries EXCEPT ![p] = merge(@, m.data)]
                  ELSE entries
    /\ UNCHANGED <<dirty, version>>

MeshStep ==
    /\ \/ \E p, q \in Node : \/ register_peer_key(p, q)
                             \/ ConnectionUp(p, q)
                             \/ ConnectionDown(p, q)
       \/ \E m \in net : Lose(m)
    /\ UNCHANGED <<entries, dirty, version>>

Mutate(p) == \E h \in Half, a \in Amounts : mutate(p, h, a)

ReplicationStep(p) ==
    \/ Declare(p)
    \/ Mutate(p)
    \/ Flush(p)
    \/ \E m \in net : Poll(p, m)

\* Peers come and go while they replicate.
Next == MeshStep \/ \E p \in Node : ReplicationStep(p)

Spec == Init /\ [][Next]_vars

\* Once the mesh is set up, no connection or key changes any more, and no
\* datagram is lost.
StableNext == \E p \in Node : ReplicationStep(p)

\* p's application runs its loop (flush, poll), and the transport delivers
\* every datagram it does not lose.
Fairness ==
    \A p \in Node :
        /\ WF_vars(Flush(p))
        /\ WF_vars(\E m \in net : Poll(p, m) /\ m \notin net')

StableSpec == Init /\ [][StableNext]_vars
FairSpec == StableSpec /\ Fairness

\* The same with a network that loses datagrams.
LossyNext ==
    \/ \E m \in net : Lose(m) /\ UNCHANGED <<entries, dirty, version>>
    \/ StableNext
LossySpec == Init /\ [][LossyNext]_vars /\ Fairness

-----------------------------------------------------------------------------
(* Properties.                                                             *)

\* No replica, and no delta in flight, credits a node with more than the
\* node itself has counted (GCounter::merge takes the maximum per node).
NoPhantomCounts ==
    \A q \in Node, h \in Half :
        /\ \A p \in Node : entries[p][h][q] <= entries[q][h][q]
        /\ \A m \in net : m.data[h][q] <= entries[q][h][q]

\* Late, repeated and reordered deltas never make a replica forget a count.
CountsNeverShrink ==
    [][\A p, q \in Node, h \in Half :
            entries'[p][h][q] >= entries[p][h][q]]_vars

\* A count its owner has made and a peer does not have yet is on its way: it
\* is still pending at the owner, or a datagram to that peer carries it.
\* Peer::flush forgets a delta once sent, so nothing else would ever bring it.
NoUpdateStranded ==
    \A p, q \in Node, h \in Half :
        \/ entries[p][h][q] = entries[q][h][q]
        \/ h \in dirty[q]
        \/ \E m \in net : m.to = p /\ m.data[h][q] = entries[q][h][q]

Agreement == \A p, q \in Node : entries[p] = entries[q]

\* README: a CRDT "always converges to the same result".  Once the
\* applications stop counting, all replicas of the counter become equal.
EventualAgreement == <>[]Agreement

\* The replicated counter implements the abstract one.
Views == INSTANCE CounterViews WITH view <- entries
ViewsSpec == Views!Spec
=============================================================================
