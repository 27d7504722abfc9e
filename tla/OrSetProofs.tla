---------------------------- MODULE OrSetProofs -----------------------------
(***************************************************************************)
(* The replicated observed-remove set.                                     *)
(***************************************************************************)
EXTENDS OrSetReplication, TLAPS

\* A leaf that names no prover is left to Zenon; the others need arithmetic.
USE ZenonT(60)

-----------------------------------------------------------------------------
(***************************************************************************)
(* The observed-remove set, for every set of nodes and elements, and every *)
(* history of connections, adds, removes, losses, repeats and reordering:  *)
(* tags are unique, only observed entries vanish, adds win, and replicas   *)
(* that got every delta agree unless an add followed its tombstone.        *)
(***************************************************************************)

USE ReplicationAssumption, OrSetAssumption

-----------------------------------------------------------------------------
(* The inductive invariant.                                                *)

\* seq_ is never behind a tag its node made, and a tag belongs to one entry.
SeqCovers ==
    /\ \A a \in added : a[2][2] <= seq[a[2][1]]
    /\ \A a, b \in added : a[2] = b[2] => a = b

\* Every tombstone is of a tag that some remove observed, and that was added.
Observed ==
    /\ \A p \in Node : pending_removes[p] \subseteq dead[p] /\ dead[p] \subseteq removed
    /\ \A m \in net : m.data.tombs \subseteq removed
    /\ \A t \in removed : \E a \in added : a[2] = t

\* What is pending at a peer it made itself, and holds unless it was removed;
\* a peer that is not dirty has nothing pending.
PendingOwn ==
    /\ \A p \in Node : \A a \in pending_adds[p] :
           a[2][1] = p /\ (a \in entries[p] \/ a[2] \in removed)
    /\ \A p \in Node \ dirty : pending_adds[p] = {} /\ pending_removes[p] = {}

\* A removed tag is dead at every peer, or its tombstone is on its way there.
TombstonesTravel ==
    ~missed => \A t \in removed, p \in Node :
        \/ t \in dead[p]
        \/ \E q \in Node : t \in pending_removes[q]
        \/ \E m \in net : m.to = p /\ t \in m.data.tombs

\* No peer shows an entry it knows to be dead.
DeadStayDead == ~resurrected => \A p \in Node : \A e \in entries[p] : e[2] \notin dead[p]

IInv ==
    /\ TypeOK /\ TagsUnique /\ SeqCovers /\ Observed /\ PendingOwn
    /\ AddWins /\ TombstonesTravel /\ DeadStayDead

-----------------------------------------------------------------------------
(* What the set's operators return.                                        *)

\* The parts of an entry.
LEMMA EntryParts ==
    ASSUME NEW e \in Entry
    PROVE  e[1] \in Elem /\ e[2] \in Tag /\ e[2][1] \in Node /\ e[2][2] \in Nat
  BY DEF Entry, Tag

\* merge() drops and adds what the delta says, no more.
LEMMA MergeFacts ==
    ASSUME NEW E \in SUBSET Entry, NEW d \in Delta
    PROVE  /\ merge(E, d) \in SUBSET Entry
           /\ \A e : e \in merge(E, d) <=> (e \in E \cup d.adds /\ e[2] \notin d.tombs)
  BY DEF merge, Delta

\* A peer whose seq_ covers its own tags learns no higher one from a merge.
LEMMA SequenceKept ==
    ASSUME TypeOK, SeqCovers, NEW p \in Node, NEW E \in SUBSET added
    PROVE  max_sequence(p, seq[p], E) = seq[p]
<1> DEFINE seen == {seq[p]} \cup {t[2] : t \in {u \in TagsOf(E) : u[1] = p}}
<1>1. seq[p] \in Nat
  BY DEF TypeOK
<1>2. \A k \in seen : k \in Nat /\ k <= seq[p]
  <2>1. ASSUME NEW t \in TagsOf(E), t[1] = p
        PROVE  t[2] \in Nat /\ t[2] <= seq[p]
    <3>1. PICK e \in E : t = e[2]
      BY DEF TagsOf
    <3>2. e \in added /\ e \in Entry
      BY DEF TypeOK
    <3> QED
      BY <2>1, <3>1, <3>2, EntryParts DEF SeqCovers
  <2> QED
    BY <1>1, <2>1, SMTT(60)
<1>3. seq[p] \in seen
  OBVIOUS
<1> HIDE DEF seen
<1>4. \A k \in seen : (\A j \in seen : j <= k) => k = seq[p]
  BY <1>1, <1>2, <1>3, SMTT(60)
<1>5. (CHOOSE k \in seen : \A j \in seen : j <= k) = seq[p]
  BY <1>2, <1>3, <1>4
<1> QED
  BY <1>5 DEF max_sequence, seen

-----------------------------------------------------------------------------
(* Steps that leave the replicas alone.                                    *)

\* At the start nothing was added or removed.
LEMMA InvInit == Init => IInv
<1> SUFFICES ASSUME Init PROVE IInv
  OBVIOUS
<1>1. MeshTypeOK(Delta)
  BY SMTT(60) DEF Init, MeshInit, MeshTypeOK
<1>2. TypeOK
  BY <1>1 DEF Init, TypeOK
<1>3. TagsUnique /\ SeqCovers /\ Observed /\ PendingOwn
  BY DEF Init, MeshInit, TagsUnique, SeqCovers, Observed, PendingOwn
<1>4. AddWins /\ TombstonesTravel /\ DeadStayDead
  BY DEF Init, AddWins, TombstonesTravel, DeadStayDead
<1> QED
  BY <1>2, <1>3, <1>4 DEF IInv

\* The mesh changes, or a datagram goes unused, which missed records.
LEMMA QuietStep ==
    ASSUME IInv, MeshTypeOK(Delta)',
           UNCHANGED <<setVars, added, reused, removed, dead, resurrected>>,
           \/ missed' = missed /\ net' = net
           \/ missed' = TRUE /\ net' \subseteq net
    PROVE  IInv'
<1> USE DEF setVars
<1>1. TypeOK'
  BY DEF IInv, TypeOK
<1>2. TagsUnique'
  BY DEF IInv, TagsUnique
<1>3. SeqCovers' /\ Observed' /\ PendingOwn'
  BY DEF IInv, SeqCovers, Observed, PendingOwn
<1>4. AddWins'
  BY SMTT(60) DEF IInv, AddWins
<1>5. TombstonesTravel'
  BY SMTT(60) DEF IInv, TombstonesTravel
<1>6. DeadStayDead'
  BY DEF IInv, DeadStayDead
<1> QED
  BY <1>1, <1>2, <1>3, <1>4, <1>5, <1>6 DEF IInv

\* Connections, keys, declarations and losses.
LEMMA MeshSteps ==
    ASSUME IInv, MeshStep \/ UNCHANGED vars \/ \E p \in Node : Declare(p)
    PROVE  IInv'
<1>1. MeshTypeOK(Delta)
  BY DEF IInv, TypeOK
<1>2. CASE \E p, q \in Node : register_peer_key(p, q) /\ UNCHANGED <<setVars, history>>
  <2>1. MeshTypeOK(Delta)'
    BY <1>1, <1>2, SMTT(60) DEF MeshTypeOK, register_peer_key
  <2> QED
    BY <1>2, <2>1, QuietStep DEF register_peer_key, history
<1>3. CASE \E p, q \in Node : /\ ConnectionUp(p, q) \/ ConnectionDown(p, q)
                              /\ UNCHANGED <<setVars, history>>
  <2>1. MeshTypeOK(Delta)'
    BY <1>1, <1>3, SMTT(60) DEF MeshTypeOK, ConnectionUp, ConnectionDown
  <2> QED
    BY <1>3, <2>1, QuietStep DEF ConnectionUp, ConnectionDown, history
<1>4. CASE /\ \E m \in net : Lose(m)
           /\ missed' = TRUE
           /\ UNCHANGED <<setVars, added, reused, removed, dead, resurrected>>
  <2>1. MeshTypeOK(Delta)'
    BY <1>1, <1>4, SMTT(60) DEF MeshTypeOK, Lose
  <2>2. net' \subseteq net
    BY <1>4 DEF Lose
  <2> QED
    BY <1>4, <2>1, <2>2, QuietStep
<1>5. CASE \E p \in Node : Declare(p)
  <2>1. MeshTypeOK(Delta)'
    BY <1>1, <1>5 DEF MeshTypeOK, Declare, declare
  <2> QED
    BY <1>5, <2>1, QuietStep DEF Declare, declare, history
<1>6. CASE UNCHANGED vars
  <2>1. MeshTypeOK(Delta)'
    BY <1>1, <1>6 DEF MeshTypeOK, vars, meshVars
  <2> QED
    BY <1>6, <2>1, QuietStep DEF vars, meshVars, history
<1> QED
  BY <1>2, <1>3, <1>4, <1>5, <1>6 DEF MeshStep

-----------------------------------------------------------------------------
(* add: the new tag is above every tag its node made, so that it is in no  *)
(* replica, delta or tombstone yet.                                        *)
LEMMA AddStep ==
    ASSUME IInv, NEW p \in Node, NEW x \in Elem, add(p, x)
    PROVE  IInv'
<1> DEFINE tag == <<p, seq[p] + 1>>
           new == <<x, tag>>
<1>1. /\ seq' = [seq EXCEPT ![p] = @ + 1]
      /\ entries' = [entries EXCEPT ![p] = @ \cup {new}]
      /\ pending_adds' = [pending_adds EXCEPT ![p] = @ \cup {new}]
      /\ dirty' = dirty \cup {p}
      /\ added' = added \cup {new}
      /\ UNCHANGED <<conn, known, declared, net, lost, pending_removes, removed, dead, missed,
                     resurrected>>
  BY DEF add, next_tag, meshVars
<1>2. reused' = (reused \/ tag \in TagsOf(added))
  BY DEF add, next_tag
<1>3. TypeOK
  BY DEF IInv
<1>4. seq[p] \in Nat /\ tag \in Tag /\ new \in Entry /\ new[2] = tag /\ tag[1] = p /\ tag[2] = seq[p] + 1
  BY <1>3, SMTT(60) DEF TypeOK, Tag, Entry
<1>5. \A a \in added : a[2] # tag
  <2> SUFFICES ASSUME NEW a \in added, a[2] = tag PROVE FALSE
    OBVIOUS
  <2>1. a[2][2] <= seq[a[2][1]]
    BY DEF IInv, SeqCovers
  <2> QED
    BY <1>4, <2>1, SMTT(60)
<1>6. tag \notin removed
  BY <1>5 DEF IInv, Observed
<1> HIDE DEF tag, new
<1>7. TypeOK'
  <2>1. MeshTypeOK(Delta)'
    BY <1>1, <1>3 DEF TypeOK, MeshTypeOK
  <2>2. reused' \in BOOLEAN
    BY <1>2, <1>3 DEF TypeOK
  <2> QED
    BY <1>1, <1>3, <1>4, <2>1, <2>2, SMTT(60) DEF TypeOK
<1>8. TagsUnique'
  <2>1. ~reused'
    BY <1>2, <1>5 DEF TagsOf, IInv, TagsUnique
  <2>2. \A q \in Node : entries'[q] \cup pending_adds'[q] \subseteq added'
    BY <1>1, <1>3 DEF IInv, TagsUnique, TypeOK
  <2>3. \A m \in net' : m.data.adds \subseteq added'
    BY <1>1 DEF IInv, TagsUnique
  <2> QED
    BY <2>1, <2>2, <2>3 DEF TagsUnique
<1>9. SeqCovers'
  <2>1. \A a \in added' : a[2][2] <= seq'[a[2][1]]
    <3> SUFFICES ASSUME NEW a \in added' PROVE a[2][2] <= seq'[a[2][1]]
      OBVIOUS
    <3>1. CASE a = new
      BY <1>1, <1>3, <1>4, <3>1, SMTT(60) DEF TypeOK
    <3>2. CASE a \in added
      <4>1. a[2][1] \in Node /\ a[2][2] \in Nat
        BY <1>3, <3>2, EntryParts DEF TypeOK
      <4>2. a[2][2] <= seq[a[2][1]]
        BY <3>2 DEF IInv, SeqCovers
      <4>3. seq'[a[2][1]] \in Nat /\ seq[a[2][1]] \in Nat /\ seq[a[2][1]] <= seq'[a[2][1]]
        BY <1>1, <1>3, <4>1, SMTT(60) DEF TypeOK
      <4> QED
        BY <4>1, <4>2, <4>3, SMTT(60)
    <3> QED
      BY <1>1, <3>1, <3>2
  <2>2. \A a, b \in added' : a[2] = b[2] => a = b
    BY <1>1, <1>4, <1>5 DEF IInv, SeqCovers
  <2> QED
    BY <2>1, <2>2 DEF SeqCovers
<1>10. Observed'
  BY <1>1 DEF IInv, Observed
<1>11. PendingOwn'
  BY <1>1, <1>3, <1>4, SMTT(60) DEF IInv, PendingOwn, TypeOK
<1>12. AddWins'
  <2> SUFFICES ASSUME ~missed', NEW a \in added', NEW q \in Node
               PROVE  \/ a[2] \in removed'
                      \/ a \in entries'[q]
                      \/ a \in pending_adds'[a[2][1]]
                      \/ \E m \in net' : m.to = q /\ a \in m.data.adds
    BY DEF AddWins
  <2>1. CASE a = new
    BY <1>1, <1>3, <1>4, <2>1 DEF TypeOK
  <2>2. CASE a \in added
    <3>1. a[2][1] \in Node
      BY <1>3, <2>2, EntryParts DEF TypeOK
    <3>2. \/ a[2] \in removed
          \/ a \in entries[q]
          \/ a \in pending_adds[a[2][1]]
          \/ \E m \in net : m.to = q /\ a \in m.data.adds
      BY <1>1, <2>2 DEF IInv, AddWins
    <3>3. entries[q] \subseteq entries'[q] /\ pending_adds[a[2][1]] \subseteq pending_adds'[a[2][1]]
      BY <1>1, <1>3, <3>1 DEF TypeOK
    <3> QED
      BY <1>1, <3>2, <3>3
  <2> QED
    BY <1>1, <2>1, <2>2
<1>13. TombstonesTravel'
  BY <1>1, SMTT(60) DEF IInv, TombstonesTravel
<1>14. DeadStayDead'
  <2>1. \A q \in Node : tag \notin dead[q]
    BY <1>6 DEF IInv, Observed
  <2>2. ~resurrected' => \A q \in Node : \A e \in entries[q] : e[2] \notin dead[q]
    BY <1>1 DEF IInv, DeadStayDead
  <2>3. \A q \in Node : \A e \in entries'[q] : e \in entries[q] \/ e = new
    BY <1>1, <1>3 DEF TypeOK
  <2> QED
    BY <1>1, <1>4, <2>1, <2>2, <2>3 DEF DeadStayDead
<1> QED
  BY <1>7, <1>8, <1>9, <1>10, <1>11, <1>12, <1>13, <1>14 DEF IInv

-----------------------------------------------------------------------------
(* remove: the tags of the element that the peer sees become tombstones.   *)
LEMMA RemoveStep ==
    ASSUME IInv, NEW p \in Node, NEW x \in Elem, remove(p, x)
    PROVE  IInv'
<1> DEFINE gone == {e \in entries[p] : e[1] = x}
<1>1. /\ entries' = [entries EXCEPT ![p] = @ \ gone]
      /\ pending_removes' = [pending_removes EXCEPT ![p] = @ \cup TagsOf(gone)]
      /\ dirty' = dirty \cup {p}
      /\ removed' = removed \cup TagsOf(gone)
      /\ dead' = [dead EXCEPT ![p] = @ \cup TagsOf(gone)]
      /\ UNCHANGED <<conn, known, declared, net, lost, seq, pending_adds, added, reused, missed,
                     resurrected>>
  BY DEF remove, meshVars
<1>2. TypeOK
  BY DEF IInv
<1>3. gone \subseteq entries[p] /\ gone \subseteq Entry /\ gone \subseteq added
  BY <1>2 DEF TypeOK, IInv, TagsUnique
<1>4. TagsOf(gone) \subseteq Tag
  BY <1>3, EntryParts DEF TagsOf
<1>5. \A t : t \in TagsOf(gone) <=> \E e \in gone : t = e[2]
  BY DEF TagsOf
<1> HIDE DEF gone
<1>6. TypeOK'
  <2>1. MeshTypeOK(Delta)'
    BY <1>1, <1>2 DEF TypeOK, MeshTypeOK
  <2> QED
    BY <1>1, <1>2, <1>4, <2>1 DEF TypeOK
<1>7. TagsUnique'
  BY <1>1, <1>2 DEF IInv, TagsUnique, TypeOK
<1>8. SeqCovers'
  BY <1>1 DEF IInv, SeqCovers
<1>9. Observed'
  <2>1. \A q \in Node : pending_removes'[q] \subseteq dead'[q] /\ dead'[q] \subseteq removed'
    BY <1>1, <1>2 DEF IInv, Observed, TypeOK
  <2>2. \A t \in removed' : \E a \in added' : a[2] = t
    BY <1>1, <1>3, <1>5, SMTT(60) DEF IInv, Observed
  <2> QED
    BY <1>1, <2>1, <2>2 DEF IInv, Observed
<1>10. PendingOwn'
  <2>1. \A q \in Node : \A a \in pending_adds'[q] :
            a[2][1] = q /\ (a \in entries'[q] \/ a[2] \in removed')
    <3> SUFFICES ASSUME NEW q \in Node, NEW a \in pending_adds[q]
                 PROVE  a[2][1] = q /\ (a \in entries'[q] \/ a[2] \in removed')
      BY <1>1
    <3>1. a[2][1] = q /\ (a \in entries[q] \/ a[2] \in removed)
      BY DEF IInv, PendingOwn
    <3>2. a \in entries[q] => a \in entries'[q] \/ a \in gone
      BY <1>1, <1>2 DEF TypeOK
    <3> QED
      BY <1>1, <1>5, <3>1, <3>2
  <2>2. \A q \in Node \ dirty' : pending_adds'[q] = {} /\ pending_removes'[q] = {}
    BY <1>1, <1>2 DEF IInv, PendingOwn, TypeOK
  <2> QED
    BY <2>1, <2>2 DEF PendingOwn
<1>11. AddWins'
  <2> SUFFICES ASSUME ~missed, NEW a \in added, NEW q \in Node
               PROVE  \/ a[2] \in removed'
                      \/ a \in entries'[q]
                      \/ a \in pending_adds[a[2][1]]
                      \/ \E m \in net : m.to = q /\ a \in m.data.adds
    BY <1>1, SMTT(60) DEF AddWins
  <2>1. a \in entries[q] => a \in entries'[q] \/ a \in gone
    BY <1>1, <1>2 DEF TypeOK
  <2> QED
    BY <1>1, <1>5, <2>1 DEF IInv, AddWins
<1>12. TombstonesTravel'
  <2> SUFFICES ASSUME ~missed, NEW t \in removed', NEW q \in Node
               PROVE  \/ t \in dead'[q]
                      \/ \E r \in Node : t \in pending_removes'[r]
                      \/ \E m \in net : m.to = q /\ t \in m.data.tombs
    BY <1>1, SMTT(60) DEF TombstonesTravel
  <2>1. CASE t \in TagsOf(gone)
    BY <1>1, <1>2, <2>1 DEF TypeOK
  <2>2. CASE t \in removed
    <3>1. \A r \in Node : dead[r] \subseteq dead'[r] /\ pending_removes[r] \subseteq pending_removes'[r]
      BY <1>1, <1>2 DEF TypeOK
    <3> QED
      BY <2>2, <3>1 DEF IInv, TombstonesTravel
  <2> QED
    BY <1>1, <2>1, <2>2
<1>13. DeadStayDead'
  <2> SUFFICES ASSUME ~resurrected, NEW q \in Node, NEW e \in entries'[q]
               PROVE  e[2] \notin dead'[q]
    BY <1>1 DEF DeadStayDead
  <2>1. e \in entries[q] /\ e[2] \notin dead[q]
    BY <1>1, <1>2 DEF IInv, DeadStayDead, TypeOK
  <2>2. CASE q = p
    <3>1. e \notin gone /\ e \in added
      BY <1>1, <1>2, <2>1, <2>2 DEF TypeOK, IInv, TagsUnique
    <3>2. \A f \in gone : f[2] # e[2]
      BY <1>3, <3>1 DEF IInv, SeqCovers
    <3> QED
      BY <1>1, <1>2, <1>5, <2>1, <2>2, <3>2 DEF TypeOK
  <2>3. CASE q # p
    BY <1>1, <1>2, <2>1, <2>3 DEF TypeOK
  <2> QED
    BY <2>2, <2>3
<1> QED
  BY <1>6, <1>7, <1>8, <1>9, <1>10, <1>11, <1>12, <1>13 DEF IInv

-----------------------------------------------------------------------------
(* Flush: what was pending is on its way to every connection.              *)
LEMMA FlushStep ==
    ASSUME IInv, NEW p \in Node, Flush(p)
    PROVE  IInv'
<1> DEFINE d == [adds |-> pending_adds[p], tombs |-> pending_removes[p]]
           sent == {[author |-> p, to |-> q, data |-> d] : q \in conn[p]}
<1>1. /\ net' = net \cup sent
      /\ dirty' = dirty \ {p}
      /\ pending_adds' = [pending_adds EXCEPT ![p] = {}]
      /\ pending_removes' = [pending_removes EXCEPT ![p] = {}]
      /\ UNCHANGED <<conn, known, declared, lost, entries, seq, added, reused, removed, dead,
                     resurrected>>
  BY DEF Flush, send_deltas
<1>2. missed' = (missed \/ conn[p] # Node \ {p})
  BY DEF Flush
<1>3. TypeOK
  BY DEF IInv
<1>4. conn[p] \subseteq Node /\ d \in Delta /\ d.adds = pending_adds[p] /\ d.tombs = pending_removes[p]
  BY <1>3 DEF TypeOK, MeshTypeOK, Delta
<1>5. \A m \in sent : m \in Datagram(Delta) /\ m.data = d
  <2> HIDE DEF d
  <2> SUFFICES ASSUME NEW m \in sent PROVE m \in Datagram(Delta) /\ m.data = d
    OBVIOUS
  <2>1. PICK q \in conn[p] : m = [author |-> p, to |-> q, data |-> d]
    OBVIOUS
  <2>2. q \in Node
    BY <1>4, <2>1
  <2> QED
    BY <1>4, <2>1, <2>2 DEF Datagram
<1>6. ASSUME NEW q \in conn[p]
      PROVE  \E m \in sent : m.to = q /\ m.data = d
  <2> DEFINE m == [author |-> p, to |-> q, data |-> d]
  <2> HIDE DEF d
  <2>1. m \in sent
    OBVIOUS
  <2>2. m.to = q /\ m.data = d
    OBVIOUS
  <2> HIDE DEF m
  <2> QED
    BY <2>1, <2>2
<1>7. ~missed' => ~missed /\ conn[p] = Node \ {p}
  BY <1>2, <1>3 DEF TypeOK
<1> HIDE DEF d, sent
<1>8. TypeOK'
  <2>1. MeshTypeOK(Delta)'
    BY <1>1, <1>3, <1>5 DEF TypeOK, MeshTypeOK
  <2>2. missed' \in BOOLEAN
    BY <1>2, <1>3 DEF TypeOK
  <2> QED
    BY <1>1, <1>3, <2>1, <2>2 DEF TypeOK
<1>9. TagsUnique'
  <2>1. d.adds \subseteq added
    BY <1>4 DEF IInv, TagsUnique
  <2> QED
    BY <1>1, <1>3, <1>5, <2>1 DEF IInv, TagsUnique, TypeOK
<1>10. SeqCovers'
  BY <1>1 DEF IInv, SeqCovers
<1>11. Observed'
  <2>1. d.tombs \subseteq removed
    BY <1>4 DEF IInv, Observed
  <2> QED
    BY <1>1, <1>3, <1>5, <2>1 DEF IInv, Observed, TypeOK
<1>12. PendingOwn'
  BY <1>1, <1>3, SMTT(60) DEF IInv, PendingOwn, TypeOK
<1>13. AddWins'
  <2> SUFFICES ASSUME ~missed', NEW a \in added, NEW q \in Node
               PROVE  \/ a[2] \in removed
                      \/ a \in entries[q]
                      \/ a \in pending_adds'[a[2][1]]
                      \/ \E m \in net' : m.to = q /\ a \in m.data.adds
    <3>1. added' = added /\ removed' = removed /\ entries' = entries
      BY <1>1
    <3> QED
      BY <3>1 DEF AddWins
  <2>1. a[2][1] \in Node
    BY <1>3, EntryParts DEF TypeOK
  <2>2. CASE a \in pending_adds[p] /\ q = p
    BY <2>2 DEF IInv, PendingOwn
  <2>3. CASE a \in pending_adds[p] /\ q # p
    BY <1>1, <1>4, <1>6, <1>7, <2>3, SMTT(60)
  <2>4. CASE a \notin pending_adds[p]
    <3>1. a \in pending_adds[a[2][1]] => a \in pending_adds'[a[2][1]]
      BY <1>1, <1>3, <2>1, <2>4 DEF TypeOK
    <3> QED
      BY <1>1, <1>7, <3>1 DEF IInv, AddWins
  <2> QED
    BY <2>2, <2>3, <2>4
<1>14. TombstonesTravel'
  <2> SUFFICES ASSUME ~missed', NEW t \in removed, NEW q \in Node
               PROVE  \/ t \in dead[q]
                      \/ \E r \in Node : t \in pending_removes'[r]
                      \/ \E m \in net' : m.to = q /\ t \in m.data.tombs
    BY <1>1, SMTT(60) DEF TombstonesTravel
  <2>1. CASE t \in pending_removes[p] /\ q = p
    BY <2>1 DEF IInv, Observed
  <2>2. CASE t \in pending_removes[p] /\ q # p
    BY <1>1, <1>4, <1>6, <1>7, <2>2, SMTT(60)
  <2>3. CASE t \notin pending_removes[p]
    <3>1. \A r \in Node : t \in pending_removes[r] => t \in pending_removes'[r]
      BY <1>1, <1>3, <2>3 DEF TypeOK
    <3> QED
      BY <1>1, <1>7, <3>1, SMTT(60) DEF IInv, TombstonesTravel
  <2> QED
    BY <2>1, <2>2, <2>3
<1>15. DeadStayDead'
  BY <1>1 DEF IInv, DeadStayDead
<1> QED
  BY <1>8, <1>9, <1>10, <1>11, <1>12, <1>13, <1>14, <1>15 DEF IInv

-----------------------------------------------------------------------------
(* Poll: a delta is merged, and its datagram stays only if it is repeated. *)
LEMMA PollStep ==
    ASSUME IInv, NEW p \in Node, NEW m \in net, Poll(p, m)
    PROVE  IInv'
<1>1. TypeOK
  BY DEF IInv
<1>2. /\ m.to = p
      /\ net' \subseteq net /\ net \subseteq net' \cup {m}
      /\ UNCHANGED <<conn, known, declared, lost, dirty, pending_adds, pending_removes, added,
                     reused, removed>>
  BY DEF Poll, receive
<1>3. MeshTypeOK(Delta)'
  BY <1>1, <1>2 DEF TypeOK, MeshTypeOK
<1>4. CASE ~applies(p, m)
  <2>1. missed' = TRUE /\ UNCHANGED <<entries, seq, dead, resurrected>>
    BY <1>4 DEF Poll
  <2> QED
    BY <1>2, <1>3, <2>1, QuietStep DEF setVars
<1>5. CASE applies(p, m)
  <2> DEFINE d == m.data
  <2>1. d \in Delta /\ d.adds \subseteq Entry /\ d.adds \subseteq added /\ d.tombs \subseteq removed
    BY <1>1 DEF TypeOK, MeshTypeOK, Datagram, Delta, IInv, TagsUnique, Observed
  <2>2. Merged(p, d)
    BY <1>5 DEF Poll
  <2> HIDE DEF d
  <2>3. /\ entries' = [entries EXCEPT ![p] = merge(@, d)]
        /\ dead' = [dead EXCEPT ![p] = @ \cup d.tombs]
        /\ missed' = missed
    BY <2>2 DEF Merged
  <2>4. seq' = seq
    BY <1>1, <2>1, <2>2, SequenceKept DEF Merged, TypeOK, IInv
  <2>5. /\ merge(entries[p], d) \in SUBSET Entry
        /\ \A e : e \in merge(entries[p], d) <=> (e \in entries[p] \cup d.adds /\ e[2] \notin d.tombs)
    BY <1>1, <2>1, MergeFacts DEF TypeOK
  <2>6. \A q \in Node : q # p => entries'[q] = entries[q] /\ dead'[q] = dead[q]
    BY <1>1, <2>3 DEF TypeOK
  <2>7. entries'[p] = merge(entries[p], d) /\ dead'[p] = dead[p] \cup d.tombs
    BY <1>1, <2>3 DEF TypeOK
  <2>8. \A q \in Node : \A e \in entries[q] : e \in entries'[q] \/ e[2] \in removed
    BY <2>1, <2>5, <2>6, <2>7
  <2>9. resurrected' = (resurrected \/ \E e \in merge({}, d) : e[2] \in dead[p])
    BY <2>2 DEF Merged
  <2>10. ~resurrected' => ~resurrected /\ \A e \in merge({}, d) : e[2] \notin dead[p]
    BY <1>1, <2>9 DEF TypeOK
  <2>11. TypeOK'
    <3>1. entries' \in [Node -> SUBSET Entry]
      BY <1>1, <2>3, <2>5 DEF TypeOK
    <3>2. dead' \in [Node -> SUBSET Tag]
      BY <1>1, <2>1, <2>3 DEF TypeOK, Delta
    <3>3. resurrected' \in BOOLEAN
      BY <1>1, <2>9 DEF TypeOK
    <3> QED
      BY <1>1, <1>2, <1>3, <2>3, <2>4, <3>1, <3>2, <3>3 DEF TypeOK
  <2>12. TagsUnique'
    <3>1. \A q \in Node : entries[q] \subseteq added
      BY DEF IInv, TagsUnique
    <3>2. entries'[p] \subseteq added
      BY <2>1, <2>5, <2>7, <3>1
    <3>3. \A q \in Node : entries'[q] \subseteq added
      BY <2>6, <3>1, <3>2
    <3> QED
      BY <1>2, <3>3 DEF IInv, TagsUnique
  <2>13. SeqCovers'
    BY <1>2, <2>4 DEF IInv, SeqCovers
  <2>14. Observed'
    <3>1. \A q \in Node : dead[q] \subseteq dead'[q] /\ dead'[q] \subseteq removed
      BY <2>1, <2>6, <2>7 DEF IInv, Observed
    <3> QED
      BY <1>2, <3>1 DEF IInv, Observed
  <2>15. PendingOwn'
    BY <1>2, <2>8 DEF IInv, PendingOwn
  <2>16. AddWins'
    <3> SUFFICES ASSUME ~missed, NEW a \in added, NEW q \in Node
                 PROVE  \/ a[2] \in removed
                        \/ a \in entries'[q]
                        \/ a \in pending_adds[a[2][1]]
                        \/ \E n \in net' : n.to = q /\ a \in n.data.adds
      BY <1>2, <2>3 DEF AddWins
    <3>1. CASE a \in entries[q]
      BY <2>8, <3>1
    <3>2. CASE \E n \in net : n.to = q /\ a \in n.data.adds
      <4>1. PICK n \in net : n.to = q /\ a \in n.data.adds
        BY <3>2
      <4>2. CASE n = m
        BY <1>2, <2>1, <2>5, <2>7, <4>1, <4>2 DEF d
      <4>3. CASE n \in net'
        BY <4>1, <4>3
      <4> QED
        BY <1>2, <4>2, <4>3
    <3> QED
      BY <3>1, <3>2 DEF IInv, AddWins
  <2>17. TombstonesTravel'
    <3> SUFFICES ASSUME ~missed, NEW t \in removed, NEW q \in Node
                 PROVE  \/ t \in dead'[q]
                        \/ \E r \in Node : t \in pending_removes[r]
                        \/ \E n \in net' : n.to = q /\ t \in n.data.tombs
      BY <1>2, <2>3, SMTT(60) DEF TombstonesTravel
    <3>1. CASE t \in dead[q]
      BY <2>6, <2>7, <3>1
    <3>2. CASE \E n \in net : n.to = q /\ t \in n.data.tombs
      <4>1. PICK n \in net : n.to = q /\ t \in n.data.tombs
        BY <3>2
      <4>2. CASE n = m
        BY <1>2, <2>7, <4>1, <4>2 DEF d
      <4>3. CASE n \in net'
        BY <4>1, <4>3
      <4> QED
        BY <1>2, <4>2, <4>3
    <3> QED
      BY <3>1, <3>2 DEF IInv, TombstonesTravel
  <2>18. DeadStayDead'
    <3> SUFFICES ASSUME ~resurrected', NEW q \in Node, NEW e \in entries'[q]
                 PROVE  e[2] \notin dead'[q]
      BY DEF DeadStayDead
    <3>1. \A r \in Node : \A f \in entries[r] : f[2] \notin dead[r]
      BY <2>10 DEF IInv, DeadStayDead
    <3>2. CASE q # p
      BY <2>6, <3>1, <3>2
    <3>3. CASE q = p
      <4>1. e \in entries[p] \cup d.adds /\ e[2] \notin d.tombs
        BY <2>5, <2>7, <3>3
      <4>2. e \in d.adds => e \in merge({}, d)
        BY <2>1, <4>1, MergeFacts
      <4> QED
        BY <2>7, <2>10, <3>1, <3>3, <4>1, <4>2
    <3> QED
      BY <3>2, <3>3
  <2> QED
    BY <2>11, <2>12, <2>13, <2>14, <2>15, <2>16, <2>17, <2>18 DEF IInv
<1> QED
  BY <1>4, <1>5

-----------------------------------------------------------------------------
(* The theorems.                                                           *)

\* Every step, of the mesh or of a peer, keeps the invariant.
LEMMA InvStep == IInv /\ [Next]_vars => IInv'
<1> SUFFICES ASSUME IInv, [Next]_vars PROVE IInv'
  OBVIOUS
<1>1. CASE MeshStep \/ UNCHANGED vars \/ \E p \in Node : Declare(p)
  BY <1>1, MeshSteps
<1>2. CASE \E p \in Node, x \in Elem : add(p, x)
  BY <1>2, AddStep
<1>3. CASE \E p \in Node, x \in Elem : remove(p, x)
  BY <1>3, RemoveStep
<1>4. CASE \E p \in Node : Flush(p)
  BY <1>4, FlushStep
<1>5. CASE \E p \in Node, m \in net : Poll(p, m)
  BY <1>5, PollStep
<1> QED
  BY <1>1, <1>2, <1>3, <1>4, <1>5 DEF Next, ReplicationStep

\* The invariant holds always.
LEMMA Invariant == Spec => []IInv
  BY InvInit, InvStep, PTL DEF Spec

\* Tags are globally unique: next_tag never makes one that some replica, delta
\* or tombstone already has, although merge raises seq_ from what others send.
THEOREM TagsAreUnique == Spec => []OrSetInv
<1>1. IInv => OrSetInv
  BY DEF IInv, OrSetInv
<1> QED
  BY <1>1, Invariant, PTL

\* Add wins: as long as no delta missed a peer, an entry nobody removed is at
\* every peer or on its way there, whatever else is removed concurrently.
THEOREM AddsWin == Spec => []AddWins
<1>1. IInv => AddWins
  BY DEF IInv
<1> QED
  BY <1>1, Invariant, PTL

\* When nothing is in flight and every delta reached every peer, all replicas
\* hold the entries that were added and not removed, unless merge brought back
\* an entry whose tombstone had come first.
THEOREM Convergence == Spec => []ConvergesUnlessResurrected
<1>1. ASSUME IInv, Quiescent, ~missed, ~resurrected, NEW p \in Node
      PROVE  entries[p] = {a \in added : a[2] \notin removed}
  <2>1. \A q \in Node : pending_adds[q] = {} /\ pending_removes[q] = {}
    BY <1>1 DEF IInv, PendingOwn, Quiescent
  <2>2. \A a \in added : a[2][1] \in Node
    BY <1>1, EntryParts DEF IInv, TypeOK
  <2>3. \A a \in added : a[2] \notin removed => a \in entries[p]
    BY <1>1, <2>1, <2>2 DEF IInv, AddWins, Quiescent
  <2>4. removed \subseteq dead[p]
    BY <1>1, <2>1 DEF IInv, TombstonesTravel, Quiescent
  <2>5. \A e \in entries[p] : e \in added /\ e[2] \notin removed
    BY <1>1, <2>4 DEF IInv, TagsUnique, DeadStayDead
  <2> QED
    BY <2>3, <2>5
<1>2. IInv => ConvergesUnlessResurrected
  BY <1>1 DEF ConvergesUnlessResurrected
<1> QED
  BY <1>2, Invariant, PTL

\* A step takes from a replica only entries whose tag some remove observed.
LEMMA RemovedStep ==
    ASSUME IInv, [Next]_vars, NEW p \in Node
    PROVE  TagsOf(entries[p] \ entries'[p]) \subseteq removed'
<1> SUFFICES ASSUME NEW e \in entries[p], e \notin entries'[p]
             PROVE  e[2] \in removed'
  BY DEF TagsOf
<1>1. entries \in [Node -> SUBSET Entry]
  BY DEF IInv, TypeOK
<1>2. CASE \E q \in Node, x \in Elem : remove(q, x)
  <2>1. PICK q \in Node, x \in Elem : remove(q, x)
    BY <1>2
  <2>2. q = p /\ e \in {f \in entries[p] : f[1] = x}
    BY <1>1, <2>1 DEF remove
  <2> QED
    BY <2>1, <2>2 DEF remove, TagsOf
<1>3. CASE \E q \in Node, m \in net : Poll(q, m)
  <2>1. PICK q \in Node, m \in net : Poll(q, m)
    BY <1>3
  <2>2. q = p /\ entries'[p] = merge(entries[p], m.data) /\ removed' = removed
    BY <1>1, <2>1 DEF Poll, Merged
  <2>3. m.data \in Delta /\ m.data.tombs \subseteq removed
    BY DEF IInv, TypeOK, MeshTypeOK, Datagram, Observed
  <2> QED
    BY <1>1, <2>2, <2>3, MergeFacts, SMTT(60)
<1>4. CASE \A q \in Node : entries[q] \subseteq entries'[q]
  BY <1>4
<1>5. \/ \E q \in Node : \E x \in Elem : add(q, x) \/ remove(q, x)
      \/ \E q \in Node, m \in net : Poll(q, m)
      \/ UNCHANGED entries
  BY DEF Next, ReplicationStep, MeshStep, Declare, Flush, vars, setVars
<1>6. (\E q \in Node, x \in Elem : add(q, x)) => \A q \in Node : entries[q] \subseteq entries'[q]
  BY <1>1, SMTT(60) DEF add
<1> QED
  BY <1>2, <1>3, <1>4, <1>5, <1>6

\* Remove only removes observed tags: no merge, late or repeated, takes an
\* entry from a replica unless an application removed that very tag.
THEOREM RemovalsObserved == Spec => OnlyObservedRemoved
<1>1. IInv /\ [Next]_vars
      => [\A p \in Node : TagsOf(entries[p] \ entries'[p]) \subseteq removed']_vars
  BY RemovedStep
<1> QED
  BY <1>1, Invariant, PTL DEF Spec, OnlyObservedRemoved
=============================================================================
