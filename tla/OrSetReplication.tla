-------------------------- MODULE OrSetReplication --------------------------
(***************************************************************************)
(* Replication of an observed-remove set region (OrSet).  Every add makes  *)
(* a fresh tag; a remove deletes the tags it observes and sends them as    *)
(* tombstones.  An OrSet keeps no tombstone it has sent or applied.        *)
(*                                                                         *)
(* entries_ maps an element to its non-empty set of tags; here it is the   *)
(* set of pairs <<element, tag>>, and a tag is a pair <<node, sequence>>.  *)
(***************************************************************************)
EXTENDS Replication

CONSTANTS
    Elem,    \* elements the applications add and remove
    MaxAdds  \* MaxAdds[p]: bound on p's tag sequence

ASSUME OrSetAssumption == MaxAdds \in [Node -> Nat]

Tag == Node \X Nat
Entry == Elem \X Tag
Delta == [adds : SUBSET Entry, tombs : SUBSET Tag]

VARIABLES
    entries,         \* entries[p]: the visible entries of p's set
    seq,             \* seq[p]: seq_, the last tag sequence p used
    dirty,           \* peers with a pending delta
    pending_adds,    \* pending_adds[p]: entries added since the last delta
    pending_removes, \* pending_removes[p]: tags removed since the last delta
    added,           \* history: every entry some add made
    reused,          \* history: some add made a tag that was there before
    removed,         \* history: every tag some remove observed
    dead,            \* history: dead[p], tags p removed or had tombstones for
    missed,          \* history: a delta was lost, refused, or not sent to everybody
    resurrected      \* history: some merge inserted an entry dead at its peer

setVars == <<entries, seq, dirty, pending_adds, pending_removes>>
history == <<added, reused, removed, dead, missed, resurrected>>
vars == <<meshVars, setVars, history>>

TypeOK ==
    /\ MeshTypeOK(Delta)
    /\ entries \in [Node -> SUBSET Entry]
    /\ seq \in [Node -> Nat]
    /\ dirty \in SUBSET Node
    /\ pending_adds \in [Node -> SUBSET Entry]
    /\ pending_removes \in [Node -> SUBSET Tag]
    /\ added \in SUBSET Entry
    /\ reused \in BOOLEAN
    /\ removed \in SUBSET Tag
    /\ dead \in [Node -> SUBSET Tag]
    /\ missed \in BOOLEAN
    /\ resurrected \in BOOLEAN

Init ==
    /\ MeshInit
    /\ entries = [p \in Node |-> {}]
    /\ seq = [p \in Node |-> 0]
    /\ dirty = {}
    /\ pending_adds = [p \in Node |-> {}]
    /\ pending_removes = [p \in Node |-> {}]
    /\ added = {}
    /\ reused = FALSE
    /\ removed = {}
    /\ dead = [p \in Node |-> {}]
    /\ missed = FALSE
    /\ resurrected = FALSE

-----------------------------------------------------------------------------
(* The CRDT.                                                               *)

TagsOf(E) == {e[2] : e \in E}

\* Mutations of merge: a tombstone takes the whole element; a delta with
\* tombstones adds nothing; adds ignore the tombstones beside them.
merge_element(mine, d) ==
    {e \in mine : \A f \in mine : f[1] = e[1] => f[2] \notin d.tombs}
    \cup {e \in d.adds : e[2] \notin d.tombs}
merge_either(mine, d) ==
    {e \in mine : e[2] \notin d.tombs} \cup (IF d.tombs = {} THEN d.adds ELSE {})
merge_unfiltered(mine, d) == {e \in mine : e[2] \notin d.tombs} \cup d.adds

\* Tombstones first, then the entries the same delta does not also remove.
merge(mine, d) ==
    {e \in mine : e[2] \notin d.tombs} \cup {e \in d.adds : e[2] \notin d.tombs}

\* The largest of n and the sequences of p's own tags in E.
max_sequence(p, n, E) ==
    LET seen == {n} \cup {t[2] : t \in {u \in TagsOf(E) : u[1] = p}}
    IN  CHOOSE k \in seen : \A j \in seen : j <= k

\* Mutation of next_tag: every peer uses the same node id.
next_tag_shared(p) == <<CHOOSE q \in Node : TRUE, seq[p] + 1>>

\* The tag of p's next add.
next_tag(p) == <<p, seq[p] + 1>>

-----------------------------------------------------------------------------
(* Actions.                                                                *)

Declare(p) == declare(p) /\ UNCHANGED <<setVars, history>>

add(p, e) ==
    LET new == <<e, next_tag(p)>>
    IN  /\ p \in declared
        /\ seq[p] < MaxAdds[p]
        /\ seq' = [seq EXCEPT ![p] = @ + 1]
        /\ entries' = [entries EXCEPT ![p] = @ \cup {new}]
        /\ pending_adds' = [pending_adds EXCEPT ![p] = @ \cup {new}]
        /\ dirty' = dirty \cup {p}
        /\ added' = added \cup {new}
        /\ reused' = (reused \/ new[2] \in TagsOf(added))
        /\ UNCHANGED <<meshVars, pending_removes, removed, dead, missed, resurrected>>

\* A pending add of the removed element stays pending.
remove(p, e) ==
    LET gone == {x \in entries[p] : x[1] = e}
    IN  /\ gone # {}
        /\ entries' = [entries EXCEPT ![p] = @ \ gone]
        /\ pending_removes' = [pending_removes EXCEPT ![p] = @ \cup TagsOf(gone)]
        /\ dirty' = dirty \cup {p}
        /\ removed' = removed \cup TagsOf(gone)
        /\ dead' = [dead EXCEPT ![p] = @ \cup TagsOf(gone)]
        /\ UNCHANGED <<meshVars, seq, pending_adds, added, reused, missed, resurrected>>

\* Peer::flush with OrSet::delta, which forgets what it encodes.
Flush(p) ==
    /\ has_connections(p)
    /\ p \in dirty
    /\ send_deltas(p, [adds |-> pending_adds[p], tombs |-> pending_removes[p]])
    /\ dirty' = dirty \ {p}
    /\ pending_adds' = [pending_adds EXCEPT ![p] = {}]
    /\ pending_removes' = [pending_removes EXCEPT ![p] = {}]
    /\ missed' = (missed \/ conn[p] # Node \ {p})
    /\ UNCHANGED <<entries, seq, added, reused, removed, dead, resurrected>>

Merged(p, d) ==
    /\ entries' = [entries EXCEPT ![p] = merge(@, d)]
    /\ seq' = [seq EXCEPT ![p] = max_sequence(p, @, d.adds)]
    /\ dead' = [dead EXCEPT ![p] = @ \cup d.tombs]
    /\ UNCHANGED missed
    /\ resurrected' = (resurrected \/ \E e \in merge({}, d) : e[2] \in dead[p])

Poll(p, m) ==
    /\ receive(p, m)
    /\ IF applies(p, m)
       THEN Merged(p, m.data)
       ELSE missed' = TRUE /\ UNCHANGED <<entries, seq, dead, resurrected>>
    /\ UNCHANGED <<dirty, pending_adds, pending_removes, added, reused, removed>>

MeshStep ==
    \/ /\ \E p, q \in Node : \/ register_peer_key(p, q)
                             \/ ConnectionUp(p, q)
                             \/ ConnectionDown(p, q)
       /\ UNCHANGED <<setVars, history>>
    \/ /\ \E m \in net : Lose(m)
       /\ missed' = TRUE
       /\ UNCHANGED <<setVars, added, reused, removed, dead, resurrected>>

ReplicationStep(p) ==
    \/ Declare(p)
    \/ \E e \in Elem : add(p, e) \/ remove(p, e)
    \/ Flush(p)
    \/ \E m \in net : Poll(p, m)

\* Peers come and go while they replicate.
Next == MeshStep \/ \E p \in Node : ReplicationStep(p)

Spec == Init /\ [][Next]_vars

-----------------------------------------------------------------------------
(* Properties.                                                             *)

\* "Tag = {node_id, sequence} - globally unique": whatever replicas and
\* deltas hold was added, and no two adds ever made the same tag.
TagsUnique ==
    /\ \A p \in Node : entries[p] \cup pending_adds[p] \subseteq added
    /\ \A m \in net : m.data.adds \subseteq added
    /\ ~reused

\* "Remove only removes observed tags": an entry leaves a replica only when
\* some application removed that very tag while seeing it.
OnlyObservedRemoved ==
    [][\A p \in Node : TagsOf(entries[p] \ entries'[p]) \subseteq removed']_vars

\* "Add-wins semantics": an entry nobody removed is at every peer, or still
\* pending where it was added, or in a delta on its way, unless some delta
\* missed a peer.
AddWins ==
    ~missed => \A a \in added, p \in Node :
        \/ a[2] \in removed
        \/ a \in entries[p]
        \/ a \in pending_adds[a[2][1]]
        \/ \E m \in net : m.to = p /\ a \in m.data.adds

Quiescent == net = {} /\ dirty = {}

\* Once every delta reached every peer, all replicas hold exactly the entries
\* added and not removed, unless an add reached some peer after its tombstone.
ConvergesUnlessResurrected ==
    (Quiescent /\ ~missed /\ ~resurrected) =>
        \A p \in Node : entries[p] = {a \in added : a[2] \notin removed}

\* README: a CRDT "always converges to the same result", here once every
\* delta reached every peer.
QuiescentAgreement ==
    (Quiescent /\ ~missed) => \A p, q \in Node : entries[p] = entries[q]

\* The set's invariant: its types, and unique tags.
OrSetInv == TypeOK /\ TagsUnique
=============================================================================
