--------------------------- MODULE LwwReplication ---------------------------
(***************************************************************************)
(* Replication of a last-writer-wins register region (LwwRegister).        *)
(*                                                                         *)
(* A write is stamped with the microseconds since the epoch of the peer's  *)
(* primary connection, kept in 32 bits, and with the register's node_id_.  *)
(* Both are delicate: every connection end has an epoch of its own (set by *)
(* initiate on one side and by accept on the other), and merge overwrites  *)
(* node_id_ with the winner's, so that a later local write carries the     *)
(* node id of somebody else.                                               *)
(*                                                                         *)
(* A value is the pair <<writer, n>>, the writer's n-th write: the model   *)
(* must tell writes apart and needs nothing else of the bytes.             *)
(***************************************************************************)
EXTENDS Replication

CONSTANTS
    InitEpoch, \* InitEpoch[p]: when p's initial connections came up
    InitTime,  \* the time at which the model starts
    MaxTime,   \* bound on time
    TsMod,     \* timestamps are kept modulo this (2^32 in the code)
    MaxWrites  \* MaxWrites[p]: bound on the writes of p

ASSUME LwwAssumption ==
    /\ Node \subseteq Nat
    /\ InitEpoch \in [Node -> Nat]
    /\ InitTime \in Nat /\ MaxTime \in Nat /\ MaxWrites \in [Node -> Nat]
    /\ \A p \in Node : InitEpoch[p] <= InitTime
    /\ TsMod \in Nat \ {0}

VARIABLES
    reg,       \* reg[p]: value_, timestamp_ and node_id_ of p's register
    dirty,     \* peers whose register has a pending delta
    version,   \* version[p]: p's component of the region's version vector
    time,      \* real time
    opened,    \* opened[p]: remotes for which p's map has a connection, of any state
    epoch,     \* epoch[p][q]: epoch_ of p's connection to q
    primary,   \* primary[p]: the connection conns_.begin() yields, if any
    writes,    \* history: every register content some set produced
    regressed, \* history: some set did not outrank the content it replaced
    missed     \* history: some peer did not get, or did not apply, some delta

regVars == <<reg, dirty, version, writes, regressed, missed>>
clockVars == <<time, opened, epoch, primary>>
vars == <<meshVars, regVars, clockVars>>

None == <<0, 0>>
Value == (Node \X Nat) \cup {None}
Register == [value : Value, ts : 0 .. TsMod - 1, node : Node]

TypeOK ==
    /\ MeshTypeOK(Register)
    /\ reg \in [Node -> Register]
    /\ dirty \in SUBSET Node
    /\ version \in [Node -> Nat]
    /\ time \in Nat
    /\ opened \in [Node -> SUBSET Node]
    /\ epoch \in [Node -> [Node -> Nat]]
    /\ primary \in [Node -> Node]
    /\ writes \in SUBSET Register
    /\ regressed \in BOOLEAN
    /\ missed \in BOOLEAN

\* The map's order is unspecified: any entry of it may be the first.
FirstOf(p, S) == IF S = {} THEN {p} ELSE S

Init ==
    /\ MeshInit
    /\ reg = [p \in Node |-> [value |-> None, ts |-> 0, node |-> p]]
    /\ dirty = {}
    /\ version = [p \in Node |-> 0]
    /\ time = InitTime
    /\ opened = conn
    /\ epoch = [p \in Node |-> [q \in Node |-> InitEpoch[p]]]
    /\ primary \in [Node -> Node]
    /\ \A p \in Node : primary[p] \in FirstOf(p, conn[p])
    /\ writes = {}
    /\ regressed = FALSE
    /\ missed = FALSE

-----------------------------------------------------------------------------
(* The register.                                                           *)

\* Register content d outranks content r.
incoming_wins(d, r) == d.ts > r.ts \/ (d.ts = r.ts /\ d.node > r.node)

\* Mutations of merge: the winner's stamp is not taken over; the delta always
\* wins; ties are not broken.
merge_value(r, d) == IF incoming_wins(d, r) THEN [r EXCEPT !.value = d.value] ELSE r
merge_always(r, d) == d
merge_untied(r, d) == IF d.ts > r.ts THEN d ELSE r

merge(r, d) == IF incoming_wins(d, r) THEN d ELSE r

elapsed_us(p, q) == (time - epoch[p][q]) % TsMod

\* set() stamps the time and leaves node_id_ alone.
written(p, ts) == [reg[p] EXCEPT !.value = <<p, version[p] + 1>>, !.ts = ts]

-----------------------------------------------------------------------------
(* Actions.                                                                *)

Tick ==
    /\ time < MaxTime
    /\ time' = time + 1
    /\ UNCHANGED <<meshVars, regVars, opened, epoch, primary>>

Declare(p) == declare(p) /\ UNCHANGED <<regVars, clockVars>>

\* conn_mgr_.add, and initiate on the connecting side: the connection is in
\* the map, its epoch running, before it is CONNECTED.
Opened(p, q) ==
    /\ q # p
    /\ q \notin opened[p]
    /\ opened' = [opened EXCEPT ![p] = @ \cup {q}]
    /\ epoch' = [epoch EXCEPT ![p][q] = time]
    /\ \E r \in opened'[p] : primary' = [primary EXCEPT ![p] = r]
    /\ UNCHANGED <<meshVars, regVars, time>>

\* on_accept leaves the epoch alone, accept starts it anew.
Connected(p, q) ==
    /\ q \in opened[p]
    /\ ConnectionUp(p, q)
    /\ epoch' \in {epoch, [epoch EXCEPT ![p][q] = time]}
    /\ UNCHANGED <<regVars, time, opened, primary>>

\* A closed connection stays in the map.
Closed(p, q) == ConnectionDown(p, q) /\ UNCHANGED <<regVars, clockVars>>

\* disconnect_node.
Removed(p, q) ==
    /\ q \in opened[p]
    /\ opened' = [opened EXCEPT ![p] = @ \ {q}]
    /\ conn' = [conn EXCEPT ![p] = @ \ {q}]
    /\ \E r \in FirstOf(p, opened'[p]) : primary' = [primary EXCEPT ![p] = r]
    /\ UNCHANGED <<known, declared, net, lost, regVars, time, epoch>>

set_lww(p) ==
    LET ts == IF opened[p] # {} THEN elapsed_us(p, primary[p]) ELSE 0
        w == written(p, ts)
    IN  /\ p \in declared
        /\ version[p] < MaxWrites[p]
        /\ reg' = [reg EXCEPT ![p] = w]
        /\ dirty' = dirty \cup {p}
        /\ version' = [version EXCEPT ![p] = @ + 1]
        /\ writes' = writes \cup {w}
        /\ regressed' = (regressed \/ ~incoming_wins(w, reg[p]))
        /\ UNCHANGED <<meshVars, missed, clockVars>>

\* delta() is the register's whole content, whoever wrote it.
Flush(p) ==
    /\ has_connections(p)
    /\ p \in dirty
    /\ send_deltas(p, reg[p])
    /\ dirty' = dirty \ {p}
    /\ missed' = (missed \/ conn[p] # Node \ {p})
    /\ UNCHANGED <<reg, version, writes, regressed, clockVars>>

Poll(p, m) ==
    /\ receive(p, m)
    /\ reg' = IF applies(p, m) THEN [reg EXCEPT ![p] = merge(@, m.data)] ELSE reg
    /\ missed' = (missed \/ ~applies(p, m))
    /\ UNCHANGED <<dirty, version, writes, regressed, clockVars>>

MeshStep ==
    /\ \/ \E p, q \in Node : register_peer_key(p, q) /\ UNCHANGED missed
       \/ \E m \in net : Lose(m) /\ missed' = TRUE
    /\ UNCHANGED <<reg, dirty, version, writes, regressed, clockVars>>

ReplicationStep(p) ==
    \/ Declare(p)
    \/ set_lww(p)
    \/ Flush(p)
    \/ \E m \in net : Poll(p, m)

\* Peers come and go while they replicate.
Next ==
    \/ MeshStep
    \/ Tick
    \/ \E p, q \in Node : Opened(p, q) \/ Connected(p, q) \/ Closed(p, q) \/ Removed(p, q)
    \/ \E p \in Node : ReplicationStep(p)

Spec == Init /\ [][Next]_vars

-----------------------------------------------------------------------------
(* Properties.                                                             *)

\* A content some replica holds, or a delta carries, was written as such by
\* set_lww: merge never mixes the value of one write with another's stamp.
NoMixedWrites ==
    /\ \A p \in Node : reg[p].value # None => reg[p] \in writes
    /\ \A m \in net : m.data \in writes

\* Only a peer's own set_lww moves its register back to a lower stamp; late
\* and repeated deltas never do.
OnlySetRegresses ==
    [][\A p \in Node : incoming_wins(reg[p], reg'[p]) => version'[p] # version[p]]_vars

Quiescent == net = {} /\ dirty = {}

\* No two different contents, the initial ones included, bear the same
\* timestamp and node id.
DistinctStamps ==
    /\ \A w \in writes : w.ts # 0
    /\ \A w, v \in writes : (w.ts = v.ts /\ w.node = v.node) => w = v

\* "The value with the highest timestamp wins.  Ties broken by node_id":
\* provided every delta came, every write outranks what it replaces and no
\* two stamps collide, all replicas end with the write of the highest stamp,
\* in whatever order the deltas came.
LastWriterWins ==
    (Quiescent /\ ~missed /\ ~regressed /\ DistinctStamps /\ writes # {}) =>
        \E w \in writes : \A p \in Node :
            reg[p] = w /\ \A v \in writes : v = w \/ incoming_wins(w, v)

\* README: a CRDT "always converges to the same result".  Without tied
\* stamps, replicas agree once every delta reached every peer.
AgreementUnlessTied ==
    (Quiescent /\ ~missed /\ DistinctStamps) =>
        \A p, q \in Node : reg[p].value = reg[q].value

\* The register's invariant: its types, and no mixed writes.
LwwInv == TypeOK /\ NoMixedWrites
=============================================================================
