------------------------------ MODULE Freshness ------------------------------
(***************************************************************************)
(* DeltaOutbox: a queue of deltas with deadlines.  Timestamps are taken    *)
(* modulo ClockTurn (2^32 microseconds in the code, about 71 minutes); the *)
(* model keeps the true time of every push beside them.                    *)
(***************************************************************************)
EXTENDS Integers, Sequences, FiniteSets

CONSTANTS
    OutPath,      \* path hashes
    Deadline,     \* deadlines; 0 is none
    ClockTurn,    \* timestamps are modulo this
    MaxOutTime,   \* bound on the true time
    MaxPushes     \* bound on pushes

ASSUME FreshnessAssumption ==
    /\ Deadline \subseteq Nat /\ ClockTurn \in Nat \ {0}
    /\ MaxOutTime \in Nat /\ MaxPushes \in Nat

VARIABLES
    outbox,    \* entries_: records [id, path, created, deadline]
    out_now,   \* the true time
    pushed,    \* history: what was pushed, with born, the true time
    popped     \* history: <<id, true time>> of the entries popped, in order

freshnessVars == <<outbox, out_now, pushed, popped>>

OutEntry == [id : 1 .. MaxPushes, path : OutPath, created : 0 .. ClockTurn - 1,
             deadline : Deadline]

FreshnessTypeOK ==
    /\ outbox \in Seq(OutEntry)
    /\ out_now \in 0 .. MaxOutTime
    /\ Len(pushed) \in 0 .. MaxPushes
    /\ popped \in Seq((1 .. Len(pushed)) \X (0 .. out_now))
    /\ Len(outbox) + Len(popped) <= Len(pushed)

FreshnessInit ==
    /\ outbox = <<>>
    /\ out_now = 0
    /\ pushed = <<>>
    /\ popped = <<>>

\* The clock as the code reads it.
now32 == out_now % ClockTurn

is_fresh(e) == e.deadline = 0 \/ (now32 - e.created) % ClockTurn <= e.deadline

push(p, d) ==
    /\ Len(pushed) < MaxPushes
    /\ outbox' = Append(outbox, [id |-> Len(pushed) + 1, path |-> p, created |-> now32,
                                 deadline |-> d])
    /\ pushed' = Append(pushed, [path |-> p, deadline |-> d, born |-> out_now])
    /\ UNCHANGED <<out_now, popped>>

FreshAt == {i \in DOMAIN outbox : is_fresh(outbox[i])}

\* Stale entries at the head are dropped; the first fresh one is returned.
pop ==
    /\ outbox # <<>>
    /\ \/ FreshAt = {} /\ outbox' = <<>> /\ UNCHANGED popped
       \/ \E i \in FreshAt :
             /\ \A j \in FreshAt : i <= j
             /\ outbox' = SubSeq(outbox, i + 1, Len(outbox))
             /\ popped' = Append(popped, <<outbox[i].id, out_now>>)
    /\ UNCHANGED <<out_now, pushed>>

\* The k-th of a set of positions, and the entries at the positions in S.
Kth(S, k) == CHOOSE i \in S : Cardinality({j \in S : j <= i}) = k
At(q, S) == [k \in 1 .. Cardinality(S) |-> q[Kth(S, k)]]

outbox_gc ==
    /\ outbox' = At(outbox, FreshAt)
    /\ UNCHANGED <<out_now, pushed, popped>>

\* The last entry of every path.
LastOfPath == {i \in DOMAIN outbox : \A j \in DOMAIN outbox : outbox[j].path = outbox[i].path => j <= i}

\* Mutation of coalesce: what is kept is in the order of the backward walk.
coalesce_reversed ==
    LET kept == At(outbox, LastOfPath)
    IN  /\ Len(outbox) > 1
        /\ outbox' = [i \in DOMAIN kept |-> kept[Len(kept) + 1 - i]]
        /\ UNCHANGED <<out_now, pushed, popped>>

\* Only the last entry of every path is kept.
coalesce ==
    /\ Len(outbox) > 1
    /\ outbox' = At(outbox, LastOfPath)
    /\ UNCHANGED <<out_now, pushed, popped>>

OutClock ==
    /\ out_now < MaxOutTime
    /\ out_now' = out_now + 1
    /\ UNCHANGED <<outbox, pushed, popped>>

FreshnessNext ==
    \/ \E p \in OutPath, d \in Deadline : push(p, d)
    \/ pop
    \/ outbox_gc
    \/ coalesce
    \/ OutClock

FreshnessSpec == FreshnessInit /\ [][FreshnessNext]_freshnessVars

-----------------------------------------------------------------------------
(* Properties.                                                             *)

AgeAt(i, t) == t - pushed[i].born
Expired(i) == pushed[i].deadline # 0 /\ AgeAt(i, out_now) > pushed[i].deadline
InOutbox(i) == \E j \in DOMAIN outbox : outbox[j].id = i
WasPopped(i) == \E j \in DOMAIN popped : popped[j][1] = i

\* "If the delta cannot be delivered before it expires, it is dropped": a
\* delta popped after its deadline sat in the outbox for a full turn of the
\* 32-bit clock.
LateOnlyAfterATurn ==
    \A j \in DOMAIN popped :
        LET i == popped[j][1]
        IN  pushed[i].deadline # 0 /\ AgeAt(i, popped[j][2]) > pushed[i].deadline
                => AgeAt(i, popped[j][2]) >= ClockTurn

\* Whatever mix of pop, gc and coalesce was called, only stale deltas and
\* deltas superseded by a newer one of the same path are dropped.
FreshNeverDropped ==
    \A i \in DOMAIN pushed :
        \/ InOutbox(i) \/ WasPopped(i) \/ Expired(i)
        \/ \E k \in i + 1 .. Len(pushed) : pushed[k].path = pushed[i].path

\* Deltas leave in the order they came, each at most once.
PoppedInOrder == \A i, j \in DOMAIN popped : i < j => popped[i][1] < popped[j][1]

\* The invariant of the outbox: fresh deltas leave it, in order, and stale ones
\* do not.
FreshnessInv == FreshnessTypeOK /\ LateOnlyAfterATurn /\ FreshNeverDropped /\ PoppedInOrder
=============================================================================
