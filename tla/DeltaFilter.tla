----------------------------- MODULE DeltaFilter -----------------------------
(***************************************************************************)
(* DeltaFilter: whether a delta is forwarded at a resolution tier, and     *)
(* what the filter remembers.  A delta is the set of updates it carries,   *)
(* each of which is one byte of its encoding: the bytes in which two       *)
(* deltas differ are the updates that one of them lacks.                   *)
(***************************************************************************)
EXTENDS Integers, FiniteSets

CONSTANTS
    FilterPath,       \* path hashes
    UpdatesPerSec,    \* normal_max_updates_per_sec
    MinChange,        \* coarse_min_change_bytes
    Second            \* the interval of the rate limit, in clock ticks

ASSUME FilterAssumption ==
    /\ UpdatesPerSec \in Nat /\ MinChange \in Nat /\ Second \in Nat \ {0}

Tier == {"FULL", "NORMAL", "COARSE", "METADATA"}

\* sent is sent_this_interval, since is last_sent.
NewFilter(tier) ==
    [tier    |-> tier,
     rate    |-> [p \in FilterPath |-> [sent |-> 0, since |-> 0]],
     last    |-> [p \in FilterPath |-> {}],
     pending |-> {}]

\* A new interval starts with the first delta a second after the last one did.
NewInterval(rate, now) == rate.sent = 0 \/ now - rate.since >= Second

check_rate_limit(rate, now) == NewInterval(rate, now) \/ rate.sent < UpdatesPerSec

differing_bytes(a, b) == Cardinality((a \ b) \cup (b \ a))

check_change_threshold(last, delta) == last = {} \/ differing_bytes(last, delta) >= MinChange

\* The answer of should_forward.
should_forward(f, p, delta, now) ==
    CASE f.tier = "FULL" -> TRUE
      [] f.tier = "NORMAL" -> check_rate_limit(f.rate[p], now)
      [] f.tier = "COARSE" -> check_change_threshold(f.last[p], delta)
      [] f.tier = "METADATA" -> FALSE

\* The rate limit after a delta that passed it.
Counted(rate, now) ==
    IF NewInterval(rate, now) THEN [sent |-> 1, since |-> now]
    ELSE [sent |-> rate.sent + 1, since |-> rate.since]

\* Mutation of remember: the delta is compared with the last one seen.
remember_seen(f, ps, delta, now) ==
    [f EXCEPT !.rate = [p \in FilterPath |->
                            IF f.tier = "NORMAL" /\ p \in ps /\ should_forward(f, p, delta[p], now)
                            THEN Counted(f.rate[p], now) ELSE f.rate[p]],
              !.last = [p \in FilterPath |-> IF f.tier = "COARSE" /\ p \in ps THEN delta[p] ELSE f.last[p]],
              !.pending = IF f.tier = "METADATA" THEN f.pending \cup ps ELSE f.pending]

\* What should_forward leaves in the filter, asked once for each path of ps; no
\* path's answer depends on another's.
remember(f, ps, delta, now) ==
    LET go == {p \in ps : should_forward(f, p, delta[p], now)}
    IN  [tier    |-> f.tier,
         rate    |-> [p \in FilterPath |-> IF f.tier = "NORMAL" /\ p \in go THEN Counted(f.rate[p], now)
                                           ELSE f.rate[p]],
         last    |-> [p \in FilterPath |-> IF f.tier = "COARSE" /\ p \in go THEN delta[p] ELSE f.last[p]],
         pending |-> IF f.tier = "METADATA" THEN f.pending \cup ps ELSE f.pending]
=============================================================================
