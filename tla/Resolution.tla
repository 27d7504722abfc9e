------------------------------ MODULE Resolution ------------------------------
(***************************************************************************)
(* Peer::flush through the DeltaFilter of one connection.                  *)
(*                                                                         *)
(* A state is a set of updates that grows.  The delta of a register or a   *)
(* counter is its whole state, that of an OR-Set only what has changed     *)
(* since the last flush.  collect_deltas takes the dirty flags and the     *)
(* OR-Sets' pending changes before flush asks the filter: a register that  *)
(* is held back is not sent until it changes again, and the changes of an  *)
(* OR-Set that are held back are in no later delta.                        *)
(***************************************************************************)
EXTENDS DeltaFilter, Sequences

CONSTANTS
    FilterUpdate,   \* updates of a path
    MaxFilterTime,  \* bound on the clock
    MaxFlushes      \* bound on flushes that offer a delta

ASSUME ResolutionAssumption == MaxFilterTime \in Nat /\ MaxFlushes \in Nat

VARIABLES
    whole,    \* the paths of registers and counters; the others are OR-Sets
    filter,   \* delta_filters_[remote]
    value,    \* value[p]: the local state
    changed,  \* paths that are dirty
    fresh,    \* fresh[p]: the updates since the path was last collected
    remote,   \* remote[p]: what the other end has been sent
    clock,    \* steady_clock
    times,    \* history: times[p]: when deltas passed this filter, as a sequence
    refused,  \* history: refused[p]: updates only in deltas that were held back
    offers    \* used up of MaxFlushes

resolutionVars == <<whole, filter, value, changed, fresh, remote, clock, times, refused, offers>>

ResolutionTypeOK ==
    /\ whole \in SUBSET FilterPath
    /\ filter.tier \in Tier
    /\ filter.rate \in [FilterPath -> [sent : 0 .. IF UpdatesPerSec = 0 THEN 1 ELSE UpdatesPerSec,
                                       since : 0 .. clock]]
    /\ filter.last \in [FilterPath -> SUBSET FilterUpdate]
    /\ filter.pending \in SUBSET FilterPath
    /\ value \in [FilterPath -> SUBSET FilterUpdate]
    /\ changed \in SUBSET FilterPath
    /\ remote \in [FilterPath -> SUBSET FilterUpdate]
    /\ clock \in 0 .. MaxFilterTime
    /\ fresh \in [FilterPath -> SUBSET FilterUpdate]
    /\ refused \in [FilterPath -> SUBSET FilterUpdate]
    /\ offers \in 0 .. MaxFlushes

ResolutionInit ==
    /\ whole \in SUBSET FilterPath
    /\ \E tier \in Tier : filter = NewFilter(tier)
    /\ value = [p \in FilterPath |-> {}]
    /\ changed = {}
    /\ remote = [p \in FilterPath |-> {}]
    /\ clock = 0
    /\ times = [p \in FilterPath |-> <<>>]
    /\ fresh = [p \in FilterPath |-> {}]
    /\ refused = [p \in FilterPath |-> {}]
    /\ offers = 0

\* A mutation.  One that changes nothing marks a register or a counter dirty
\* too; every add and remove of an OR-Set has tags of its own.
Update(p, u) ==
    /\ p \in whole \/ u \notin value[p]
    /\ value' = [value EXCEPT ![p] = @ \cup {u}]
    /\ changed' = changed \cup {p}
    /\ fresh' = [fresh EXCEPT ![p] = @ \cup {u}]
    /\ UNCHANGED <<whole, filter, remote, clock, times, refused, offers>>

\* delta(): what collect_deltas takes of each path.
Deltas == [p \in FilterPath |-> IF p \in whole THEN value[p] ELSE fresh[p]]

\* Those of the collected deltas that the filter lets pass.
Passing == {p \in changed : should_forward(filter, p, Deltas[p], clock)}

flush_filtered ==
    /\ offers < MaxFlushes
    /\ changed # {}
    /\ changed' = {}
    /\ fresh' = [p \in FilterPath |-> {}]
    /\ filter' = remember(filter, changed, Deltas, clock)
    /\ remote' = [p \in FilterPath |-> IF p \in Passing THEN remote[p] \cup Deltas[p] ELSE remote[p]]
    /\ times' = [p \in FilterPath |-> IF p \in Passing THEN Append(times[p], clock) ELSE times[p]]
    /\ refused' = [p \in FilterPath |-> IF p \in Passing THEN refused[p] \ Deltas[p]
                                        ELSE refused[p] \cup (fresh[p] \ remote[p])]
    /\ offers' = offers + 1
    /\ UNCHANGED <<whole, value, clock>>

\* should_send_version_info: the other end is told that there is a newer version.
should_send_version_info(p) ==
    /\ filter.tier = "METADATA"
    /\ p \in filter.pending
    /\ filter' = [filter EXCEPT !.pending = @ \ {p}]
    /\ UNCHANGED <<whole, value, changed, fresh, remote, clock, times, refused, offers>>

\* A new filter replaces the old one.
set_connection_resolution(tier) ==
    /\ filter' = NewFilter(tier)
    /\ times' = [p \in FilterPath |-> <<>>]
    /\ UNCHANGED <<whole, value, changed, fresh, remote, clock, refused, offers>>

FilterClock ==
    /\ clock < MaxFilterTime
    /\ clock' = clock + 1
    /\ UNCHANGED <<whole, filter, value, changed, fresh, remote, times, refused, offers>>

ResolutionNext ==
    \/ FilterClock
    \/ flush_filtered
    \/ \E p \in FilterPath : should_send_version_info(p)
    \/ \E p \in FilterPath, u \in FilterUpdate : Update(p, u)
    \/ \E tier \in Tier : set_connection_resolution(tier)

ResolutionSpec == ResolutionInit /\ [][ResolutionNext]_resolutionVars

-----------------------------------------------------------------------------
(* Properties.                                                             *)

\* COARSE, "only significant changes" (resolution.h): however many small changes
\* of a register or a counter are held back one after the other, what the other
\* end lacks of a collected path stays below coarse_min_change_bytes.  Nothing
\* bounds what it lacks of an OR-Set: each delta is measured against the last
\* one sent, not against what the other end has.
CoarseDriftBounded ==
    filter.tier = "COARSE" =>
        \A p \in whole \ changed :
            filter.last[p] # {} => differing_bytes(value[p], remote[p]) < MinChange \/ MinChange = 0

\* What the other end lacks of a path is not yet collected or was refused by the
\* filter, and what was refused of an OR-Set the other end never has: there is
\* no later delta with it, and a new tier does not bring it back.
RefusedAndMissing ==
    \A p \in FilterPath :
        /\ value[p] = remote[p] \cup refused[p] \cup fresh[p]
        /\ remote[p] \cap refused[p] = {}
        /\ p \notin whole => fresh[p] \cap (remote[p] \cup refused[p]) = {}

\* NORMAL: resolution.h says "max N updates/sec per path".  The code counts in
\* intervals that begin with a delta, so that a second that spans two of them
\* can see 2N - 1 deltas of a path (one if N is 0); it never sees more.
RateBounded ==
    filter.tier = "NORMAL" =>
        \A p \in FilterPath : \A i, j \in DOMAIN times[p] :
            i <= j /\ times[p][j] - times[p][i] < Second =>
                j - i + 1 <= IF UpdatesPerSec = 0 THEN 1 ELSE 2 * UpdatesPerSec - 1

\* The invariant of a filtered connection: what flush holds back of a register
\* or a counter is bounded, what it holds back of an OR-Set is lost and nothing
\* else is, and the rate is at most twice the configured one.
ResolutionInv == ResolutionTypeOK /\ CoarseDriftBounded /\ RefusedAndMissing /\ RateBounded
=============================================================================
