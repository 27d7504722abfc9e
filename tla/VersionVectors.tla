---------------------------- MODULE VersionVectors ----------------------------
(***************************************************************************)
(* VersionVector as a function from the node ids it has an entry for, and  *)
(* its wire form as the sequence of the integers written: the number of    *)
(* entries in a field of CountBits bits (8 in the code), then two fields   *)
(* for every entry.                                                        *)
(***************************************************************************)
EXTENDS Integers, Sequences, FiniteSets

LOCAL INSTANCE TLC
LOCAL INSTANCE SequencesExt

CONSTANT CountBits   \* width of entry_count

NoVersion == <<>>

get(v, n) == IF n \in DOMAIN v THEN v[n] ELSE 0

increment(v, n) == (n :> get(v, n) + 1) @@ v

vv_merge(v, w) == [n \in DOMAIN v \cup DOMAIN w |->
                       IF get(v, n) >= get(w, n) THEN get(v, n) ELSE get(w, n)]

dominates(v, w) == \A n \in DOMAIN w : get(v, n) >= w[n]

concurrent_with(v, w) == ~dominates(v, w) /\ ~dominates(w, v)

same_version(v, w) == \A n \in DOMAIN v \cup DOMAIN w : get(v, n) = get(w, n)

less_than(v, w) == dominates(w, v) /\ ~same_version(v, w)

\* A vector with as many entries as its count can tell.
FullVersion(v) == [n \in 1 .. 2^CountBits - 1 |-> get(v, n) + 1]

\* Any two of the versions S compare in exactly one way, and their merge is the
\* least that dominates both: to dominate what was merged is to dominate each
\* piece of it.
VersionLaws(S) ==
    \A v, w \in S :
        /\ Cardinality({i \in 1 .. 4 : <<same_version(v, w), less_than(v, w), less_than(w, v),
                                         concurrent_with(v, w)>>[i]}) = 1
        /\ \A u \in S : dominates(u, vv_merge(v, w)) <=> dominates(u, v) /\ dominates(u, w)

-----------------------------------------------------------------------------

wire_size(v) == 1 + 2 * Cardinality(DOMAIN v)

encode_version(v) ==
    FoldLeft(LAMBDA wire, n : wire \o <<n, v[n]>>,
             <<Cardinality(DOMAIN v) % 2^CountBits>>,
             SetToSortSeq(DOMAIN v, <))

\* decode, at off (from 0) of wire; the caller has checked that it is long enough.
decode_version(wire, off) ==
    LET count == wire[off + 1]
    IN  [n \in {wire[off + 2 * i] : i \in 1 .. count} |->
             wire[(CHOOSE i \in {off + 2 * j : j \in 1 .. count} : wire[i] = n) + 1]]
=============================================================================
