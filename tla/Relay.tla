-------------------------------- MODULE Relay --------------------------------
(***************************************************************************)
(* RelayNode and its Aggregator: deltas are merged per path in a bucket,   *)
(* a bucket is emitted through the DeltaFilter when it is full or old, and *)
(* tick forwards what was emitted.  Every path has one CRDT type; merging  *)
(* is the union of updates, as it is for counters and registers (an        *)
(* OR-Set's snapshot, which is what is emitted, has no tombstones: a relay *)
(* passes no removals on).  The NORMAL tier, which needs a clock of its    *)
(* own, is left to Resolution.                                             *)
(***************************************************************************)
EXTENDS DeltaFilter, Sequences

CONSTANTS
    RelayUpdate,      \* updates of a path
    RelayUnknown,     \* paths whose CRDT type create_crdt does not know
    RelayConfigs,     \* records [batch, age, tier]; age 0 is "manual only"
    MaxBatchAge,      \* bound on the age of a bucket
    MaxForwards       \* bound on the forward queue

ASSUME RelayAssumption ==
    /\ IsFiniteSet(FilterPath) /\ RelayUnknown \subseteq FilterPath
    /\ MaxBatchAge \in Nat
    /\ RelayConfigs \subseteq [batch : Nat \ {0}, age : 0 .. MaxBatchAge, tier : Tier]
    /\ \E c \in RelayConfigs : \A d \in RelayConfigs : d.batch <= c.batch

VARIABLES
    relay_config,   \* config_
    buckets,        \* buckets[p] = [data, count, age]; count 0: no bucket
    relay_filter,   \* filter_
    forward_queue,  \* forward_queue_, as <<path, data>>
    forward_cb,     \* whether a forward callback is set
    taken,          \* history: updates received of paths of a known type
    passed_on,      \* history: updates the callback was given
    withheld        \* history: updates held back by the filter, or drained
                    \* while no callback was set

relayVars == <<relay_config, buckets, relay_filter, forward_queue, forward_cb,
               taken, passed_on, withheld>>

NoBucket == [data |-> {}, count |-> 0, age |-> 0]

LargestBatch == CHOOSE n \in {c.batch : c \in RelayConfigs} :
                    \A c \in RelayConfigs : c.batch <= n

RelayTypeOK ==
    /\ relay_config \in RelayConfigs
    /\ buckets \in [FilterPath -> [data : SUBSET RelayUpdate, count : 0 .. LargestBatch - 1,
                                   age : 0 .. MaxBatchAge]]
    /\ \A i \in DOMAIN forward_queue :
           forward_queue[i] \in FilterPath \X ((SUBSET RelayUpdate) \ {{}})
    /\ forward_cb \in BOOLEAN
    /\ \A h \in {taken, passed_on, withheld} : h \in [FilterPath -> SUBSET RelayUpdate]

RelayInit ==
    /\ relay_config \in RelayConfigs
    /\ buckets = [p \in FilterPath |-> NoBucket]
    /\ relay_filter = NewFilter(relay_config.tier)
    /\ forward_queue = <<>>
    /\ forward_cb = FALSE
    /\ taken = [p \in FilterPath |-> {}]
    /\ passed_on = [p \in FilterPath |-> {}]
    /\ withheld = [p \in FilterPath |-> {}]

-----------------------------------------------------------------------------
(* The relay is a record while a handler runs.                             *)

Held == [buckets |-> buckets, filter |-> relay_filter, queue |-> forward_queue,
         withheld |-> withheld]

\* The order in which an unordered_map gives its keys is one of its own.
InSomeOrder(ps) ==
    CHOOSE q \in [1 .. Cardinality(ps) -> ps] : \A p \in ps : \E i \in DOMAIN q : q[i] = p

\* flush_bucket and on_aggregator_emit of each path of ps, whose buckets are
\* erased.
flush_buckets(h, ps) ==
    LET data  == [p \in FilterPath |-> h.buckets[p].data]
        full  == relay_config.tier = "FULL"
        out   == {p \in ps : full \/ should_forward(h.filter, p, data[p], 0)}
        order == InSomeOrder(out)
    IN  [buckets  |-> [p \in FilterPath |-> IF p \in ps THEN NoBucket ELSE h.buckets[p]],
         filter   |-> IF full THEN h.filter ELSE remember(h.filter, ps, data, 0),
         queue    |-> h.queue \o [i \in DOMAIN order |-> <<order[i], data[order[i]]>>],
         withheld |-> [p \in FilterPath |-> IF p \in ps \ out THEN h.withheld[p] \cup data[p]
                                            ELSE h.withheld[p]]]

ingest(h, p, u) ==
    LET merged == [h EXCEPT !.buckets[p] =
                       [data |-> @.data \cup {u}, count |-> @.count + 1, age |-> @.age]]
    IN  IF merged.buckets[p].count >= relay_config.batch THEN flush_buckets(merged, {p}) ELSE merged

Open(h) == {p \in FilterPath : h.buckets[p].count > 0}

\* Mutation of Ready: the age limit is forgotten.
Ready_full(h) == {p \in Open(h) : h.buckets[p].count >= relay_config.batch}

\* The buckets flush_if_ready flushes.
Ready(h) ==
    {p \in Open(h) : \/ h.buckets[p].count >= relay_config.batch
                     \/ relay_config.age > 0 /\ h.buckets[p].age >= relay_config.age}

\* The updates of path p in queue q.
DataIn(q, p) == UNION {q[i][2] : i \in {j \in DOMAIN q : q[j][1] = p}}

\* The forward callback is given q, if there is a callback; the queue is cleared.
Forward(q, h) ==
    LET With(f) == [p \in FilterPath |-> f[p] \cup DataIn(q, p)]
    IN  /\ buckets' = h.buckets
        /\ relay_filter' = h.filter
        /\ forward_queue' = <<>>
        /\ passed_on' = IF forward_cb THEN With(passed_on) ELSE passed_on
        /\ withheld' = IF forward_cb THEN h.withheld ELSE With(h.withheld)

\* Mutation of drain: the queue is forwarded before the aggregator is flushed.
drain_early(h) == Forward(forward_queue, h)

\* The end of tick and of flush.
drain(h) == Forward(h.queue, h)

receive_delta(p, u) ==
    /\ Len(forward_queue) < MaxForwards
    /\ p \notin RelayUnknown
    /\ LET h == ingest(Held, p, u)
       IN  /\ buckets' = h.buckets
           /\ relay_filter' = h.filter
           /\ forward_queue' = h.queue
           /\ withheld' = h.withheld
    /\ taken' = [taken EXCEPT ![p] = @ \cup {u}]
    /\ UNCHANGED <<relay_config, forward_cb, passed_on>>

\* An unknown type is dropped: create_crdt gives no CRDT.
receive_unknown(p) ==
    /\ p \in RelayUnknown
    /\ UNCHANGED relayVars

relay_tick ==
    /\ drain(flush_buckets(Held, Ready(Held)))
    /\ UNCHANGED <<relay_config, forward_cb, taken>>

relay_flush ==
    /\ drain(flush_buckets(Held, Open(Held)))
    /\ UNCHANGED <<relay_config, forward_cb, taken>>

set_config(c) ==
    /\ relay_config' = c
    /\ relay_filter' = [relay_filter EXCEPT !.tier = c.tier]
    /\ UNCHANGED <<buckets, forward_queue, forward_cb, taken, passed_on, withheld>>

set_forward_callback ==
    /\ ~forward_cb
    /\ forward_cb' = TRUE
    /\ UNCHANGED <<relay_config, buckets, relay_filter, forward_queue, taken, passed_on, withheld>>

\* Time passes: open buckets age.
Age ==
    /\ \E p \in Open(Held) : buckets[p].age < MaxBatchAge
    /\ buckets' = [p \in FilterPath |-> IF buckets[p].count > 0 /\ buckets[p].age < MaxBatchAge
                                        THEN [buckets[p] EXCEPT !.age = @ + 1] ELSE buckets[p]]
    /\ UNCHANGED <<relay_config, relay_filter, forward_queue, forward_cb, taken, passed_on, withheld>>

RelayNext ==
    \/ relay_tick
    \/ relay_flush
    \/ Age
    \/ set_forward_callback
    \/ \E p \in FilterPath, u \in RelayUpdate : receive_delta(p, u)
    \/ \E p \in FilterPath : receive_unknown(p)
    \/ \E c \in RelayConfigs : set_config(c)

RelaySpec == RelayInit /\ [][RelayNext]_relayVars

\* A tick that has something to do; any other changes nothing.
BusyTick == (forward_queue # <<>> \/ Open(Held) # {}) /\ relay_tick

\* The application calls tick periodically and time passes.
RelayFairness == WF_relayVars(BusyTick) /\ WF_relayVars(Age)

-----------------------------------------------------------------------------
(* Properties.                                                             *)

\* Merging loses nothing and makes nothing up: whatever the batches, ticks
\* and reconfigurations, a received update is in its bucket, in the queue, was
\* handed to the callback or was withheld, and nothing else is.
RelayAccountsForAll ==
    \A p \in FilterPath :
        taken[p] = buckets[p].data \cup DataIn(forward_queue, p) \cup passed_on[p] \cup withheld[p]

\* A bucket does not wait for company: unless flushing is set to manual, what
\* is in a bucket is handed on or withheld in the end, though no further delta
\* fills the batch.
BucketsDrain ==
    \A p \in FilterPath \ RelayUnknown, u \in RelayUpdate :
        u \in buckets[p].data ~> u \in passed_on[p] \cup withheld[p] \/ relay_config.age = 0

\* The invariant of the relay: its types, and every update accounted for.
RelayInv == RelayTypeOK /\ RelayAccountsForAll
=============================================================================
