------------------------------ MODULE Loopback ------------------------------
(***************************************************************************)
(* In-process transports: LoopbackTransport over LoopbackBus, and the C    *)
(* API's registry of buses.  Threads block in recv_from on the one         *)
(* condition variable of their bus; a bus lives as long as a transport     *)
(* holds it, and the registry only has a weak pointer to it.               *)
(***************************************************************************)
EXTENDS Naturals, Sequences

CONSTANTS
    LoopHandle,      \* transports of the C API, each used by one thread
    BusId, LoopEndpoint,
    MaxBuses,        \* buses ever made
    MaxLoopSends     \* packets ever sent

ASSUME LoopbackAssumption == MaxBuses \in Nat /\ MaxLoopSends \in Nat

VARIABLES
    s_buses,         \* the bus the weak pointer of an id was made for, 0: none
    loopback,        \* LoopHandle -> its transport
    queues,          \* bus -> endpoint -> packets
    receiving,        \* LoopHandle -> where its recv_from is
    buses_made,
    loop_sent,       \* packets sent so far; a packet is its number
    opened_under,    \* history: the id a transport was created with, 0: none
    left_behind      \* history: packets an endpoint still had when it was removed

loopVars == <<s_buses, loopback, queues, receiving, buses_made, loop_sent, opened_under, left_behind>>

Buses == 1 .. MaxBuses

Unbound == "unbound"

bound(t) == loopback[t].local # Unbound

LoopbackTypeOK ==
    /\ s_buses \in [BusId -> 0 .. MaxBuses]
    /\ loopback \in [LoopHandle -> [bus : 0 .. MaxBuses, local : LoopEndpoint \cup {Unbound}]]
    /\ \A b \in Buses, e \in LoopEndpoint : \A i \in DOMAIN queues[b][e] :
          queues[b][e][i] \in 1 .. loop_sent
    /\ receiving \in [LoopHandle -> {"idle", "waits", "woken"}]
    /\ \A t \in LoopHandle : receiving[t] # "idle" => bound(t)
    /\ \A t \in LoopHandle : bound(t) => loopback[t].bus # 0

NoTransport == [bus |-> 0, local |-> Unbound]

LoopbackInit ==
    /\ s_buses = [id \in BusId |-> 0]
    /\ loopback = [t \in LoopHandle |-> NoTransport]
    /\ queues = [b \in Buses |-> [e \in LoopEndpoint |-> <<>>]]
    /\ receiving = [t \in LoopHandle |-> "idle"]
    /\ buses_made = 0
    /\ loop_sent = 0
    /\ opened_under = [t \in LoopHandle |-> 0]
    /\ left_behind = {}

Holders(b) == {t \in LoopHandle : loopback[t].bus = b}

\* weak_ptr::lock.
lock(b) == IF b # 0 /\ Holders(b) # {} THEN b ELSE 0

\* pcol_transport_loopback_create, with the registry locked.
loopback_create(t, id) ==
    LET found == lock(s_buses[id])
    IN  /\ loopback[t].bus = 0
        /\ \/ /\ found # 0
              /\ loopback' = [loopback EXCEPT ![t].bus = found]
              /\ UNCHANGED <<s_buses, buses_made>>
           \/ /\ found = 0 /\ buses_made < MaxBuses
              /\ buses_made' = buses_made + 1
              /\ loopback' = [loopback EXCEPT ![t].bus = buses_made']
              /\ s_buses' = [s_buses EXCEPT ![id] = buses_made']
        /\ opened_under' = [opened_under EXCEPT ![t] = id]
        /\ UNCHANGED <<queues, receiving, loop_sent, left_behind>>

\* A second bind moves the transport and leaves the first endpoint's queue.
loopback_bind(t, e) ==
    /\ loopback[t].bus # 0 /\ receiving[t] = "idle"
    /\ loopback' = [loopback EXCEPT ![t].local = e]
    /\ UNCHANGED <<s_buses, queues, receiving, buses_made, loop_sent, opened_under, left_behind>>

LoopQueue(t) == queues[loopback[t].bus][loopback[t].local]

Queued(t) == IF bound(t) THEN {LoopQueue(t)[i] : i \in DOMAIN LoopQueue(t)} ELSE {}

remove_endpoint(t) ==
    /\ queues' = IF bound(t)
                 THEN [queues EXCEPT ![loopback[t].bus][loopback[t].local] = <<>>]
                 ELSE queues
    /\ left_behind' = left_behind \cup Queued(t)

loopback_close(t) ==
    /\ bound(t) /\ receiving[t] = "idle"
    /\ remove_endpoint(t)
    /\ loopback' = [loopback EXCEPT ![t].local = Unbound]
    /\ UNCHANGED <<s_buses, receiving, buses_made, loop_sent, opened_under>>

\* The bus goes with the last transport that holds it.
BusFreed(t) ==
    /\ queues' = [queues EXCEPT ![loopback[t].bus] = [e \in LoopEndpoint |-> <<>>]]
    /\ UNCHANGED left_behind

\* pcol_transport_destroy.
loopback_destroy(t) ==
    /\ loopback[t].bus # 0 /\ receiving[t] = "idle"
    /\ IF Holders(loopback[t].bus) = {t} THEN BusFreed(t) ELSE remove_endpoint(t)
    /\ loopback' = [loopback EXCEPT ![t] = NoTransport]
    /\ opened_under' = [opened_under EXCEPT ![t] = 0]
    /\ UNCHANGED <<s_buses, receiving, buses_made, loop_sent>>

Woken(r) == IF r = "waits" THEN "woken" ELSE r

\* Mutation of notified: one waiting thread is woken (notify_one).
notified_one(b) ==
    LET waiting == {t \in Holders(b) : receiving[t] = "waits"}
    IN  IF waiting = {} THEN {receiving}
        ELSE {[receiving EXCEPT ![t] = Woken(@)] : t \in waiting}

\* cv_.notify_all: the receivers as they are after it.
notified(b) == {[t \in LoopHandle |-> IF t \in Holders(b) THEN Woken(receiving[t]) ELSE receiving[t]]}

\* send_to and LoopbackBus::deliver: to any endpoint, bound or not.
loopback_send_to(t, e) ==
    /\ bound(t) /\ receiving[t] = "idle" /\ loop_sent < MaxLoopSends
    /\ loop_sent' = loop_sent + 1
    /\ queues' = [queues EXCEPT ![loopback[t].bus][e] = Append(@, loop_sent')]
    /\ receiving' \in notified(loopback[t].bus)
    /\ UNCHANGED <<s_buses, loopback, buses_made, opened_under, left_behind>>

Take(t) ==
    /\ LoopQueue(t) # <<>>
    /\ queues' = [queues EXCEPT ![loopback[t].bus][loopback[t].local] = Tail(@)]
    /\ receiving' = [receiving EXCEPT ![t] = "idle"]
    /\ UNCHANGED <<s_buses, loopback, buses_made, loop_sent, opened_under, left_behind>>

\* A call that finds a packet, or blocks; with timeout 0 it does not block.
loopback_recv_from(t) ==
    /\ bound(t) /\ receiving[t] = "idle"
    /\ \/ Take(t)
       \/ /\ LoopQueue(t) = <<>>
          /\ receiving' = [receiving EXCEPT ![t] = "waits"]
          /\ UNCHANGED <<s_buses, loopback, queues, buses_made, loop_sent, opened_under, left_behind>>

\* A woken thread holds the lock again and evaluates the predicate.
Resume(t) ==
    /\ receiving[t] = "woken"
    /\ \/ Take(t)
       \/ /\ LoopQueue(t) = <<>>
          /\ receiving' = [receiving EXCEPT ![t] = "waits"]
          /\ UNCHANGED <<s_buses, loopback, queues, buses_made, loop_sent, opened_under, left_behind>>

\* wait_for evaluates the predicate once more when the time is up; a call
\* with a negative timeout is one whose time is never up.
Elapse(t) ==
    /\ receiving[t] # "idle"
    /\ \/ Take(t)
       \/ /\ LoopQueue(t) = <<>>
          /\ receiving' = [receiving EXCEPT ![t] = "idle"]
          /\ UNCHANGED <<s_buses, loopback, queues, buses_made, loop_sent, opened_under, left_behind>>

LoopbackNext ==
    \E t \in LoopHandle :
        \/ \E id \in BusId : loopback_create(t, id)
        \/ loopback_close(t)
        \/ loopback_destroy(t)
        \/ \E e \in LoopEndpoint : loopback_bind(t, e) \/ loopback_send_to(t, e)
        \/ loopback_recv_from(t)
        \/ Resume(t)
        \/ Elapse(t)

LoopbackSpec == LoopbackInit /\ [][LoopbackNext]_loopVars

-----------------------------------------------------------------------------
\* Transports that exist together share a bus exactly when they were created
\* with the same id, however many buses of that id died before
\* (pcol_transport_loopback_create replaces an expired weak pointer).
SameIdSameBus ==
    \A t, u \in LoopHandle :
        loopback[t].bus # 0 /\ loopback[u].bus # 0 =>
            (loopback[t].bus = loopback[u].bus <=> opened_under[t] = opened_under[u])

\* No thread sleeps on a packet: a receiver the bus has not woken has an empty
\* queue.  The condition variable is shared by all endpoints of the bus, so
\* this rests on deliver waking every waiter.
NoLostWakeup ==
    \A t \in LoopHandle : receiving[t] = "waits" => LoopQueue(t) = <<>>

\* A packet never outlives the endpoint it was queued for: closing or
\* destroying a transport drops what its endpoint had not received, so a later
\* transport bound to the same address gets only packets sent after that.
NothingFromBeforeClose ==
    \A b \in Buses, e \in LoopEndpoint : \A i \in DOMAIN queues[b][e] :
        queues[b][e][i] \notin left_behind

\* The invariant of the buses: they are shared by id, wake who has a packet,
\* and forget a closed endpoint.
LoopbackInv == LoopbackTypeOK /\ SameIdSameBus /\ NoLostWakeup /\ NothingFromBeforeClose
=============================================================================
