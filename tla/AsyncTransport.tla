---------------------------- MODULE AsyncTransport ----------------------------
(***************************************************************************)
(* AsyncTransport: a queue of send jobs served by a pool of threads that   *)
(* start() creates and stop() joins.  One control thread calls start and   *)
(* stop; other threads call async_send at any time.  A job's completion    *)
(* callback may itself call async_send (to send the next job, or to send   *)
(* again).                                                                 *)
(*                                                                         *)
(* send_mutex_ protects the queue.  Only stop() holds it for more than one *)
(* step here: it drains the queue, callbacks included, under the lock.     *)
(* Waiting threads wake every 50 ms, so that a missed notification never   *)
(* blocks them.  The receive loop shares only running_ with all this.      *)
(***************************************************************************)
EXTENDS Integers, Sequences, FiniteSets

CONSTANTS
    Thread,    \* the pool's send threads
    Job,       \* jobs passed to async_send
    None,      \* no job
    Follow,    \* Follow[j]: the job that j's callback submits, or None
    MaxStarts  \* bound on calls of start

ASSUME AsyncAssumption ==
    /\ None \notin Job
    /\ Follow \in [Job -> Job \cup {None}]
    /\ MaxStarts \in Nat

VARIABLES
    running,   \* running_
    control,   \* where the control thread is: outside, or in which part of stop
    pc,        \* pc[t]: where send thread t is in send_loop, "none" if not alive
    held,      \* held[t]: the job t has taken from the queue
    queue,     \* send_queue_
    locked,    \* whether stop() holds send_mutex_
    submitted, \* jobs for which async_send was called
    fired,     \* fired[j]: how often j's callback was called
    starts     \* used up of MaxStarts

vars == <<running, control, pc, held, queue, locked, submitted, fired, starts>>

TypeOK ==
    /\ running \in BOOLEAN
    /\ control \in {"outside", "joining", "draining", "stuck"}
    /\ pc \in [Thread -> {"none", "top", "wait", "send", "callback"}]
    /\ held \in [Thread -> Job \cup {None}]
    /\ \A t \in Thread : held[t] \in Job <=> pc[t] \in {"send", "callback"}
    /\ queue \in Seq(Job)
    /\ locked \in BOOLEAN
    /\ submitted \in SUBSET Job
    /\ fired \in [Job -> Nat]
    /\ starts \in 0 .. MaxStarts

Init ==
    /\ running = FALSE
    /\ control = "outside"
    /\ pc = [t \in Thread |-> "none"]
    /\ held = [t \in Thread |-> None]
    /\ queue = <<>>
    /\ locked = FALSE
    /\ submitted = {}
    /\ fired = [j \in Job |-> 0]
    /\ starts = 0

-----------------------------------------------------------------------------
(* The control thread.                                                     *)

start ==
    /\ control = "outside"
    /\ ~running
    /\ starts < MaxStarts
    /\ running' = TRUE
    /\ pc' = [t \in Thread |-> "top"]
    /\ starts' = starts + 1
    /\ UNCHANGED <<control, held, queue, locked, submitted, fired>>

stop ==
    /\ control = "outside"
    /\ running
    /\ running' = FALSE
    /\ control' = "joining"
    /\ UNCHANGED <<pc, held, queue, locked, submitted, fired, starts>>

\* All threads have been joined: the drain takes the lock.
StopJoined ==
    /\ control = "joining"
    /\ \A t \in Thread : pc[t] = "none"
    /\ control' = "draining"
    /\ locked' = TRUE
    /\ UNCHANGED <<running, pc, held, queue, submitted, fired, starts>>

\* The callback of a drained job runs with the lock held: if it submits
\* another job, async_send waits for a mutex its own thread holds.
StopDrains ==
    /\ control = "draining"
    /\ queue # <<>>
    /\ queue' = Tail(queue)
    /\ fired' = [fired EXCEPT ![Head(queue)] = @ + 1]
    /\ control' = IF Follow[Head(queue)] \in Job \ submitted THEN "stuck" ELSE control
    /\ UNCHANGED <<running, pc, held, locked, submitted, starts>>

\* Mutation of StopReturns: the queue is not drained.
StopReturns_undrained ==
    /\ control = "draining"
    /\ control' = "outside"
    /\ locked' = FALSE
    /\ UNCHANGED <<running, pc, held, queue, submitted, fired, starts>>

StopReturns ==
    /\ control = "draining"
    /\ queue = <<>>
    /\ control' = "outside"
    /\ locked' = FALSE
    /\ UNCHANGED <<running, pc, held, queue, submitted, fired, starts>>

-----------------------------------------------------------------------------
(* Other threads.                                                          *)

\* A job's callback submits Follow, unless that was submitted before.
async_send(j) ==
    /\ ~locked
    /\ j \notin submitted
    /\ submitted' = submitted \cup {j}
    /\ queue' = Append(queue, j)

Submit(j) ==
    /\ \A k \in Job : Follow[k] # j
    /\ async_send(j)
    /\ UNCHANGED <<running, control, pc, held, locked, fired, starts>>

-----------------------------------------------------------------------------
(* send_loop.                                                              *)

\* The loop condition.
Top(t) ==
    /\ pc[t] = "top"
    /\ pc' = [pc EXCEPT ![t] = IF running THEN "wait" ELSE "none"]
    /\ UNCHANGED <<running, control, held, queue, locked, submitted, fired, starts>>

\* Mutations of Wake: the job is not popped; the wait ends for a job only.
Wake_unpopped(t) ==
    /\ pc[t] = "wait"
    /\ ~locked
    /\ IF queue = <<>>
       THEN /\ pc' = [pc EXCEPT ![t] = IF running THEN "top" ELSE "none"]
            /\ UNCHANGED held
       ELSE /\ pc' = [pc EXCEPT ![t] = "send"]
            /\ held' = [held EXCEPT ![t] = Head(queue)]
    /\ UNCHANGED <<running, control, queue, locked, submitted, fired, starts>>

Wake_untimed(t) ==
    /\ pc[t] = "wait"
    /\ ~locked
    /\ queue # <<>>
    /\ pc' = [pc EXCEPT ![t] = "send"]
    /\ held' = [held EXCEPT ![t] = Head(queue)]
    /\ queue' = Tail(queue)
    /\ UNCHANGED <<running, control, locked, submitted, fired, starts>>

\* wait_for returns, with the lock: a job, the end, or another round.
Wake(t) ==
    /\ pc[t] = "wait"
    /\ ~locked
    /\ IF queue = <<>>
       THEN /\ pc' = [pc EXCEPT ![t] = IF running THEN "top" ELSE "none"]
            /\ UNCHANGED <<held, queue>>
       ELSE /\ pc' = [pc EXCEPT ![t] = "send"]
            /\ held' = [held EXCEPT ![t] = Head(queue)]
            /\ queue' = Tail(queue)
    /\ UNCHANGED <<running, control, locked, submitted, fired, starts>>

\* inner_.send_to, then the callback, which may have to wait for the lock.
Complete(t) ==
    /\ pc[t] = "send"
    /\ pc' = [pc EXCEPT ![t] = "callback"]
    /\ fired' = [fired EXCEPT ![held[t]] = @ + 1]
    /\ UNCHANGED <<running, control, held, queue, locked, submitted, starts>>

Callback(t) ==
    /\ pc[t] = "callback"
    /\ IF Follow[held[t]] \in Job \ submitted
       THEN async_send(Follow[held[t]])
       ELSE UNCHANGED <<queue, submitted>>
    /\ pc' = [pc EXCEPT ![t] = "top"]
    /\ held' = [held EXCEPT ![t] = None]
    /\ UNCHANGED <<running, control, locked, fired, starts>>

send_loop(t) == Top(t) \/ Wake(t) \/ Complete(t) \/ Callback(t)

-----------------------------------------------------------------------------

Next ==
    \/ start \/ stop \/ StopJoined \/ StopDrains \/ StopReturns
    \/ \E j \in Job : Submit(j)
    \/ \E t \in Thread : send_loop(t)

Spec == Init /\ [][Next]_vars

\* Threads run, and a stop that was called goes on.
Fairness ==
    /\ \A t \in Thread : WF_vars(send_loop(t))
    /\ WF_vars(StopJoined \/ StopDrains \/ StopReturns)

FairSpec == Spec /\ Fairness

-----------------------------------------------------------------------------
(* Properties.                                                             *)

InQueue(j) == \E i \in DOMAIN queue : queue[i] = j

\* A submitted job is in exactly one place: queued once, taken by one thread,
\* or completed; and its callback is called exactly once, whoever races whom
\* when stop() drains what the threads have left.
ExactlyOnce ==
    \A j \in Job :
        LET places == Cardinality({i \in DOMAIN queue : queue[i] = j})
                      + Cardinality({t \in Thread : pc[t] = "send" /\ held[t] = j})
        IN  places + fired[j] = IF j \in submitted THEN 1 ELSE 0

\* While stop() joins or drains, no new thread appears and none takes a job
\* under its feet; once it has returned no thread is left behind.
StopIsFinal ==
    (~running /\ control # "joining") => \A t \in Thread : pc[t] = "none"

\* Every job that is queued while the transport runs is completed, by a
\* thread or by the drain, unless stop() never gets that far (StopTerminates).
RunningJobsComplete ==
    \A j \in Job : (InQueue(j) /\ running) ~> (fired[j] = 1 \/ control = "stuck")

\* async_transport.h: "Stop all I/O threads (blocks until joined)": stop
\* returns, unless a drained job's callback submits another job.
StopTerminates == (control = "joining") ~> (control \in {"outside", "stuck"})

\* The invariant of the pool: no job is lost or called back twice, and stop()
\* leaves no thread behind.
PoolInv == TypeOK /\ ExactlyOnce /\ StopIsFinal
=============================================================================
