-------------------------------- MODULE Iocp --------------------------------
(***************************************************************************)
(* IocpTransport: worker threads on a completion port.  The caller binds,  *)
(* starts, stops and closes the transport and queues sends; the kernel     *)
(* completes the operations it was given; each worker takes one completion *)
(* at a time.  A receive operation is named by the start() that allocated  *)
(* it, and its memory is freed when stop() returns.  A receive that the    *)
(* kernel refuses at once gives no completion, and nobody looks: it is     *)
(* never posted again.                                                     *)
(***************************************************************************)
EXTENDS Integers, Sequences, FiniteSets

CONSTANTS
    num_workers,
    MaxIocpStarts, MaxIocpSends,
    MaxArrivals,     \* receives that complete
    MaxRefused       \* receives of one start() that are refused

ASSUME IocpAssumption ==
    /\ num_workers \in Nat \ {0}
    /\ MaxIocpStarts \in Nat /\ MaxIocpSends \in Nat /\ MaxArrivals \in Nat
    /\ MaxRefused \in Nat

VARIABLES
    iocp_bound,      \* the socket and the port exist
    iocp_running,    \* running_
    caller,          \* where the caller's stop() is, and whether close() called it
    worker,          \* worker -> where its worker_loop is
    handling,        \* worker -> the completion it handles
    port,            \* completions not yet taken
    pending,         \* operations the kernel has
    recv_live,       \* generation of the allocated recv_ops, 0: none
    unposted,        \* receives that start() has yet to post
    refused,         \* history: receives of the last start() that were refused
    iocp_starts,
    port_starts,     \* starts since the port was made
    arrived,
    callbacks        \* send -> how often its callback was called

iocpVars == <<iocp_bound, iocp_running, caller, worker, handling, port, pending, recv_live,
              unposted, refused, iocp_starts, port_starts, arrived, callbacks>>

IocpWorker == 1 .. num_workers

Quit == [kind |-> "quit", id |-> 0, ok |-> TRUE]
RecvOp(gen) == [kind |-> "recv", id |-> gen]
SendOp(n) == [kind |-> "send", id |-> n]
Completion(op, ok) == [kind |-> op.kind, id |-> op.id, ok |-> ok]

IocpTypeOK ==
    /\ caller \in {"idle", "posting", "joining"} \X BOOLEAN
    /\ worker \in [IocpWorker -> {"none", "test", "get", "handle", "left"}]
    /\ recv_live \in 0 .. iocp_starts
    /\ iocp_running => iocp_bound /\ recv_live = iocp_starts
    /\ unposted \in 0 .. num_workers /\ refused \in Nat
    /\ \A op \in DOMAIN pending : pending[op] \in Nat
    /\ Len(callbacks) <= MaxIocpSends

IocpInit ==
    /\ iocp_bound = FALSE /\ iocp_running = FALSE
    /\ caller = <<"idle", FALSE>>
    /\ worker = [w \in IocpWorker |-> "none"]
    /\ handling = [w \in IocpWorker |-> Quit]
    /\ port = <<>>
    /\ pending = [op \in {} |-> 0]
    /\ recv_live = 0 /\ unposted = 0 /\ refused = 0
    /\ iocp_starts = 0 /\ port_starts = 0 /\ arrived = 0
    /\ callbacks = <<>>

\* How many of an operation the kernel has.
Pending(op) == IF op \in DOMAIN pending THEN pending[op] ELSE 0
Armed(op, n) == [o \in DOMAIN pending \cup {op} |-> IF o = op THEN Pending(op) + n ELSE pending[o]]

iocp_bind ==
    /\ ~iocp_bound /\ caller[1] = "idle"
    /\ iocp_bound' = TRUE
    /\ UNCHANGED <<iocp_running, caller, worker, handling, port, pending, recv_live, unposted,
                   refused, iocp_starts, port_starts, arrived, callbacks>>

\* start(), after bind(): first the operations and the workers,
iocp_start ==
    /\ iocp_bound /\ ~iocp_running /\ caller[1] = "idle" /\ iocp_starts < MaxIocpStarts
    /\ iocp_running' = TRUE
    /\ iocp_starts' = iocp_starts + 1 /\ port_starts' = port_starts + 1
    /\ recv_live' = iocp_starts'
    /\ worker' = [w \in IocpWorker |-> "test"]
    /\ unposted' = num_workers /\ refused' = 0
    /\ UNCHANGED <<iocp_bound, caller, handling, port, pending, arrived, callbacks>>

\* post_recv_operation: WSARecvFrom takes the operation or fails at once, and
\* its result is not looked at.
post_recv_operation(op) ==
    \/ pending' = Armed(op, 1) /\ UNCHANGED refused
    \/ /\ refused < MaxRefused
       /\ refused' = refused + 1
       /\ UNCHANGED pending

\* then, one by one, the receives.
PostRecv ==
    /\ unposted > 0
    /\ unposted' = unposted - 1
    /\ post_recv_operation(RecvOp(recv_live))
    /\ UNCHANGED <<iocp_bound, iocp_running, caller, worker, handling, port, recv_live,
                   iocp_starts, port_starts, arrived, callbacks>>

\* stop(), alone or from close(): first the flag,
iocp_stop(closing) ==
    /\ iocp_running /\ caller[1] = "idle" /\ unposted = 0
    /\ iocp_running' = FALSE
    /\ caller' = <<"posting", closing>>
    /\ UNCHANGED <<iocp_bound, worker, handling, port, pending, recv_live, unposted, refused,
                   iocp_starts, port_starts, arrived, callbacks>>

\* then one sentinel for each worker,
PostSentinels ==
    /\ caller[1] = "posting"
    /\ caller' = <<"joining", caller[2]>>
    /\ port' = port \o [w \in IocpWorker |-> Quit]
    /\ UNCHANGED <<iocp_bound, iocp_running, worker, handling, pending, recv_live, unposted,
                   refused, iocp_starts, port_starts, arrived, callbacks>>

\* The socket and the port go, and with them what they had.
Released(closing) ==
    IF closing
    THEN /\ iocp_bound' = FALSE /\ port' = <<>> /\ pending' = [op \in {} |-> 0] /\ port_starts' = 0
    ELSE UNCHANGED <<iocp_bound, port, pending, port_starts>>

\* Mutation of Joined: the operations are freed before the joins.
Joined_early ==
    /\ caller[1] = "joining" /\ recv_live # 0
    /\ recv_live' = 0
    /\ UNCHANGED <<iocp_bound, iocp_running, caller, worker, handling, port, pending, unposted,
                   refused, iocp_starts, port_starts, arrived, callbacks>>

\* and when the workers are joined, the receive operations are freed.
Joined ==
    /\ caller[1] = "joining"
    /\ \A w \in IocpWorker : worker[w] = "left"
    /\ worker' = [w \in IocpWorker |-> "none"]
    /\ recv_live' = 0
    /\ caller' = <<"idle", FALSE>>
    /\ Released(caller[2])
    /\ UNCHANGED <<iocp_running, handling, unposted, refused, iocp_starts, arrived, callbacks>>

\* close() of a transport that is not running.
iocp_close ==
    /\ iocp_bound /\ ~iocp_running /\ caller[1] = "idle"
    /\ Released(TRUE)
    /\ UNCHANGED <<iocp_running, caller, worker, handling, recv_live, unposted, refused,
                   iocp_starts, arrived, callbacks>>

\* async_send: pending with the kernel, or refused and called back at once.
iocp_async_send ==
    /\ Len(callbacks) < MaxIocpSends
    /\ \/ /\ iocp_bound
          /\ callbacks' = Append(callbacks, 0)
          /\ pending' = Armed(SendOp(Len(callbacks')), 1)
       \/ /\ callbacks' = Append(callbacks, 1)
          /\ UNCHANGED pending
    /\ UNCHANGED <<iocp_bound, iocp_running, caller, worker, handling, port, recv_live, unposted,
                   refused, iocp_starts, port_starts, arrived>>

\* The kernel completes an operation: a receive when a datagram arrives or fails.
KernelComplete(op, ok) ==
    /\ Pending(op) > 0
    /\ op.kind = "recv" => arrived < MaxArrivals
    /\ arrived' = IF op.kind = "recv" THEN arrived + 1 ELSE arrived
    /\ pending' = Armed(op, -1)
    /\ port' = Append(port, Completion(op, ok))
    /\ UNCHANGED <<iocp_bound, iocp_running, caller, worker, handling, recv_live, unposted,
                   refused, iocp_starts, port_starts, callbacks>>

-----------------------------------------------------------------------------
(* worker_loop.                                                            *)

TestRunning(w) ==
    /\ worker[w] = "test"
    /\ worker' = [worker EXCEPT ![w] = IF iocp_running THEN "get" ELSE "left"]
    /\ UNCHANGED <<iocp_bound, iocp_running, caller, handling, port, pending, recv_live, unposted,
                   refused, iocp_starts, port_starts, arrived, callbacks>>

\* GetQueuedCompletionStatus, which waits 100 ms at most.
GetCompletion(w) ==
    /\ worker[w] = "get"
    /\ \/ /\ port = <<>>
          /\ worker' = [worker EXCEPT ![w] = "test"]
          /\ UNCHANGED <<port, handling>>
       \/ /\ port # <<>>
          /\ port' = Tail(port)
          /\ handling' = [handling EXCEPT ![w] = Head(port)]
          /\ worker' = [worker EXCEPT ![w] = IF Head(port) = Quit THEN "left" ELSE "handle"]
    /\ UNCHANGED <<iocp_bound, iocp_running, caller, pending, recv_live, unposted, refused,
                   iocp_starts, port_starts, arrived, callbacks>>

\* Mutation of HandleSend: a failed send is freed without a callback.
HandleSend_silent(w) ==
    /\ worker[w] = "handle" /\ handling[w].kind = "send"
    /\ callbacks' = IF handling[w].ok THEN [callbacks EXCEPT ![handling[w].id] = @ + 1] ELSE callbacks
    /\ worker' = [worker EXCEPT ![w] = "test"]
    /\ handling' = [handling EXCEPT ![w] = Quit]
    /\ UNCHANGED <<iocp_bound, iocp_running, caller, port, pending, recv_live, unposted, refused,
                   iocp_starts, port_starts, arrived>>

\* The callback, with the outcome, and the end of the operation.
HandleSend(w) ==
    /\ worker[w] = "handle" /\ handling[w].kind = "send"
    /\ callbacks' = [callbacks EXCEPT ![handling[w].id] = @ + 1]
    /\ worker' = [worker EXCEPT ![w] = "test"]
    /\ handling' = [handling EXCEPT ![w] = Quit]
    /\ UNCHANGED <<iocp_bound, iocp_running, caller, port, pending, recv_live, unposted, refused,
                   iocp_starts, port_starts, arrived>>

\* The handler, and the operation is posted again, whatever its outcome.
HandleRecv(w) ==
    /\ worker[w] = "handle" /\ handling[w].kind = "recv"
    /\ IF iocp_running THEN post_recv_operation(RecvOp(handling[w].id))
       ELSE UNCHANGED <<pending, refused>>
    /\ worker' = [worker EXCEPT ![w] = "test"]
    /\ handling' = [handling EXCEPT ![w] = Quit]
    /\ UNCHANGED <<iocp_bound, iocp_running, caller, port, recv_live, unposted, iocp_starts,
                   port_starts, arrived, callbacks>>

WorkerStep(w) == TestRunning(w) \/ GetCompletion(w) \/ HandleSend(w) \/ HandleRecv(w)

IocpNext ==
    \/ iocp_bind
    \/ iocp_start \/ PostRecv
    \/ \E closing \in BOOLEAN : iocp_stop(closing)
    \/ PostSentinels
    \/ Joined
    \/ iocp_close
    \/ iocp_async_send
    \/ \E op \in DOMAIN pending, ok \in BOOLEAN : KernelComplete(op, ok)
    \/ \E w \in IocpWorker : TestRunning(w) \/ GetCompletion(w) \/ HandleSend(w) \/ HandleRecv(w)

IocpSpec == IocpInit /\ [][IocpNext]_iocpVars

\* The threads run, a start() or stop() that was called goes on, and the kernel completes
\* every send it accepted.
IocpFairness ==
    /\ \A w \in 1 .. num_workers : WF_iocpVars(WorkerStep(w))
    /\ WF_iocpVars(PostRecv \/ PostSentinels \/ Joined)
    /\ \A n \in 1 .. MaxIocpSends : WF_iocpVars(\E ok \in BOOLEAN : KernelComplete(SendOp(n), ok))

-----------------------------------------------------------------------------
\* Until it is restarted on the same port, the transport keeps its promises;
\* a restart leaves the sentinels and the receives of the last start behind.
FirstStart == port_starts <= 1

InTransit(n) ==
    \/ Pending(SendOp(n)) > 0
    \/ \E i \in DOMAIN port : port[i].kind = "send" /\ port[i].id = n

\* A worker touches an operation only while it is allocated: stop() frees the
\* receive operations after it has joined every worker.
HandledOpsLive ==
    FirstStart => \A w \in IocpWorker :
        worker[w] = "handle" /\ handling[w].kind = "recv" => handling[w].id = recv_live

\* While the transport runs no worker leaves, and no receive slot is lost but to
\* a refusal, which nothing makes good: each receive operation is with the
\* kernel, in the port, in a worker's hands or yet to be posted, or was refused.
NoSlotLost ==
    FirstStart /\ iocp_running =>
        /\ \A w \in IocpWorker : worker[w] # "left"
        /\ Pending(RecvOp(recv_live))
             + Cardinality({i \in DOMAIN port : port[i].kind = "recv"})
             + Cardinality({w \in IocpWorker : worker[w] = "handle" /\ handling[w].kind = "recv"})
             + unposted + refused
           = num_workers

\* A send's callback is called at most once.
CalledAtMostOnce == \A n \in DOMAIN callbacks : callbacks[n] <= 1

\* A send the kernel or the port has, of a transport that keeps running, is
\* called back; close() forgets the others without a callback.
SendsAnswered ==
    \A n \in 1 .. MaxIocpSends :
        (InTransit(n) /\ iocp_running) ~>
            (n \in DOMAIN callbacks /\ callbacks[n] > 0) \/ ~iocp_running \/ ~FirstStart

\* The invariant of the completion port: no freed operation is touched, no
\* receive slot is lost but to a refusal and no send is called back twice.
IocpInv == IocpTypeOK /\ HandledOpsLive /\ NoSlotLost /\ CalledAtMostOnce
=============================================================================
