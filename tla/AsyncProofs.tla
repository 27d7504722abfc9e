---------------------------- MODULE AsyncProofs -----------------------------
(***************************************************************************)
(* The asynchronous transports: the I/O completion port and the thread     *)
(* pool.                                                                   *)
(***************************************************************************)
EXTENDS Iocp, AsyncTransport, FiniteSetTheorems, TLAPS

\* A leaf that names no prover is left to Zenon; the others need arithmetic.
USE ZenonT(60)

-----------------------------------------------------------------------------
(***************************************************************************)
(* IocpTransport: every send is answered once, however the completions,    *)
(* the receives and close() interleave.                                    *)
(***************************************************************************)

Comp == [kind : {"quit", "recv", "send"}, id : Nat, ok : BOOLEAN]

\* How many of an operation are in p.
Has(p, op) == IF op \in DOMAIN p THEN p[op] ELSE 0

\* A completion that is handled, and not a sentinel.
Handles(w, kind) == worker[w] = "handle" /\ handling[w].kind = kind

\* The parts of the state that the phases of start() and stop() determine.
PhaseOK ==
    /\ iocp_bound \in BOOLEAN /\ iocp_running \in BOOLEAN
    /\ caller \in {"idle", "posting", "joining"} \X BOOLEAN
    /\ worker \in [IocpWorker -> {"none", "test", "get", "handle", "left"}]
    /\ iocp_starts \in Nat /\ port_starts \in Nat /\ arrived \in Nat
    /\ recv_live \in 0 .. iocp_starts
    /\ unposted \in 0 .. num_workers /\ refused \in Nat /\ (unposted # 0 => iocp_running)
    /\ iocp_running \/ caller[1] # "idle" =>
           iocp_bound /\ port_starts > 0 /\ recv_live = iocp_starts /\ iocp_starts > 0
    /\ iocp_running => caller[1] = "idle"
    /\ ~iocp_running /\ caller[1] = "idle" => \A w \in IocpWorker : worker[w] = "none"
    /\ iocp_running /\ FirstStart => \A w \in IocpWorker : worker[w] \notin {"none", "left"}

\* c is a completion of an operation that was given to the kernel, or a
\* sentinel.
IsCompletion(c) ==
    \/ c = Quit
    \/ c.kind = "recv" /\ c.id \in Nat
    \/ c.kind = "send" /\ c.id \in DOMAIN callbacks

OpsOK ==
    /\ callbacks \in Seq(Nat) /\ Len(callbacks) <= MaxIocpSends
    /\ \A op \in DOMAIN pending :
           /\ pending[op] \in Nat
           /\ (\E g \in Nat : op = RecvOp(g)) \/ (\E n \in DOMAIN callbacks : op = SendOp(n))
    /\ port \in Seq(Comp)
    /\ \A i \in DOMAIN port : IsCompletion(port[i])
    /\ handling \in [IocpWorker -> Comp]
    /\ \A w \in IocpWorker : worker[w] = "handle" => handling[w].kind # "quit" /\ IsCompletion(handling[w])

\* The receive operations and sentinels that a port has of its starts.
PortOK ==
    /\ port_starts = 0 =>
           /\ \A op \in DOMAIN pending : op.kind # "recv"
           /\ \A i \in DOMAIN port : port[i].kind = "send"
    /\ port_starts = 1 =>
           /\ \A op \in DOMAIN pending : op.kind = "recv" => op.id = iocp_starts
           /\ \A i \in DOMAIN port : port[i].kind = "recv" => port[i].id = iocp_starts
           /\ \A w \in IocpWorker : Handles(w, "recv") => handling[w].id = iocp_starts
    /\ FirstStart /\ iocp_running => \A i \in DOMAIN port : port[i].kind # "quit"

\* A send is with the kernel, in the port, in the hands of one worker or
\* called back: in at most one of these places, and once.
SendOnce(n) ==
    /\ callbacks[n] <= 1 /\ Has(pending, SendOp(n)) <= 1
    /\ Has(pending, SendOp(n)) > 0 =>
           /\ callbacks[n] = 0
           /\ \A i \in DOMAIN port : port[i].kind = "send" => port[i].id # n
           /\ \A w \in IocpWorker : Handles(w, "send") => handling[w].id # n
    /\ \A i \in DOMAIN port : port[i].kind = "send" /\ port[i].id = n =>
           /\ callbacks[n] = 0
           /\ \A j \in DOMAIN port : port[j].kind = "send" /\ port[j].id = n => i = j
           /\ \A w \in IocpWorker : Handles(w, "send") => handling[w].id # n
    /\ \A w \in IocpWorker : Handles(w, "send") /\ handling[w].id = n =>
           /\ callbacks[n] = 0
           /\ \A v \in IocpWorker : Handles(v, "send") /\ handling[v].id = n => v = w

SendsOnce == \A n \in DOMAIN callbacks : SendOnce(n)

RecvInPort(p) == {i \in DOMAIN p : p[i].kind = "recv"}
RecvInHand == {w \in IocpWorker : Handles(w, "recv")}

\* Each receive operation is somewhere, yet to be posted or refused.
SlotsOK ==
    FirstStart /\ iocp_running =>
        Has(pending, RecvOp(recv_live)) + Cardinality(RecvInPort(port)) + Cardinality(RecvInHand)
            + unposted + refused = num_workers

\* What IocpInv needs to be inductive.
IocpIInv == PhaseOK /\ OpsOK /\ PortOK /\ SendsOnce /\ SlotsOK

-----------------------------------------------------------------------------

\* What posting an operation changes.
LEMMA ArmedFacts ==
    ASSUME OpsOK, NEW op, NEW k \in Int, pending' = Armed(op, k)
    PROVE  /\ DOMAIN pending' = DOMAIN pending \cup {op}
           /\ \A o : o # op => Has(pending', o) = Has(pending, o)
           /\ \A o \in DOMAIN pending : o # op => pending'[o] = pending[o]
           /\ Has(pending', op) = Has(pending, op) + k /\ pending'[op] = Has(pending, op) + k
           /\ Has(pending, op) \in Nat
<1>1. Has(pending, op) = Pending(op) /\ Has(pending, op) \in Nat
  BY DEF Has, Pending, OpsOK
<1>2. /\ DOMAIN pending' = DOMAIN pending \cup {op}
      /\ \A o \in DOMAIN pending' : pending'[o] = IF o = op THEN Pending(op) + k ELSE pending[o]
  BY DEF Armed
<1> QED
  BY <1>1, <1>2 DEF Has

\* Posting a receive gives it to the kernel or to nobody.
LEMMA PostFacts ==
    ASSUME OpsOK, refused \in Nat, NEW op, post_recv_operation(op)
    PROVE  /\ DOMAIN pending \subseteq DOMAIN pending' /\ DOMAIN pending' \subseteq DOMAIN pending \cup {op}
           /\ \A o : o # op => Has(pending', o) = Has(pending, o)
           /\ \A o \in DOMAIN pending' : pending'[o] \in Nat
           /\ Has(pending, op) \in Nat /\ Has(pending', op) \in Nat /\ refused' \in Nat
           /\ Has(pending', op) + refused' = Has(pending, op) + refused + 1
<1>1. \A o \in DOMAIN pending : pending[o] \in Nat
  BY DEF OpsOK
<1>2. CASE pending' = Armed(op, 1) /\ refused' = refused
  <2>1. 1 \in Int
    BY SMTT(60)
  <2>2. /\ DOMAIN pending' = DOMAIN pending \cup {op}
        /\ \A o : o # op => Has(pending', o) = Has(pending, o)
        /\ \A o \in DOMAIN pending : o # op => pending'[o] = pending[o]
        /\ Has(pending', op) = Has(pending, op) + 1 /\ pending'[op] = Has(pending, op) + 1
        /\ Has(pending, op) \in Nat
    BY <1>2, <2>1, ArmedFacts
  <2>3. \A o \in DOMAIN pending' : pending'[o] \in Nat
    BY <1>1, <2>2, SMTT(60)
  <2>4. /\ Has(pending', op) \in Nat
        /\ Has(pending', op) + refused' = Has(pending, op) + refused + 1
    BY <1>2, <2>2, SMTT(60)
  <2> QED
    BY <1>2, <2>2, <2>3, <2>4
<1>3. CASE pending' = pending /\ refused' = refused + 1
  <2>1. Has(pending, op) \in Nat
    BY <1>1 DEF Has
  <2>2. refused' \in Nat /\ Has(pending, op) + refused' = Has(pending, op) + refused + 1
    BY <1>3, <2>1, SMTT(60)
  <2> QED
    BY <1>1, <1>3, <2>1, <2>2
<1> QED
  BY <1>2, <1>3 DEF post_recv_operation

\* The operations have different names.
LEMMA OpNames ==
    /\ \A g : RecvOp(g).kind = "recv" /\ RecvOp(g).id = g
    /\ \A n : SendOp(n).kind = "send" /\ SendOp(n).id = n
    /\ \A g, n : RecvOp(g) # SendOp(n)
    /\ \A n, m : SendOp(n) = SendOp(m) => n = m
    /\ Quit \in Comp /\ Quit.kind = "quit"
<1>1. \A g : RecvOp(g).kind = "recv" /\ RecvOp(g).id = g
  BY DEF RecvOp
<1>2. \A n : SendOp(n).kind = "send" /\ SendOp(n).id = n
  BY DEF SendOp
<1>3. \A g, n : RecvOp(g) # SendOp(n)
  <2> TAKE g, n
  <2>1. RecvOp(g).kind # SendOp(n).kind
    BY <1>1, <1>2
  <2> QED
    BY <2>1
<1>4. \A n, m : SendOp(n) = SendOp(m) => n = m
  BY <1>2, SMTT(60)
<1>5. Quit \in Comp /\ Quit.kind = "quit"
  BY DEF Quit, Comp
<1> QED
  BY <1>1, <1>2, <1>3, <1>4, <1>5

\* A step that takes no send further.
LEMMA SendsFrame ==
    ASSUME SendsOnce, callbacks' = callbacks,
           \A n \in DOMAIN callbacks :
               Has(pending', SendOp(n)) = Has(pending, SendOp(n)) \/ Has(pending', SendOp(n)) = 0,
           \A i \in DOMAIN port' : port'[i].kind = "send" => i \in DOMAIN port /\ port'[i] = port[i],
           \A w \in IocpWorker : worker'[w] = "handle" /\ handling'[w].kind = "send" =>
                                     worker[w] = "handle" /\ handling'[w] = handling[w]
    PROVE  SendsOnce'
<1> SUFFICES ASSUME NEW n \in DOMAIN callbacks
             PROVE  /\ callbacks[n] <= 1 /\ Has(pending', SendOp(n)) <= 1
                    /\ Has(pending', SendOp(n)) > 0 =>
                           /\ callbacks[n] = 0
                           /\ \A i \in DOMAIN port' : port'[i].kind = "send" => port'[i].id # n
                           /\ \A w \in IocpWorker : Handles(w, "send")' => handling'[w].id # n
                    /\ \A i \in DOMAIN port' : port'[i].kind = "send" /\ port'[i].id = n =>
                           /\ callbacks[n] = 0
                           /\ \A j \in DOMAIN port' : port'[j].kind = "send" /\ port'[j].id = n => i = j
                           /\ \A w \in IocpWorker : Handles(w, "send")' => handling'[w].id # n
                    /\ \A w \in IocpWorker : Handles(w, "send")' /\ handling'[w].id = n =>
                           /\ callbacks[n] = 0
                           /\ \A v \in IocpWorker : Handles(v, "send")' /\ handling'[v].id = n => v = w
  <2> SUFFICES ASSUME NEW n \in DOMAIN callbacks PROVE SendOnce(n)'
    BY DEF SendsOnce
  <2> QED
    BY SMTT(60) DEF SendOnce
<1>1. \A w \in IocpWorker : Handles(w, "send")' => Handles(w, "send") /\ handling'[w] = handling[w]
  BY DEF Handles
<1>2. callbacks[n] <= 1 /\ Has(pending', SendOp(n)) <= 1
  BY SMTT(60) DEF SendsOnce, SendOnce
<1>3. ASSUME Has(pending', SendOp(n)) > 0
      PROVE  /\ callbacks[n] = 0
             /\ \A i \in DOMAIN port' : port'[i].kind = "send" => port'[i].id # n
             /\ \A w \in IocpWorker : Handles(w, "send")' => handling'[w].id # n
  <2>1. Has(pending, SendOp(n)) > 0
    BY <1>3, SMTT(60)
  <2> QED
    BY <1>1, <2>1, SMTT(60) DEF SendsOnce, SendOnce
<1>4. ASSUME NEW i \in DOMAIN port', port'[i].kind = "send", port'[i].id = n
      PROVE  /\ callbacks[n] = 0
             /\ \A j \in DOMAIN port' : port'[j].kind = "send" /\ port'[j].id = n => i = j
             /\ \A w \in IocpWorker : Handles(w, "send")' => handling'[w].id # n
  BY <1>1, <1>4, SMTT(60) DEF SendsOnce, SendOnce
<1>5. ASSUME NEW w \in IocpWorker, Handles(w, "send")', handling'[w].id = n
      PROVE  /\ callbacks[n] = 0
             /\ \A v \in IocpWorker : Handles(v, "send")' /\ handling'[v].id = n => v = w
  BY <1>1, <1>5, SMTT(60) DEF SendsOnce, SendOnce
<1> QED
  BY <1>2, <1>3, <1>4, <1>5

-----------------------------------------------------------------------------
(* The caller.                                                             *)

\* bind() makes a port without operations.
LEMMA BindKeeps ==
    ASSUME IocpIInv, iocp_bind
    PROVE  IocpIInv'
<1>1. /\ iocp_bound' = TRUE
      /\ UNCHANGED <<iocp_running, caller, worker, handling, port, pending, recv_live, unposted, refused,
                     iocp_starts, port_starts, arrived, callbacks>>
  BY DEF iocp_bind
<1>2. PhaseOK'
  BY <1>1 DEF IocpIInv, PhaseOK, FirstStart
<1>3. OpsOK' /\ PortOK'
  BY <1>1 DEF IocpIInv, OpsOK, PortOK, IsCompletion, Handles, FirstStart
<1>4. SendsOnce'
  BY <1>1, SendsFrame DEF IocpIInv
<1>5. SlotsOK'
  <2>1. RecvInHand' = RecvInHand
    BY <1>1 DEF RecvInHand, Handles
  <2> QED
    BY <1>1, <2>1 DEF IocpIInv, SlotsOK, FirstStart
<1> QED
  BY <1>2, <1>3, <1>4, <1>5 DEF IocpIInv

\* stop() clears the flag.
LEMMA StopKeeps ==
    ASSUME IocpIInv, NEW closing \in BOOLEAN, iocp_stop(closing)
    PROVE  IocpIInv'
<1>1. /\ iocp_running /\ unposted = 0 /\ iocp_running' = FALSE /\ caller' = <<"posting", closing>>
      /\ UNCHANGED <<iocp_bound, worker, handling, port, pending, recv_live, unposted, refused, iocp_starts,
                     port_starts, arrived, callbacks>>
  BY DEF iocp_stop
<1>2. PhaseOK'
  BY <1>1 DEF IocpIInv, PhaseOK, FirstStart
<1>3. OpsOK' /\ PortOK' /\ SlotsOK'
  BY <1>1 DEF IocpIInv, OpsOK, PortOK, IsCompletion, Handles, FirstStart, SlotsOK
<1>4. SendsOnce'
  BY <1>1, SendsFrame DEF IocpIInv
<1> QED
  BY <1>2, <1>3, <1>4 DEF IocpIInv

\* Two sequences in a row.
LEMMA Concatenated ==
    ASSUME NEW a \in Seq(Comp), NEW b \in Seq(Comp)
    PROVE  /\ a \o b \in Seq(Comp) /\ Len(a \o b) = Len(a) + Len(b)
           /\ \A i \in 1 .. Len(a) : (a \o b)[i] = a[i]
           /\ \A i \in Len(a) + 1 .. Len(a) + Len(b) : (a \o b)[i] = b[i - Len(a)]
  BY SMTT(60)

\* The sentinels follow what is in the port.
LEMMA SentinelsKeep ==
    ASSUME IocpIInv, PostSentinels
    PROVE  IocpIInv'
<1> DEFINE q == [w \in IocpWorker |-> Quit]
<1>1. /\ caller[1] = "posting" /\ caller' = <<"joining", caller[2]>> /\ port' = port \o q
      /\ UNCHANGED <<iocp_bound, iocp_running, worker, handling, pending, recv_live, unposted, refused,
                     iocp_starts, port_starts, arrived, callbacks>>
  BY DEF PostSentinels
<1>2. num_workers \in Nat /\ q \in Seq(Comp) /\ Len(q) = num_workers /\ \A i \in 1 .. num_workers : q[i] = Quit
  <2>1. num_workers \in Nat /\ Quit \in Comp
    BY IocpAssumption, OpNames
  <2>2. q \in [1 .. num_workers -> Comp] /\ \A i \in 1 .. num_workers : q[i] = Quit
    BY <2>1 DEF IocpWorker
  <2> HIDE DEF q
  <2>3. q \in Seq(Comp) /\ Len(q) = num_workers
    BY <2>1, <2>2, SMTT(60)
  <2> QED
    BY <2>1, <2>2, <2>3
<1> HIDE DEF q
<1>3. port \in Seq(Comp) /\ DOMAIN port = 1 .. Len(port) /\ Len(port) \in Nat
  BY SMTT(60) DEF IocpIInv, OpsOK
<1>4. /\ port' \in Seq(Comp) /\ DOMAIN port' = 1 .. Len(port) + num_workers
      /\ \A i \in DOMAIN port' : (i \in DOMAIN port /\ port'[i] = port[i]) \/ port'[i] = Quit
  <2>1. port' \in Seq(Comp) /\ Len(port') = Len(port) + num_workers
    BY <1>1, <1>2, <1>3, Concatenated
  <2>2. ASSUME NEW i \in 1 .. Len(port) + num_workers
        PROVE  (i \in 1 .. Len(port) /\ port'[i] = port[i]) \/ port'[i] = Quit
    <3>1. CASE i \in 1 .. Len(port)
      BY <1>1, <1>2, <1>3, <3>1, Concatenated
    <3>2. CASE i \notin 1 .. Len(port)
      <4>1. i - Len(port) \in 1 .. num_workers /\ port'[i] = q[i - Len(port)]
        <5>1. i \in Len(port) + 1 .. Len(port) + Len(q) /\ i - Len(port) \in 1 .. num_workers
          BY <1>2, <1>3, <3>2, SMTT(60)
        <5> QED
          BY <1>1, <1>2, <1>3, <5>1, Concatenated
      <4> QED
        BY <1>2, <4>1
    <3> QED
      BY <3>1, <3>2
  <2> QED
    BY <1>3, <2>1, <2>2, SMTT(60)
<1>5. PhaseOK' /\ ~iocp_running
  BY <1>1 DEF IocpIInv, PhaseOK, FirstStart
<1>6. Quit.kind # "recv" /\ Quit.kind # "send" /\ port_starts # 0
  BY <1>1, OpNames, SMTT(60) DEF IocpIInv, PhaseOK
<1>7. OpsOK'
  BY <1>1, <1>4 DEF IocpIInv, OpsOK, IsCompletion
<1>8. PortOK' /\ SlotsOK'
  BY <1>1, <1>4, <1>5, <1>6 DEF IocpIInv, PortOK, SlotsOK, Handles, FirstStart
<1>9. SendsOnce'
  <2>1. \A i \in DOMAIN port' : port'[i].kind = "send" => i \in DOMAIN port /\ port'[i] = port[i]
    BY <1>4, <1>6
  <2> QED
    BY <1>1, <2>1, SendsFrame DEF IocpIInv
<1> QED
  BY <1>5, <1>7, <1>8, <1>9 DEF IocpIInv

-----------------------------------------------------------------------------
(* Counting receive operations.                                            *)

\* A sequence of completions holds finitely many.
LEMMA RecvFinite ==
    ASSUME NEW p \in Seq(Comp)
    PROVE  IsFiniteSet(RecvInPort(p)) /\ Cardinality(RecvInPort(p)) \in Nat
<1>1. IsFiniteSet(1 .. Len(p)) /\ RecvInPort(p) \in SUBSET (1 .. Len(p))
  BY FS_Interval, SMTT(60) DEF RecvInPort
<1>2. IsFiniteSet(RecvInPort(p))
  BY <1>1, FS_Subset
<1> QED
  BY <1>2, FS_CardinalityType

\* A completion is appended.
LEMMA RecvAppended ==
    ASSUME NEW p \in Seq(Comp), NEW c \in Comp
    PROVE  Cardinality(RecvInPort(Append(p, c))) =
               Cardinality(RecvInPort(p)) + (IF c.kind = "recv" THEN 1 ELSE 0)
<1> DEFINE R == RecvInPort(p)
           T == RecvInPort(Append(p, c))
           n == Len(p) + 1
<1>1. /\ DOMAIN Append(p, c) = 1 .. n /\ DOMAIN p = 1 .. Len(p) /\ Len(p) \in Nat
      /\ Append(p, c)[n] = c /\ \A i \in 1 .. Len(p) : Append(p, c)[i] = p[i]
  BY SMTT(60)
<1>2. \A i \in 1 .. n : i \in 1 .. Len(p) \/ i = n
  BY <1>1, SMTT(60)
<1>3. n \notin R /\ n \in 1 .. n /\ \A i \in 1 .. Len(p) : i \in 1 .. n
  BY <1>1, SMTT(60) DEF RecvInPort
<1>4. T = IF c.kind = "recv" THEN R \cup {n} ELSE R
  BY <1>1, <1>2, <1>3 DEF RecvInPort
<1>5. IsFiniteSet(R) /\ Cardinality(R) \in Nat
  BY RecvFinite
<1> HIDE DEF R, T, n
<1>6. Cardinality(R \cup {n}) = Cardinality(R) + 1
  BY <1>3, <1>5, FS_AddElement
<1>7. Cardinality(T) = Cardinality(R) + (IF c.kind = "recv" THEN 1 ELSE 0)
  BY <1>4, <1>5, <1>6, SMTT(60)
<1> QED
  BY <1>7 DEF R, T

\* The first completion is taken.
LEMMA RecvTaken ==
    ASSUME NEW p \in Seq(Comp), p # <<>>
    PROVE  Cardinality(RecvInPort(p)) =
               Cardinality(RecvInPort(Tail(p))) + (IF Head(p).kind = "recv" THEN 1 ELSE 0)
<1> DEFINE t == Tail(p)
           R == RecvInPort(p)
           T == RecvInPort(t)
           f == [i \in T |-> i + 1]
<1>1. /\ DOMAIN p = 1 .. Len(p) /\ Len(p) \in Nat /\ Len(p) >= 1 /\ Head(p) = p[1] /\ t \in Seq(Comp)
  BY SMTT(60)
<1>2. DOMAIN t = 1 .. Len(p) - 1 /\ \A i \in 1 .. Len(p) - 1 : t[i] = p[i + 1] /\ i + 1 \in DOMAIN p
  BY <1>1, SMTT(60)
<1>3. T = {i \in 1 .. Len(p) - 1 : p[i + 1].kind = "recv"} /\ R = {i \in 1 .. Len(p) : p[i].kind = "recv"}
  BY <1>1, <1>2 DEF RecvInPort
<1>4. IsFiniteSet(T) /\ IsFiniteSet(R) /\ Cardinality(R) \in Nat /\ Cardinality(T) \in Nat
  BY <1>1, RecvFinite
<1> HIDE DEF T, R
<1>5. f \in Bijection(T, R \ {1})
  <2>1. f \in [T -> R \ {1}]
    BY <1>1, <1>3, SMTT(60)
  <2>2. \A i, j \in T : f[i] = f[j] => i = j
    BY <1>1, <1>3, SMTT(60)
  <2>3. \A k \in R \ {1} : \E i \in T : f[i] = k
    <3> SUFFICES ASSUME NEW k \in R \ {1} PROVE k - 1 \in T /\ f[k - 1] = k
      OBVIOUS
    <3>1. k \in 1 .. Len(p) /\ k # 1 /\ p[k].kind = "recv" /\ k - 1 \in 1 .. Len(p) - 1 /\ (k - 1) + 1 = k
      BY <1>1, <1>3, SMTT(60)
    <3> QED
      BY <1>3, <3>1
  <2> HIDE DEF f
  <2> QED
    BY <2>1, <2>2, <2>3 DEF Bijection, Injection, Surjection, IsInjective
<1> HIDE DEF f
<1>6. Cardinality(R \ {1}) = Cardinality(T)
  <2>1. ExistsBijection(T, R \ {1})
    BY <1>5 DEF ExistsBijection
  <2> QED
    BY <1>4, <2>1, FS_Bijection
<1>7. Cardinality(R \ {1}) = IF 1 \in R THEN Cardinality(R) - 1 ELSE Cardinality(R)
  BY <1>4, FS_RemoveElement
<1>8. 1 \in R <=> Head(p).kind = "recv"
  BY <1>1, <1>3, SMTT(60)
<1>9. Cardinality(R) = Cardinality(T) + (IF Head(p).kind = "recv" THEN 1 ELSE 0)
  BY <1>4, <1>6, <1>7, <1>8, SMTT(60)
<1> QED
  BY <1>9 DEF R, T

\* Finitely many workers handle a receive operation.
LEMMA HandFinite ==
    IsFiniteSet(RecvInHand) /\ Cardinality(RecvInHand) \in Nat
<1>1. IsFiniteSet(1 .. num_workers) /\ RecvInHand \in SUBSET (1 .. num_workers)
  BY IocpAssumption, FS_Interval, SMTT(60) DEF RecvInHand, IocpWorker
<1>2. IsFiniteSet(RecvInHand)
  BY <1>1, FS_Subset
<1> QED
  BY <1>2, FS_CardinalityType

-----------------------------------------------------------------------------

\* start() on a new port has the only receive operations and no sentinels.
LEMMA StartKeeps ==
    ASSUME IocpIInv, iocp_start
    PROVE  IocpIInv'
<1> DEFINE s == iocp_starts + 1
<1>0. num_workers \in Nat
  BY IocpAssumption
<1>1. /\ iocp_bound /\ ~iocp_running /\ caller[1] = "idle" /\ iocp_running' = TRUE
      /\ iocp_starts' = s /\ port_starts' = port_starts + 1 /\ recv_live' = s
      /\ worker' = [w \in IocpWorker |-> "test"] /\ unposted' = num_workers /\ refused' = 0
      /\ UNCHANGED <<iocp_bound, caller, handling, port, pending, arrived, callbacks>>
  BY DEF iocp_start
<1>2. PhaseOK /\ OpsOK /\ PortOK /\ SendsOnce
  BY DEF IocpIInv
<1>3. iocp_starts \in Nat /\ port_starts \in Nat /\ s \in Nat /\ s > 0
  BY <1>2, SMTT(60) DEF PhaseOK
<1>5. PhaseOK'
  <2>1. worker' \in [IocpWorker -> {"none", "test", "get", "handle", "left"}]
        /\ \A w \in IocpWorker : worker'[w] = "test"
    BY <1>1
  <2>2. recv_live' \in 0 .. iocp_starts' /\ iocp_starts' \in Nat /\ iocp_starts' > 0
        /\ port_starts' \in Nat /\ port_starts' > 0
        /\ unposted' \in 0 .. num_workers /\ refused' \in Nat
    BY <1>0, <1>1, <1>3, SMTT(60)
  <2>3. iocp_running' \in BOOLEAN /\ iocp_bound' \in BOOLEAN /\ arrived' \in Nat
        /\ caller' \in {"idle", "posting", "joining"} \X BOOLEAN
    BY <1>1, <1>2 DEF PhaseOK
  <2> QED
    BY <1>1, <2>1, <2>2, <2>3 DEF PhaseOK
<1>6. OpsOK'
  <2>1. \A w \in IocpWorker : worker'[w] # "handle"
    BY <1>1
  <2> QED
    BY <1>1, <1>2, <2>1 DEF OpsOK, IsCompletion
<1>7. PortOK'
  <2>1. port_starts' # 0
    BY <1>1, <1>3, SMTT(60)
  <2>2. ASSUME port_starts' <= 1 PROVE port_starts = 0
    BY <1>1, <1>3, <2>2, SMTT(60)
  <2>3. \A w \in IocpWorker : ~Handles(w, "recv")'
    BY <1>1 DEF Handles
  <2>4. ASSUME port_starts = 0
        PROVE  /\ \A op \in DOMAIN pending' : op.kind = "recv" => op.id = iocp_starts'
               /\ \A i \in DOMAIN port' : port'[i].kind # "recv" /\ port'[i].kind # "quit"
    BY <1>1, <1>2, <2>4, OpNames DEF PortOK
  <2>5. port_starts' = 1 => port_starts' <= 1
    BY SMTT(60)
  <2> QED
    BY <2>1, <2>2, <2>3, <2>4, <2>5 DEF PortOK, FirstStart
<1>8. SendsOnce'
  <2>1. \A w \in IocpWorker : worker'[w] # "handle"
    BY <1>1
  <2> QED
    BY <1>1, <1>2, <2>1, SendsFrame
<1>9. SlotsOK'
  <2> SUFFICES ASSUME port_starts' <= 1
               PROVE  Has(pending, RecvOp(s)) + Cardinality(RecvInPort(port)) + Cardinality(RecvInHand')
                        + num_workers + 0 = num_workers
    BY <1>1 DEF SlotsOK, FirstStart
  <2>1. port_starts = 0
    BY <1>1, <1>3, SMTT(60)
  <2>2. RecvInHand' = {}
    BY <1>1 DEF RecvInHand, Handles
  <2>3. RecvInPort(port) = {}
    BY <1>2, <2>1 DEF PortOK, RecvInPort
  <2>4. Has(pending, RecvOp(s)) = 0
    BY <1>2, <2>1, OpNames DEF PortOK, Has
  <2>5. Cardinality({}) = 0
    BY FS_EmptySet
  <2> QED
    BY <1>0, <2>2, <2>3, <2>4, <2>5, SMTT(60)
<1> QED
  BY <1>5, <1>6, <1>7, <1>8, <1>9 DEF IocpIInv

\* A receive is posted by start().
LEMMA PostKeeps ==
    ASSUME IocpIInv, PostRecv
    PROVE  IocpIInv'
<1> DEFINE op == RecvOp(recv_live)
<1>1. /\ unposted > 0 /\ unposted' = unposted - 1 /\ post_recv_operation(op)
      /\ UNCHANGED <<iocp_bound, iocp_running, caller, worker, handling, port, recv_live, iocp_starts,
                     port_starts, arrived, callbacks>>
  BY DEF PostRecv
<1>2. PhaseOK /\ OpsOK /\ PortOK /\ SendsOnce /\ SlotsOK
  BY DEF IocpIInv
<1>3. /\ refused \in Nat /\ unposted \in Int /\ unposted' \in 0 .. num_workers /\ unposted # 0
      /\ recv_live \in Nat
  BY <1>1, <1>2, IocpAssumption, SMTT(60) DEF PhaseOK
<1>4. iocp_running /\ recv_live = iocp_starts /\ port_starts # 0
  BY <1>2, <1>3, SMTT(60) DEF PhaseOK
<1>5. op.kind = "recv" /\ op.id = recv_live /\ \A n : op # SendOp(n)
  BY OpNames
<1>6. /\ DOMAIN pending \subseteq DOMAIN pending' /\ DOMAIN pending' \subseteq DOMAIN pending \cup {op}
      /\ \A o : o # op => Has(pending', o) = Has(pending, o)
      /\ \A o \in DOMAIN pending' : pending'[o] \in Nat
      /\ Has(pending, op) \in Nat /\ Has(pending', op) \in Nat /\ refused' \in Nat
      /\ Has(pending', op) + refused' = Has(pending, op) + refused + 1
  <2> HIDE DEF op
  <2> QED
    BY <1>1, <1>2, <1>3, PostFacts
<1>7. PhaseOK'
  BY <1>1, <1>2, <1>3, <1>4, <1>6 DEF PhaseOK, FirstStart
<1>8. OpsOK'
  <2>1. \A o \in DOMAIN pending' : (\E g \in Nat : o = RecvOp(g)) \/ (\E n \in DOMAIN callbacks : o = SendOp(n))
    BY <1>2, <1>3, <1>6 DEF OpsOK
  <2> QED
    BY <1>1, <1>2, <1>6, <2>1 DEF OpsOK, IsCompletion
<1>9. PortOK'
  BY <1>1, <1>2, <1>4, <1>5, <1>6 DEF PortOK, Handles, FirstStart
<1>10. SendsOnce'
  <2>1. \A n \in DOMAIN callbacks : Has(pending', SendOp(n)) = Has(pending, SendOp(n))
    BY <1>5, <1>6
  <2> QED
    BY <1>1, <1>2, <2>1, SendsFrame
<1>11. SlotsOK'
  <2> SUFFICES ASSUME FirstStart
               PROVE  Has(pending', op) + Cardinality(RecvInPort(port)) + Cardinality(RecvInHand)
                        + unposted' + refused' = num_workers
    <3>1. RecvInHand' = RecvInHand
      BY <1>1 DEF RecvInHand, Handles
    <3> QED
      BY <1>1, <3>1 DEF SlotsOK, FirstStart
  <2>1. Has(pending, op) + Cardinality(RecvInPort(port)) + Cardinality(RecvInHand)
          + unposted + refused = num_workers
    BY <1>2, <1>4 DEF SlotsOK
  <2>2. Cardinality(RecvInPort(port)) \in Nat /\ Cardinality(RecvInHand) \in Nat
    BY <1>2, RecvFinite, HandFinite DEF OpsOK
  <2> HIDE DEF op
  <2> QED
    BY <1>1, <1>3, <1>6, <2>1, <2>2, SMTT(60)
<1> QED
  BY <1>7, <1>8, <1>9, <1>10, <1>11 DEF IocpIInv

\* The end of stop(), and close(): the caller is idle and no worker runs.
LEMMA ReleasedKeeps ==
    ASSUME IocpIInv, NEW closing, Released(closing), ~iocp_running, iocp_running' = iocp_running,
           caller' \in {"idle"} \X BOOLEAN, worker' = [w \in IocpWorker |-> "none"],
           recv_live' \in {0, recv_live},
           UNCHANGED <<handling, unposted, refused, iocp_starts, arrived, callbacks>>
    PROVE  IocpIInv'
<1>1. PhaseOK /\ OpsOK /\ PortOK /\ SendsOnce
  BY DEF IocpIInv
<1>2. \/ UNCHANGED <<iocp_bound, port, pending, port_starts>>
      \/ iocp_bound' = FALSE /\ port' = <<>> /\ DOMAIN pending' = {} /\ port_starts' = 0
  BY DEF Released
<1>3. /\ worker' \in [IocpWorker -> {"none", "test", "get", "handle", "left"}]
      /\ \A w \in IocpWorker : worker'[w] = "none"
  OBVIOUS
<1>4. iocp_bound' \in BOOLEAN /\ iocp_running' \in BOOLEAN
  BY <1>1, <1>2 DEF PhaseOK
<1>5. PhaseOK'
  <2>1. caller' \in {"idle", "posting", "joining"} \X BOOLEAN /\ caller'[1] = "idle"
    OBVIOUS
  <2>2. recv_live' \in 0 .. iocp_starts' /\ iocp_starts' \in Nat /\ port_starts' \in Nat /\ arrived' \in Nat
    BY <1>1, <1>2, SMTT(60) DEF PhaseOK
  <2>3. unposted' \in 0 .. num_workers /\ refused' \in Nat /\ (unposted' # 0 => iocp_running')
    BY <1>1 DEF PhaseOK
  <2> QED
    BY <1>3, <1>4, <2>1, <2>2, <2>3 DEF PhaseOK
<1>6. OpsOK'
  <2>1. port' \in Seq(Comp) /\ \A i \in DOMAIN port' : i \in DOMAIN port /\ port'[i] = port[i]
    <3>1. port \in Seq(Comp) /\ <<>> \in Seq(Comp) /\ DOMAIN <<>> = {}
      BY <1>1, SMTT(60) DEF OpsOK
    <3>2. CASE port' = port
      BY <3>1, <3>2
    <3>3. CASE port' = <<>>
      BY <3>1, <3>3
    <3> QED
      BY <1>2, <3>2, <3>3
  <2>2. \A op \in DOMAIN pending' : op \in DOMAIN pending /\ pending'[op] = pending[op]
    BY <1>2
  <2> QED
    BY <1>1, <1>3, <2>1, <2>2, SMTT(60) DEF OpsOK, IsCompletion
<1>7. PortOK'
  BY <1>1, <1>2, <1>3, SMTT(60) DEF PortOK, Handles, FirstStart
<1>8. SendsOnce'
  <2>1. \A n \in DOMAIN callbacks :
            Has(pending', SendOp(n)) = Has(pending, SendOp(n)) \/ Has(pending', SendOp(n)) = 0
    BY <1>2 DEF Has
  <2>2. \A i \in DOMAIN port' : i \in DOMAIN port /\ port'[i] = port[i]
    BY <1>2, SMTT(60)
  <2> QED
    BY <1>1, <1>3, <2>1, <2>2, SendsFrame
<1>9. SlotsOK'
  BY DEF SlotsOK
<1> QED
  BY <1>5, <1>6, <1>7, <1>8, <1>9 DEF IocpIInv

\* stop() is over, or close() of a transport that does not run.
LEMMA EndKeeps ==
    ASSUME IocpIInv, Joined \/ iocp_close
    PROVE  IocpIInv'
<1>1. CASE Joined
  <2>1. /\ caller[1] = "joining" /\ worker' = [w \in IocpWorker |-> "none"] /\ recv_live' = 0
        /\ caller' = <<"idle", FALSE>> /\ Released(caller[2])
        /\ UNCHANGED <<iocp_running, handling, unposted, refused, iocp_starts, arrived, callbacks>>
    BY <1>1 DEF Joined
  <2>2. ~iocp_running
    BY <2>1 DEF IocpIInv, PhaseOK
  <2> QED
    BY <2>1, <2>2, ReleasedKeeps
<1>2. CASE iocp_close
  <2>1. /\ ~iocp_running /\ caller[1] = "idle" /\ Released(TRUE)
        /\ UNCHANGED <<iocp_running, caller, worker, handling, recv_live, unposted, refused, iocp_starts,
                       arrived, callbacks>>
    BY <1>2 DEF iocp_close
  <2>2. caller' \in {"idle"} \X BOOLEAN /\ worker' = [w \in IocpWorker |-> "none"]
    BY <2>1 DEF IocpIInv, PhaseOK
  <2> QED
    BY <2>1, <2>2, ReleasedKeeps
<1> QED
  BY <1>1, <1>2

\* A send gets a number of its own.
LEMMA AsyncSendKeeps ==
    ASSUME IocpIInv, iocp_async_send
    PROVE  IocpIInv'
<1> DEFINE N == Len(callbacks) + 1
<1>1. /\ Len(callbacks) < MaxIocpSends
      /\ \/ callbacks' = Append(callbacks, 0) /\ pending' = Armed(SendOp(N), 1)
         \/ callbacks' = Append(callbacks, 1) /\ pending' = pending
      /\ UNCHANGED <<iocp_bound, iocp_running, caller, worker, handling, port, recv_live, unposted, refused,
                     iocp_starts, port_starts, arrived>>
  <2>1. callbacks \in Seq(Nat) => Len(Append(callbacks, 0)) = N
    BY SMTT(60)
  <2> QED
    BY <2>1 DEF iocp_async_send, IocpIInv, OpsOK
<1>2. PhaseOK /\ OpsOK /\ PortOK /\ SendsOnce /\ SlotsOK
  BY DEF IocpIInv
<1>3. /\ callbacks \in Seq(Nat) /\ Len(callbacks) \in Nat /\ DOMAIN callbacks = 1 .. Len(callbacks)
      /\ N \in Nat /\ MaxIocpSends \in Nat
  BY <1>2, IocpAssumption, SMTT(60) DEF OpsOK
<1>4. /\ callbacks' \in Seq(Nat) /\ Len(callbacks') = N /\ DOMAIN callbacks' = DOMAIN callbacks \cup {N}
      /\ \A n \in DOMAIN callbacks : n # N /\ callbacks'[n] = callbacks[n]
      /\ callbacks'[N] = 0 \/ (callbacks'[N] = 1 /\ pending' = pending)
  <2>1. CASE callbacks' = Append(callbacks, 0)
    BY <1>3, <2>1, SMTT(60)
  <2>2. CASE callbacks' = Append(callbacks, 1)
    BY <1>1, <1>3, <2>2, SMTT(60)
  <2> QED
    BY <1>1, <2>1, <2>2
<1>5. N \notin DOMAIN callbacks
  BY <1>3, SMTT(60)
<1> HIDE DEF N
<1>6. SendOp(N) \notin DOMAIN pending /\ Has(pending, SendOp(N)) = 0
  BY <1>2, <1>5, OpNames, SMTT(60) DEF OpsOK, Has
<1>7. /\ DOMAIN pending' \subseteq DOMAIN pending \cup {SendOp(N)}
      /\ DOMAIN pending \subseteq DOMAIN pending'
      /\ \A o : o # SendOp(N) => Has(pending', o) = Has(pending, o)
      /\ \A o \in DOMAIN pending : pending'[o] = pending[o]
      /\ SendOp(N) \in DOMAIN pending' => pending'[SendOp(N)] = 1
      /\ Has(pending', SendOp(N)) \in {0, 1}
      /\ Has(pending', SendOp(N)) > 0 => callbacks'[N] = 0
  <2>1. CASE callbacks' = Append(callbacks, 0) /\ pending' = Armed(SendOp(N), 1)
    <3> DEFINE op == SendOp(N)
    <3>1. pending' = Armed(op, 1) /\ op \notin DOMAIN pending /\ Has(pending, op) = 0
      BY <1>6, <2>1
    <3> HIDE DEF op
    <3>2. /\ DOMAIN pending' = DOMAIN pending \cup {op}
          /\ \A o : o # op => Has(pending', o) = Has(pending, o)
          /\ \A o \in DOMAIN pending : o # op => pending'[o] = pending[o]
          /\ Has(pending', op) = Has(pending, op) + 1 /\ pending'[op] = Has(pending, op) + 1
      <4>1. OpsOK /\ pending' = Armed(op, 1) /\ 1 \in Int
        BY <1>2, <3>1, SMTT(60)
      <4> QED
        BY <4>1, ArmedFacts
    <3>3. callbacks'[N] = 0
      BY <1>3, <2>1, SMTT(60) DEF N
    <3> QED
      BY <3>1, <3>2, <3>3, SMTT(60) DEF op
  <2>2. CASE pending' = pending
    BY <1>6, <2>2, SMTT(60)
  <2> QED
    BY <1>1, <2>1, <2>2
<1>8. PhaseOK'
  BY <1>1, <1>2 DEF PhaseOK, FirstStart
<1>9. \A c : IsCompletion(c) => IsCompletion(c)'
  BY <1>4 DEF IsCompletion
<1>10. OpsOK'
  <2>1. \A op \in DOMAIN pending' :
           /\ pending'[op] \in Nat
           /\ (\E g \in Nat : op = RecvOp(g)) \/ (\E n \in DOMAIN callbacks' : op = SendOp(n))
    <3> SUFFICES ASSUME NEW op \in DOMAIN pending'
                 PROVE  /\ pending'[op] \in Nat
                        /\ (\E g \in Nat : op = RecvOp(g)) \/ (\E n \in DOMAIN callbacks' : op = SendOp(n))
      OBVIOUS
    <3>1. CASE op \in DOMAIN pending
      BY <1>2, <1>4, <1>7, <3>1 DEF OpsOK
    <3>2. CASE op = SendOp(N)
      BY <1>4, <1>7, <3>2, SMTT(60)
    <3> QED
      BY <1>7, <3>1, <3>2
  <2>2. \A i \in DOMAIN port : IsCompletion(port[i])
    BY <1>2 DEF OpsOK
  <2>3. \A w \in IocpWorker : worker[w] = "handle" => handling[w].kind # "quit" /\ IsCompletion(handling[w])
    BY <1>2 DEF OpsOK
  <2>4. \A i \in DOMAIN port' : IsCompletion(port[i])'
    BY <1>1, <1>4, <2>2 DEF IsCompletion
  <2>5. \A w \in IocpWorker : worker'[w] = "handle" => handling'[w].kind # "quit" /\ IsCompletion(handling[w])'
    BY <1>1, <1>4, <2>3 DEF IsCompletion
  <2>6. Len(callbacks') <= MaxIocpSends
    BY <1>1, <1>3, <1>4, SMTT(60) DEF N
  <2> QED
    BY <1>1, <1>2, <1>4, <2>1, <2>4, <2>5, <2>6 DEF OpsOK
<1>11. PortOK'
  <2>1. \A op \in DOMAIN pending' : op \in DOMAIN pending \/ op.kind # "recv"
    BY <1>7, OpNames
  <2> QED
    BY <1>1, <1>2, <2>1 DEF PortOK, Handles, FirstStart
<1>12. SendsOnce'
  <2>1. /\ \A i \in DOMAIN port : port[i].kind = "send" => port[i].id # N
        /\ \A w \in IocpWorker : Handles(w, "send") => handling[w].id # N
    BY <1>2, <1>5, OpNames DEF OpsOK, IsCompletion, Handles
  <2>2. \A n \in DOMAIN callbacks : Has(pending', SendOp(n)) = Has(pending, SendOp(n))
    BY <1>4, <1>7, OpNames
  <2>3. \A w \in IocpWorker : Handles(w, "send")' = Handles(w, "send")
    BY <1>1 DEF Handles
  <2> SUFFICES ASSUME NEW n \in DOMAIN callbacks'
               PROVE  /\ callbacks'[n] <= 1 /\ Has(pending', SendOp(n)) <= 1
                      /\ Has(pending', SendOp(n)) > 0 =>
                             /\ callbacks'[n] = 0
                             /\ \A i \in DOMAIN port : port[i].kind = "send" => port[i].id # n
                             /\ \A w \in IocpWorker : Handles(w, "send") => handling[w].id # n
                      /\ \A i \in DOMAIN port : port[i].kind = "send" /\ port[i].id = n =>
                             /\ callbacks'[n] = 0
                             /\ \A j \in DOMAIN port : port[j].kind = "send" /\ port[j].id = n => i = j
                             /\ \A w \in IocpWorker : Handles(w, "send") => handling[w].id # n
                      /\ \A w \in IocpWorker : Handles(w, "send") /\ handling[w].id = n =>
                             /\ callbacks'[n] = 0
                             /\ \A v \in IocpWorker : Handles(v, "send") /\ handling[v].id = n => v = w
    <3> SUFFICES ASSUME NEW n \in DOMAIN callbacks' PROVE SendOnce(n)'
      BY DEF SendsOnce
    <3>1. port' = port /\ handling' = handling
      BY <1>1
    <3> QED
      BY <2>3, <3>1 DEF SendOnce
  <2>4. CASE n \in DOMAIN callbacks
    BY <1>2, <1>4, <2>2, <2>4 DEF SendsOnce, SendOnce
  <2>5. CASE n = N
    BY <1>4, <1>7, <2>1, <2>5, SMTT(60)
  <2> QED
    BY <1>4, <2>4, <2>5
<1>13. SlotsOK'
  <2>1. \A g : Has(pending', RecvOp(g)) = Has(pending, RecvOp(g))
    BY <1>7, OpNames
  <2>2. RecvInHand' = RecvInHand
    BY <1>1 DEF RecvInHand, Handles
  <2> QED
    BY <1>1, <1>2, <2>1, <2>2 DEF SlotsOK, FirstStart
<1> QED
  BY <1>8, <1>10, <1>11, <1>12, <1>13 DEF IocpIInv

\* The kernel completes an operation.
LEMMA KernelKeeps ==
    ASSUME IocpIInv, NEW op \in DOMAIN pending, NEW ok \in BOOLEAN, KernelComplete(op, ok)
    PROVE  IocpIInv'
<1> DEFINE c == Completion(op, ok)
           L == Len(port) + 1
<1>1. /\ Pending(op) > 0 /\ pending' = Armed(op, -1) /\ port' = Append(port, c)
      /\ arrived' = (IF op.kind = "recv" THEN arrived + 1 ELSE arrived)
      /\ UNCHANGED <<iocp_bound, iocp_running, caller, worker, handling, recv_live, unposted, refused,
                     iocp_starts, port_starts, callbacks>>
  BY DEF KernelComplete
<1>2. PhaseOK /\ OpsOK /\ PortOK /\ SendsOnce /\ SlotsOK
  BY DEF IocpIInv
<1>3. /\ pending[op] \in Nat /\ pending[op] > 0 /\ Has(pending, op) = pending[op]
      /\ (\E g \in Nat : op = RecvOp(g)) \/ (\E n \in DOMAIN callbacks : op = SendOp(n))
  BY <1>1, <1>2 DEF OpsOK, Pending, Has
<1>4. /\ DOMAIN pending' = DOMAIN pending
      /\ \A o : o # op => Has(pending', o) = Has(pending, o)
      /\ \A o \in DOMAIN pending : o # op => pending'[o] = pending[o]
      /\ Has(pending', op) = pending[op] - 1 /\ pending'[op] = pending[op] - 1
  <2>1. -1 \in Int
    BY SMTT(60)
  <2>2. /\ DOMAIN pending' = DOMAIN pending \cup {op}
        /\ \A o : o # op => Has(pending', o) = Has(pending, o)
        /\ \A o \in DOMAIN pending : o # op => pending'[o] = pending[o]
        /\ Has(pending', op) = Has(pending, op) + (-1) /\ pending'[op] = Has(pending, op) + (-1)
    BY <1>1, <1>2, <2>1, ArmedFacts
  <2> QED
    BY <1>3, <2>2
<1>5. /\ op.kind \in {"recv", "send"} /\ op.id \in Nat /\ c \in Comp /\ c.kind = op.kind /\ c.id = op.id
      /\ op.kind = "recv" => op = RecvOp(op.id)
      /\ op.kind = "send" => op.id \in DOMAIN callbacks /\ op = SendOp(op.id)
  <2>1. ASSUME NEW g \in Nat, op = RecvOp(g) PROVE op.kind = "recv" /\ op.id = g
    BY <2>1, OpNames
  <2>2. ASSUME NEW n \in DOMAIN callbacks, op = SendOp(n) PROVE op.kind = "send" /\ op.id = n /\ n \in Nat
    BY <1>2, <2>2, OpNames, SMTT(60) DEF OpsOK
  <2>3. /\ op.kind \in {"recv", "send"} /\ op.id \in Nat
        /\ op.kind = "recv" => op = RecvOp(op.id)
        /\ op.kind = "send" => op.id \in DOMAIN callbacks /\ op = SendOp(op.id)
    BY <1>3, <2>1, <2>2
  <2>4. c = [kind |-> op.kind, id |-> op.id, ok |-> ok]
    BY DEF Completion
  <2> HIDE DEF c
  <2> QED
    BY <2>3, <2>4 DEF Comp
<1> HIDE DEF c
<1>6. port \in Seq(Comp) /\ Len(port) \in Nat /\ DOMAIN port = 1 .. Len(port)
  BY <1>2, SMTT(60) DEF OpsOK
<1>7. /\ port' \in Seq(Comp) /\ DOMAIN port' = DOMAIN port \cup {L} /\ port'[L] = c
      /\ \A i \in DOMAIN port : i # L /\ port'[i] = port[i]
  BY <1>1, <1>5, <1>6, SMTT(60)
<1> HIDE DEF L
<1>8. PhaseOK'
  <2>1. arrived' \in Nat
    BY <1>1, <1>2, SMTT(60) DEF PhaseOK
  <2> QED
    BY <1>1, <1>2, <2>1 DEF PhaseOK, FirstStart
<1>9. OpsOK'
  <2>1. IsCompletion(c)
    BY <1>5 DEF IsCompletion
  <2>2. \A i \in DOMAIN port' : IsCompletion(port[i])'
    BY <1>1, <1>2, <1>7, <2>1, SMTT(60) DEF OpsOK, IsCompletion
  <2>3. \A o \in DOMAIN pending' : pending'[o] \in Nat
    BY <1>2, <1>3, <1>4, SMTT(60) DEF OpsOK
  <2>4. \A w \in IocpWorker : worker'[w] = "handle" => handling'[w].kind # "quit" /\ IsCompletion(handling[w])'
    BY <1>1, <1>2 DEF OpsOK, IsCompletion
  <2> QED
    BY <1>1, <1>2, <1>4, <1>7, <2>2, <2>3, <2>4 DEF OpsOK
<1>10. PortOK'
  BY <1>1, <1>2, <1>4, <1>5, <1>7 DEF PortOK, Handles, FirstStart
<1>11. SendsOnce'
  <2>1. CASE op.kind = "recv"
    <3>1. \A n \in DOMAIN callbacks : Has(pending', SendOp(n)) = Has(pending, SendOp(n))
      BY <1>4, <1>5, <2>1, OpNames
    <3>2. \A i \in DOMAIN port' : port'[i].kind = "send" => i \in DOMAIN port /\ port'[i] = port[i]
      BY <1>5, <1>7, <2>1
    <3> QED
      BY <1>1, <1>2, <3>1, <3>2, SendsFrame
  <2>2. CASE op.kind = "send"
    <3> DEFINE m == op.id
    <3>1. m \in DOMAIN callbacks /\ op = SendOp(m) /\ c.kind = "send" /\ c.id = m
      BY <1>5, <2>2
    <3> HIDE DEF m
    <3>2. /\ callbacks[m] = 0 /\ Has(pending, op) <= 1
          /\ \A i \in DOMAIN port : port[i].kind = "send" => port[i].id # m
          /\ \A w \in IocpWorker : Handles(w, "send") => handling[w].id # m
      BY <1>2, <1>3, <3>1 DEF SendsOnce, SendOnce
    <3>3. Has(pending', SendOp(m)) = 0
      BY <1>3, <1>4, <3>1, <3>2, SMTT(60)
    <3>4. \A n \in DOMAIN callbacks : n # m => Has(pending', SendOp(n)) = Has(pending, SendOp(n))
      BY <1>4, <3>1, OpNames, SMTT(60)
    <3>5. \A w \in IocpWorker : Handles(w, "send")' = Handles(w, "send")
      BY <1>1 DEF Handles
    <3> SUFFICES ASSUME NEW n \in DOMAIN callbacks
                 PROVE  /\ callbacks[n] <= 1 /\ Has(pending', SendOp(n)) <= 1
                        /\ Has(pending', SendOp(n)) > 0 =>
                               /\ callbacks[n] = 0
                               /\ \A i \in DOMAIN port' : port'[i].kind = "send" => port'[i].id # n
                               /\ \A w \in IocpWorker : Handles(w, "send") => handling[w].id # n
                        /\ \A i \in DOMAIN port' : port'[i].kind = "send" /\ port'[i].id = n =>
                               /\ callbacks[n] = 0
                               /\ \A j \in DOMAIN port' : port'[j].kind = "send" /\ port'[j].id = n => i = j
                               /\ \A w \in IocpWorker : Handles(w, "send") => handling[w].id # n
                        /\ \A w \in IocpWorker : Handles(w, "send") /\ handling[w].id = n =>
                               /\ callbacks[n] = 0
                               /\ \A v \in IocpWorker : Handles(v, "send") /\ handling[v].id = n => v = w
      <4> SUFFICES ASSUME NEW n \in DOMAIN callbacks PROVE SendOnce(n)'
        BY <1>1 DEF SendsOnce
      <4>1. callbacks' = callbacks /\ handling' = handling
        BY <1>1
      <4> QED
        BY <3>5, <4>1 DEF SendOnce
    <3>6. CASE n = m
      BY <1>7, <3>1, <3>2, <3>3, <3>6, SMTT(60)
    <3>7. CASE n # m
      BY <1>2, <1>7, <3>1, <3>4, <3>7, SMTT(60) DEF SendsOnce, SendOnce
    <3> QED
      BY <3>6, <3>7
  <2> QED
    BY <1>5, <2>1, <2>2
<1>12. SlotsOK'
  <2> SUFFICES ASSUME FirstStart, iocp_running
               PROVE  Has(pending', RecvOp(recv_live)) + Cardinality(RecvInPort(port')) + Cardinality(RecvInHand)
                        + unposted + refused = num_workers
    <3>1. RecvInHand' = RecvInHand
      BY <1>1 DEF RecvInHand, Handles
    <3> QED
      BY <1>1, <3>1 DEF SlotsOK, FirstStart
  <2>1. port_starts = 1 /\ recv_live = iocp_starts
    BY <1>2, SMTT(60) DEF PhaseOK, FirstStart
  <2>2. Has(pending, RecvOp(recv_live)) + Cardinality(RecvInPort(port)) + Cardinality(RecvInHand)
          + unposted + refused = num_workers
    BY <1>2 DEF SlotsOK
  <2>3. Cardinality(RecvInPort(port')) = Cardinality(RecvInPort(port)) + (IF c.kind = "recv" THEN 1 ELSE 0)
    BY <1>1, <1>5, <1>6, RecvAppended
  <2>4. /\ Cardinality(RecvInPort(port)) \in Nat /\ Cardinality(RecvInHand) \in Nat
        /\ unposted \in Int /\ refused \in Nat
    <3>1. unposted \in Int /\ refused \in Nat
      BY <1>2, IocpAssumption, SMTT(60) DEF PhaseOK
    <3> QED
      BY <1>6, <3>1, RecvFinite, HandFinite
  <2>5. CASE op.kind = "recv"
    <3>1. op = RecvOp(recv_live)
      BY <1>2, <1>5, <2>1, <2>5 DEF PortOK
    <3>2. Has(pending', RecvOp(recv_live)) = Has(pending, RecvOp(recv_live)) - 1
          /\ Has(pending, RecvOp(recv_live)) \in Nat
      BY <1>3, <1>4, <3>1
    <3> QED
      BY <1>5, <2>2, <2>3, <2>4, <2>5, <3>2, SMTT(60)
  <2>6. CASE op.kind = "send"
    <3>1. Has(pending', RecvOp(recv_live)) = Has(pending, RecvOp(recv_live))
      BY <1>4, <1>5, <2>6, OpNames
    <3>2. Cardinality(RecvInPort(port')) = Cardinality(RecvInPort(port)) + 0
      BY <1>5, <2>3, <2>6
    <3> QED
      BY <2>2, <2>4, <3>1, <3>2, SMTT(60)
  <2> QED
    BY <1>5, <2>5, <2>6
<1> QED
  BY <1>8, <1>9, <1>10, <1>11, <1>12 DEF IocpIInv

-----------------------------------------------------------------------------
(* The workers.                                                            *)

\* A worker that is at no completion goes to a place where it has none.
LEMMA MoveKeeps ==
    ASSUME IocpIInv, NEW w \in IocpWorker, worker[w] \in {"test", "get"},
           NEW at \in {"test", "get", "left"}, at = "left" => ~iocp_running,
           worker' = [worker EXCEPT ![w] = at],
           UNCHANGED <<iocp_bound, iocp_running, caller, handling, port, pending, recv_live, unposted,
                       refused, iocp_starts, port_starts, arrived, callbacks>>
    PROVE  IocpIInv'
<1>1. PhaseOK /\ OpsOK /\ PortOK /\ SendsOnce /\ SlotsOK
  BY DEF IocpIInv
<1>2. worker \in [IocpWorker -> {"none", "test", "get", "handle", "left"}]
  BY <1>1 DEF PhaseOK
<1>3. /\ worker' \in [IocpWorker -> {"none", "test", "get", "handle", "left"}]
      /\ worker'[w] = at /\ \A v \in IocpWorker : v # w => worker'[v] = worker[v]
  BY <1>2
<1>4. \A v \in IocpWorker : worker'[v] = "handle" => worker[v] = "handle"
  BY <1>3
<1>5. \A v \in IocpWorker : \A k : Handles(v, k)' = Handles(v, k)
  BY <1>3 DEF Handles
<1>6. PhaseOK'
  <2>1. worker[w] # "none"
    OBVIOUS
  <2> QED
    BY <1>1, <1>3, <2>1 DEF PhaseOK, FirstStart
<1>7. OpsOK'
  BY <1>1, <1>4 DEF OpsOK, IsCompletion
<1>8. PortOK'
  BY <1>1, <1>5 DEF PortOK, FirstStart
<1>9. SendsOnce'
  BY <1>1, <1>4, SendsFrame
<1>10. SlotsOK'
  <2>1. RecvInHand' = RecvInHand
    BY <1>5 DEF RecvInHand
  <2> QED
    BY <1>1, <2>1 DEF SlotsOK, FirstStart
<1> QED
  BY <1>6, <1>7, <1>8, <1>9, <1>10 DEF IocpIInv

\* A worker takes the first completion of the port.
LEMMA TakeKeeps ==
    ASSUME IocpIInv, NEW w \in IocpWorker, worker[w] = "get", port # <<>>, port' = Tail(port),
           handling' = [handling EXCEPT ![w] = Head(port)],
           worker' = [worker EXCEPT ![w] = IF Head(port) = Quit THEN "left" ELSE "handle"],
           UNCHANGED <<iocp_bound, iocp_running, caller, pending, recv_live, unposted, refused, iocp_starts,
                       port_starts, arrived, callbacks>>
    PROVE  IocpIInv'
<1> DEFINE c == Head(port)
<1>1. PhaseOK /\ OpsOK /\ PortOK /\ SendsOnce /\ SlotsOK
  BY DEF IocpIInv
<1>2. /\ worker \in [IocpWorker -> {"none", "test", "get", "handle", "left"}]
      /\ handling \in [IocpWorker -> Comp] /\ port \in Seq(Comp)
  BY <1>1 DEF PhaseOK, OpsOK
<1>3. /\ DOMAIN port = 1 .. Len(port) /\ Len(port) \in Nat /\ 1 \in DOMAIN port /\ c = port[1] /\ c \in Comp
      /\ port' \in Seq(Comp) /\ DOMAIN port' = 1 .. Len(port) - 1
      /\ \A i \in DOMAIN port' : port'[i] = port[i + 1] /\ i + 1 \in DOMAIN port /\ i + 1 # 1 /\ i \in Nat
  BY <1>2, SMTT(60)
<1>4. IsCompletion(c)
  BY <1>1, <1>3 DEF OpsOK
<1>5. c.kind = "quit" <=> c = Quit
  BY <1>4, OpNames DEF IsCompletion
<1>6. /\ handling' \in [IocpWorker -> Comp] /\ handling'[w] = c
      /\ \A v \in IocpWorker : v # w => handling'[v] = handling[v]
  BY <1>2, <1>3
<1>7. /\ worker' \in [IocpWorker -> {"none", "test", "get", "handle", "left"}]
      /\ worker'[w] = IF c = Quit THEN "left" ELSE "handle"
      /\ \A v \in IocpWorker : v # w => worker'[v] = worker[v]
  BY <1>2
<1>8. c = Quit => ~(iocp_running /\ FirstStart)
  BY <1>1, <1>3, <1>5 DEF PortOK
<1> HIDE DEF c
<1>9. PhaseOK'
  BY <1>1, <1>7, <1>8 DEF PhaseOK, FirstStart
<1>10. OpsOK'
  <2>1. \A i \in DOMAIN port' : IsCompletion(port[i])'
    BY <1>1, <1>3, SMTT(60) DEF OpsOK, IsCompletion
  <2>2. \A v \in IocpWorker : worker'[v] = "handle" => handling'[v].kind # "quit" /\ IsCompletion(handling[v])'
    BY <1>1, <1>4, <1>5, <1>6, <1>7, SMTT(60) DEF OpsOK, IsCompletion
  <2> QED
    BY <1>1, <1>3, <1>6, <2>1, <2>2 DEF OpsOK
<1>11. /\ ~Handles(w, "recv") /\ ~Handles(w, "send")
       /\ \A v \in IocpWorker : v # w => (Handles(v, "recv")' = Handles(v, "recv") /\ Handles(v, "send")' = Handles(v, "send"))
       /\ Handles(w, "recv")' = (c.kind = "recv") /\ Handles(w, "send")' = (c.kind = "send")
  BY <1>5, <1>6, <1>7 DEF Handles
<1>12. PortOK'
  <2>1. \A k : (\A i \in DOMAIN port : port[i].kind = k) => \A i \in DOMAIN port' : port'[i].kind = k
    BY <1>3
  <2>2. port_starts = 1 => \A v \in IocpWorker : Handles(v, "recv")' => handling'[v].id = iocp_starts
    <3> SUFFICES ASSUME port_starts = 1, NEW v \in IocpWorker, Handles(v, "recv")'
                 PROVE  handling'[v].id = iocp_starts
      OBVIOUS
    <3>1. CASE v = w
      <4>1. c.kind = "recv" /\ handling'[v] = port[1] /\ 1 \in DOMAIN port /\ c = port[1]
        BY <1>3, <1>6, <1>11, <3>1
      <4> QED
        BY <1>1, <4>1 DEF PortOK
    <3>2. CASE v # w
      BY <1>1, <1>6, <1>11, <3>2 DEF PortOK
    <3> QED
      BY <3>1, <3>2
  <2> QED
    BY <1>1, <1>3, <2>1, <2>2, SMTT(60) DEF PortOK, FirstStart
<1>13. SendsOnce'
  <2> SUFFICES ASSUME NEW n \in DOMAIN callbacks
               PROVE  /\ callbacks[n] <= 1 /\ Has(pending, SendOp(n)) <= 1
                      /\ Has(pending, SendOp(n)) > 0 =>
                             /\ callbacks[n] = 0
                             /\ \A i \in DOMAIN port' : port'[i].kind = "send" => port'[i].id # n
                             /\ \A v \in IocpWorker : Handles(v, "send")' => handling'[v].id # n
                      /\ \A i \in DOMAIN port' : port'[i].kind = "send" /\ port'[i].id = n =>
                             /\ callbacks[n] = 0
                             /\ \A j \in DOMAIN port' : port'[j].kind = "send" /\ port'[j].id = n => i = j
                             /\ \A v \in IocpWorker : Handles(v, "send")' => handling'[v].id # n
                      /\ \A v \in IocpWorker : Handles(v, "send")' /\ handling'[v].id = n =>
                             /\ callbacks[n] = 0
                             /\ \A u \in IocpWorker : Handles(u, "send")' /\ handling'[u].id = n => u = v
    <3> SUFFICES ASSUME NEW n \in DOMAIN callbacks PROVE SendOnce(n)'
      BY DEF SendsOnce
    <3> QED
      BY SMTT(60) DEF SendOnce
  <2>1. callbacks[n] <= 1 /\ Has(pending, SendOp(n)) <= 1
    BY <1>1 DEF SendsOnce, SendOnce
  <2>2. ASSUME Has(pending, SendOp(n)) > 0
        PROVE  /\ callbacks[n] = 0
               /\ \A i \in DOMAIN port' : port'[i].kind = "send" => port'[i].id # n
               /\ \A v \in IocpWorker : Handles(v, "send")' => handling'[v].id # n
    <3>1. /\ callbacks[n] = 0
          /\ \A i \in DOMAIN port : port[i].kind = "send" => port[i].id # n
          /\ \A v \in IocpWorker : Handles(v, "send") => handling[v].id # n
      BY <1>1, <2>2 DEF SendsOnce, SendOnce
    <3>2. c.kind = "send" => c.id # n
      BY <1>3, <3>1
    <3>3. \A i \in DOMAIN port' : port'[i].kind = "send" => port'[i].id # n
      BY <1>3, <3>1
    <3> QED
      BY <1>6, <1>11, <3>1, <3>2, <3>3
  <2>3. ASSUME NEW i \in DOMAIN port', port'[i].kind = "send", port'[i].id = n
        PROVE  /\ callbacks[n] = 0
               /\ \A j \in DOMAIN port' : port'[j].kind = "send" /\ port'[j].id = n => i = j
               /\ \A v \in IocpWorker : Handles(v, "send")' => handling'[v].id # n
    <3>1. /\ i + 1 \in DOMAIN port /\ port[i + 1].kind = "send" /\ port[i + 1].id = n /\ i + 1 # 1 /\ i \in Nat
      BY <1>3, <2>3
    <3>2. /\ callbacks[n] = 0
          /\ \A j \in DOMAIN port : port[j].kind = "send" /\ port[j].id = n => i + 1 = j
          /\ \A v \in IocpWorker : Handles(v, "send") => handling[v].id # n
      BY <1>1, <3>1 DEF SendsOnce, SendOnce
    <3>3. ASSUME NEW j \in DOMAIN port', port'[j].kind = "send", port'[j].id = n PROVE i = j
      <4>1. j + 1 = i + 1 /\ j \in Nat
        BY <1>3, <3>2, <3>3, SMTT(60)
      <4> QED
        BY <3>1, <4>1, SMTT(60)
    <3>4. c.kind = "send" => c.id # n
      BY <1>3, <3>1, <3>2
    <3> QED
      BY <1>6, <1>11, <3>2, <3>3, <3>4
  <2>4. ASSUME NEW v \in IocpWorker, Handles(v, "send")', handling'[v].id = n
        PROVE  /\ callbacks[n] = 0
               /\ \A u \in IocpWorker : Handles(u, "send")' /\ handling'[u].id = n => u = v
    <3>1. CASE v = w
      <4>1. c.kind = "send" /\ c.id = n
        BY <1>6, <1>11, <2>4, <3>1
      <4>2. callbacks[n] = 0 /\ \A u \in IocpWorker : Handles(u, "send") => handling[u].id # n
        BY <1>1, <1>3, <4>1 DEF SendsOnce, SendOnce
      <4> QED
        BY <1>6, <1>11, <3>1, <4>2
    <3>2. CASE v # w
      <4>1. Handles(v, "send") /\ handling[v].id = n
        BY <1>6, <1>11, <2>4, <3>2
      <4>2. /\ callbacks[n] = 0
            /\ \A u \in IocpWorker : Handles(u, "send") /\ handling[u].id = n => u = v
        BY <1>1, <4>1 DEF SendsOnce, SendOnce
      <4>3. c.kind = "send" => c.id # n
        BY <1>1, <1>3, <4>1 DEF SendsOnce, SendOnce
      <4> QED
        BY <1>6, <1>11, <4>2, <4>3
    <3> QED
      BY <3>1, <3>2
  <2> QED
    BY <2>1, <2>2, <2>3, <2>4
<1>14. SlotsOK'
  <2>1. Cardinality(RecvInPort(port)) = Cardinality(RecvInPort(port')) + (IF c.kind = "recv" THEN 1 ELSE 0)
    BY <1>2, RecvTaken DEF c
  <2>2. Cardinality(RecvInHand') = Cardinality(RecvInHand) + (IF c.kind = "recv" THEN 1 ELSE 0)
    <3>1. RecvInHand' = IF c.kind = "recv" THEN RecvInHand \cup {w} ELSE RecvInHand
      BY <1>11 DEF RecvInHand, IocpWorker
    <3>2. w \notin RecvInHand
      BY <1>11 DEF RecvInHand
    <3>3. IsFiniteSet(RecvInHand) /\ Cardinality(RecvInHand) \in Nat
      BY HandFinite
    <3>4. Cardinality(RecvInHand \cup {w}) = Cardinality(RecvInHand) + 1
      BY <3>2, <3>3, FS_AddElement
    <3> QED
      BY <3>1, <3>3, <3>4, SMTT(60)
  <2>3. /\ Cardinality(RecvInPort(port')) \in Nat /\ Cardinality(RecvInHand) \in Nat
        /\ unposted \in Int /\ refused \in Nat
    <3>1. unposted \in Int /\ refused \in Nat
      BY <1>1, IocpAssumption, SMTT(60) DEF PhaseOK
    <3> QED
      BY <1>3, <3>1, RecvFinite, HandFinite
  <2> SUFFICES ASSUME FirstStart, iocp_running
               PROVE  Has(pending, RecvOp(recv_live)) + Cardinality(RecvInPort(port')) + Cardinality(RecvInHand')
                        + unposted + refused = num_workers
    BY DEF SlotsOK, FirstStart
  <2>4. Has(pending, RecvOp(recv_live)) + Cardinality(RecvInPort(port)) + Cardinality(RecvInHand)
          + unposted + refused = num_workers
    BY <1>1 DEF SlotsOK
  <2>5. Has(pending, RecvOp(recv_live)) \in Nat
    BY <1>1 DEF Has, OpsOK
  <2>6. CASE c.kind = "recv"
    <3>1. /\ Cardinality(RecvInPort(port)) = Cardinality(RecvInPort(port')) + 1
          /\ Cardinality(RecvInHand') = Cardinality(RecvInHand) + 1
      BY <2>1, <2>2, <2>6
    <3> QED
      BY <2>3, <2>4, <2>5, <3>1, SMTT(60)
  <2>7. CASE c.kind # "recv"
    <3>1. /\ Cardinality(RecvInPort(port)) = Cardinality(RecvInPort(port')) + 0
          /\ Cardinality(RecvInHand') = Cardinality(RecvInHand) + 0
      BY <2>1, <2>2, <2>7
    <3> QED
      BY <2>3, <2>4, <2>5, <3>1, SMTT(60)
  <2> QED
    BY <2>6, <2>7
<1> QED
  BY <1>9, <1>10, <1>12, <1>13, <1>14 DEF IocpIInv

\* What a worker that has handled a completion leaves: it is back at the test.
LEMMA Handled ==
    ASSUME IocpIInv, NEW w \in IocpWorker, worker[w] = "handle",
           worker' = [worker EXCEPT ![w] = "test"], handling' = [handling EXCEPT ![w] = Quit]
    PROVE  /\ worker' \in [IocpWorker -> {"none", "test", "get", "handle", "left"}]
           /\ handling' \in [IocpWorker -> Comp]
           /\ worker'[w] = "test" /\ \A v \in IocpWorker : v # w => worker'[v] = worker[v] /\ handling'[v] = handling[v]
           /\ \A v \in IocpWorker : worker'[v] = "handle" => v # w /\ worker[v] = "handle" /\ handling'[v] = handling[v]
           /\ \A v \in IocpWorker, k \in {"recv", "send"} : Handles(v, k)' = (v # w /\ Handles(v, k))
<1>1. /\ worker \in [IocpWorker -> {"none", "test", "get", "handle", "left"}]
      /\ handling \in [IocpWorker -> Comp] /\ Quit \in Comp
  BY OpNames DEF IocpIInv, PhaseOK, OpsOK
<1>2. /\ worker' \in [IocpWorker -> {"none", "test", "get", "handle", "left"}]
      /\ handling' \in [IocpWorker -> Comp]
      /\ worker'[w] = "test" /\ \A v \in IocpWorker : v # w => worker'[v] = worker[v] /\ handling'[v] = handling[v]
  BY <1>1
<1>3. \A v \in IocpWorker : worker'[v] = "handle" => v # w /\ worker[v] = "handle" /\ handling'[v] = handling[v]
  BY <1>2
<1>4. \A v \in IocpWorker, k \in {"recv", "send"} : Handles(v, k)' = (v # w /\ Handles(v, k))
  BY <1>2 DEF Handles
<1> QED
  BY <1>2, <1>3, <1>4

\* The callback of a send is the first one.
LEMMA HandleSendKeeps ==
    ASSUME IocpIInv, NEW w \in IocpWorker, HandleSend(w)
    PROVE  IocpIInv'
<1> DEFINE m == handling[w].id
<1>1. /\ worker[w] = "handle" /\ handling[w].kind = "send"
      /\ callbacks' = [callbacks EXCEPT ![m] = @ + 1]
      /\ worker' = [worker EXCEPT ![w] = "test"] /\ handling' = [handling EXCEPT ![w] = Quit]
      /\ UNCHANGED <<iocp_bound, iocp_running, caller, port, pending, recv_live, unposted, refused,
                     iocp_starts, port_starts, arrived>>
  BY DEF HandleSend
<1>2. PhaseOK /\ OpsOK /\ PortOK /\ SendsOnce /\ SlotsOK
  BY DEF IocpIInv
<1>3. /\ worker' \in [IocpWorker -> {"none", "test", "get", "handle", "left"}]
      /\ handling' \in [IocpWorker -> Comp]
      /\ worker'[w] = "test" /\ \A v \in IocpWorker : v # w => worker'[v] = worker[v] /\ handling'[v] = handling[v]
      /\ \A v \in IocpWorker : worker'[v] = "handle" => v # w /\ worker[v] = "handle" /\ handling'[v] = handling[v]
      /\ \A v \in IocpWorker, k \in {"recv", "send"} : Handles(v, k)' = (v # w /\ Handles(v, k))
  BY <1>1, Handled
<1>4. m \in DOMAIN callbacks /\ Handles(w, "send")
  BY <1>1, <1>2, OpNames DEF OpsOK, IsCompletion, Handles
<1>5. /\ callbacks[m] = 0
      /\ \A v \in IocpWorker : Handles(v, "send") /\ handling[v].id = m => v = w
      /\ \A i \in DOMAIN port : port[i].kind = "send" => port[i].id # m
  BY <1>2, <1>4 DEF SendsOnce, SendOnce
<1>6. ~(Has(pending, SendOp(m)) > 0)
  BY <1>2, <1>4 DEF SendsOnce, SendOnce
<1> HIDE DEF m
<1>7. callbacks \in Seq(Nat)
  BY <1>2 DEF OpsOK
<1>8. /\ callbacks' \in Seq(Nat) /\ Len(callbacks') = Len(callbacks) /\ DOMAIN callbacks' = DOMAIN callbacks
      /\ callbacks'[m] = 1 /\ \A n \in DOMAIN callbacks : n # m => callbacks'[n] = callbacks[n]
  BY <1>1, <1>4, <1>5, <1>7, SMTT(60)
<1>9. PhaseOK'
  BY <1>1, <1>2, <1>3 DEF PhaseOK, FirstStart
<1>10. OpsOK'
  <2>1. \A v \in IocpWorker : worker'[v] = "handle" => handling'[v].kind # "quit" /\ IsCompletion(handling[v])'
    BY <1>2, <1>3, <1>8, SMTT(60) DEF OpsOK, IsCompletion
  <2>2. \A i \in DOMAIN port' : IsCompletion(port[i])'
    BY <1>1, <1>2, <1>8 DEF OpsOK, IsCompletion
  <2> QED
    BY <1>1, <1>2, <1>3, <1>8, <2>1, <2>2 DEF OpsOK
<1>11. PortOK'
  BY <1>1, <1>2, <1>3 DEF PortOK, FirstStart
<1>12. SendsOnce'
  <2> SUFFICES ASSUME NEW n \in DOMAIN callbacks
               PROVE  /\ callbacks'[n] <= 1 /\ Has(pending, SendOp(n)) <= 1
                      /\ Has(pending, SendOp(n)) > 0 =>
                             /\ callbacks'[n] = 0
                             /\ \A i \in DOMAIN port : port[i].kind = "send" => port[i].id # n
                             /\ \A v \in IocpWorker : Handles(v, "send")' => handling'[v].id # n
                      /\ \A i \in DOMAIN port : port[i].kind = "send" /\ port[i].id = n =>
                             /\ callbacks'[n] = 0
                             /\ \A j \in DOMAIN port : port[j].kind = "send" /\ port[j].id = n => i = j
                             /\ \A v \in IocpWorker : Handles(v, "send")' => handling'[v].id # n
                      /\ \A v \in IocpWorker : Handles(v, "send")' /\ handling'[v].id = n =>
                             /\ callbacks'[n] = 0
                             /\ \A u \in IocpWorker : Handles(u, "send")' /\ handling'[u].id = n => u = v
    <3> SUFFICES ASSUME NEW n \in DOMAIN callbacks PROVE SendOnce(n)'
      BY <1>8 DEF SendsOnce
    <3>1. port' = port /\ pending' = pending
      BY <1>1
    <3> QED
      BY <3>1, SMTT(60) DEF SendOnce
  <2>1. \A v \in IocpWorker : Handles(v, "send")' => v # w /\ Handles(v, "send") /\ handling'[v] = handling[v]
    BY <1>3
  <2>2. CASE n = m
    <3>1. \A v \in IocpWorker : Handles(v, "send")' => handling'[v].id # n
      BY <1>5, <2>1, <2>2
    <3>2. Has(pending, SendOp(n)) <= 1
      BY <1>2 DEF SendsOnce, SendOnce
    <3> QED
      <4>1. /\ callbacks'[n] = 1 /\ ~(Has(pending, SendOp(n)) > 0)
            /\ \A i \in DOMAIN port : port[i].kind = "send" => port[i].id # n
        BY <1>5, <1>6, <1>8, <2>2
      <4>2. callbacks'[n] <= 1
        BY <4>1, SMTT(60)
      <4> QED
        BY <3>1, <3>2, <4>1, <4>2
  <2>3. CASE n # m
    BY <1>2, <1>8, <2>1, <2>3 DEF SendsOnce, SendOnce
  <2> QED
    BY <2>2, <2>3
<1>13. SlotsOK'
  <2>1. ~Handles(w, "recv")
    BY <1>1 DEF Handles
  <2>2. RecvInHand' = RecvInHand
    BY <1>3, <2>1 DEF RecvInHand, IocpWorker
  <2> QED
    BY <1>1, <1>2, <2>2 DEF SlotsOK, FirstStart
<1> QED
  BY <1>9, <1>10, <1>11, <1>12, <1>13 DEF IocpIInv

\* The receive operation is posted again while the transport runs.
LEMMA HandleRecvKeeps ==
    ASSUME IocpIInv, NEW w \in IocpWorker, HandleRecv(w)
    PROVE  IocpIInv'
<1> DEFINE g == handling[w].id
           op == RecvOp(g)
<1>1. /\ worker[w] = "handle" /\ handling[w].kind = "recv"
      /\ iocp_running => post_recv_operation(op)
      /\ ~iocp_running => pending' = pending /\ refused' = refused
      /\ worker' = [worker EXCEPT ![w] = "test"] /\ handling' = [handling EXCEPT ![w] = Quit]
      /\ UNCHANGED <<iocp_bound, iocp_running, caller, port, recv_live, unposted, iocp_starts, port_starts,
                     arrived, callbacks>>
  BY DEF HandleRecv
<1>2. PhaseOK /\ OpsOK /\ PortOK /\ SendsOnce /\ SlotsOK
  BY DEF IocpIInv
<1>3. /\ worker' \in [IocpWorker -> {"none", "test", "get", "handle", "left"}]
      /\ handling' \in [IocpWorker -> Comp]
      /\ worker'[w] = "test" /\ \A v \in IocpWorker : v # w => worker'[v] = worker[v] /\ handling'[v] = handling[v]
      /\ \A v \in IocpWorker : worker'[v] = "handle" => v # w /\ worker[v] = "handle" /\ handling'[v] = handling[v]
      /\ \A v \in IocpWorker, k \in {"recv", "send"} : Handles(v, k)' = (v # w /\ Handles(v, k))
  BY <1>1, Handled
<1>4. Handles(w, "recv") /\ g \in Nat /\ op.kind = "recv" /\ op.id = g
  BY <1>1, <1>2, OpNames DEF OpsOK, IsCompletion, Handles
<1>5. op = RecvOp(g) /\ \A n : op # SendOp(n)
  BY OpNames
<1>6. port_starts = 1 => g = iocp_starts
  BY <1>2, <1>4 DEF PortOK
<1> HIDE DEF op, g
<1>7. /\ DOMAIN pending \subseteq DOMAIN pending' /\ DOMAIN pending' \subseteq DOMAIN pending \cup {op}
      /\ \A o : o # op => Has(pending', o) = Has(pending, o)
      /\ \A o \in DOMAIN pending' : pending'[o] \in Nat
      /\ refused' \in Nat /\ refused \in Nat
      /\ iocp_running => /\ Has(pending, op) \in Nat /\ Has(pending', op) \in Nat
                         /\ Has(pending', op) + refused' = Has(pending, op) + refused + 1
  <2>1. refused \in Nat
    BY <1>2 DEF PhaseOK
  <2>2. CASE iocp_running
    BY <1>1, <1>2, <2>1, <2>2, PostFacts
  <2>3. CASE ~iocp_running
    BY <1>1, <1>2, <2>1, <2>3 DEF OpsOK
  <2> QED
    BY <2>2, <2>3
<1>8. PhaseOK'
  BY <1>1, <1>2, <1>3, <1>7 DEF PhaseOK, FirstStart
<1>9. OpsOK'
  <2>1. \A v \in IocpWorker : worker'[v] = "handle" => handling'[v].kind # "quit" /\ IsCompletion(handling[v])'
    <3>1. \A v \in IocpWorker : worker[v] = "handle" => handling[v].kind # "quit" /\ IsCompletion(handling[v])
      BY <1>2 DEF OpsOK
    <3>2. recv_live' = recv_live /\ callbacks' = callbacks /\ iocp_starts' = iocp_starts
      BY <1>1
    <3> QED
      BY <1>3, <3>1, <3>2 DEF IsCompletion
  <2>2. \A i \in DOMAIN port' : IsCompletion(port[i])'
    BY <1>1, <1>2 DEF OpsOK, IsCompletion
  <2>3. \A o \in DOMAIN pending' : (\E h \in Nat : o = RecvOp(h)) \/ (\E n \in DOMAIN callbacks : o = SendOp(n))
    BY <1>2, <1>4, <1>5, <1>7 DEF OpsOK
  <2> QED
    BY <1>1, <1>2, <1>3, <1>7, <2>1, <2>2, <2>3 DEF OpsOK
<1>10. PortOK'
  <2>1. port_starts = 0 => \A o \in DOMAIN pending' : o.kind # "recv"
    <3>1. port_starts = 0 => ~iocp_running
      BY <1>2, SMTT(60) DEF PhaseOK
    <3> QED
      BY <1>1, <1>2, <3>1 DEF PortOK
  <2>2. port_starts = 1 => \A o \in DOMAIN pending' : o.kind = "recv" => o.id = iocp_starts
    BY <1>2, <1>4, <1>6, <1>7 DEF PortOK
  <2>3. port_starts = 1 => \A v \in IocpWorker : Handles(v, "recv")' => handling'[v].id = iocp_starts
    BY <1>2, <1>3 DEF PortOK
  <2> QED
    BY <1>1, <1>2, <2>1, <2>2, <2>3 DEF PortOK, FirstStart
<1>11. SendsOnce'
  <2>1. \A n \in DOMAIN callbacks : Has(pending', SendOp(n)) = Has(pending, SendOp(n))
    BY <1>5, <1>7
  <2> QED
    BY <1>1, <1>2, <1>3, <2>1, SendsFrame
<1>12. SlotsOK'
  <2> SUFFICES ASSUME FirstStart, iocp_running
               PROVE  Has(pending', RecvOp(recv_live)) + Cardinality(RecvInPort(port)) + Cardinality(RecvInHand')
                        + unposted + refused' = num_workers
    BY <1>1 DEF SlotsOK, FirstStart
  <2>1. port_starts = 1 /\ recv_live = iocp_starts
    BY <1>2, SMTT(60) DEF PhaseOK, FirstStart
  <2>2. Has(pending, RecvOp(recv_live)) + Cardinality(RecvInPort(port)) + Cardinality(RecvInHand)
          + unposted + refused = num_workers
    BY <1>2 DEF SlotsOK
  <2>3. op = RecvOp(recv_live)
    BY <1>5, <1>6, <2>1
  <2>4. /\ Has(pending, RecvOp(recv_live)) \in Nat /\ Has(pending', RecvOp(recv_live)) \in Nat
        /\ Has(pending', RecvOp(recv_live)) + refused' = Has(pending, RecvOp(recv_live)) + refused + 1
    BY <1>7, <2>3
  <2>5. Cardinality(RecvInHand') = Cardinality(RecvInHand) - 1
    <3>1. RecvInHand' = RecvInHand \ {w}
      BY <1>3 DEF RecvInHand, IocpWorker
    <3>2. w \in RecvInHand /\ IsFiniteSet(RecvInHand)
      BY <1>4, HandFinite DEF RecvInHand
    <3> QED
      BY <3>1, <3>2, FS_RemoveElement
  <2>6. Cardinality(RecvInPort(port)) \in Nat /\ Cardinality(RecvInHand) \in Nat
    BY <1>2, RecvFinite, HandFinite DEF OpsOK
  <2>7. unposted \in Int
    BY <1>2, IocpAssumption, SMTT(60) DEF PhaseOK
  <2> QED
    BY <1>7, <2>2, <2>4, <2>5, <2>6, <2>7, SMTT(60)
<1> QED
  BY <1>8, <1>9, <1>10, <1>11, <1>12 DEF IocpIInv

-----------------------------------------------------------------------------
(* The invariant.                                                          *)

\* An unbound transport has no operations.
LEMMA IocpStart ==
    IocpInit => IocpIInv
<1> SUFFICES ASSUME IocpInit PROVE IocpIInv
  OBVIOUS
<1>1. /\ iocp_bound = FALSE /\ iocp_running = FALSE /\ caller = <<"idle", FALSE>>
      /\ worker = [w \in IocpWorker |-> "none"] /\ handling = [w \in IocpWorker |-> Quit]
      /\ port = <<>> /\ pending = [op \in {} |-> 0] /\ recv_live = 0 /\ unposted = 0 /\ refused = 0
      /\ iocp_starts = 0 /\ port_starts = 0 /\ arrived = 0 /\ callbacks = <<>>
  BY DEF IocpInit
<1>2. PhaseOK
  <2>1. caller \in {"idle", "posting", "joining"} \X BOOLEAN /\ caller[1] = "idle"
    BY <1>1
  <2>2. \A w \in IocpWorker : worker[w] = "none"
    BY <1>1
  <2>3. worker \in [IocpWorker -> {"none", "test", "get", "handle", "left"}]
    BY <1>1
  <2>4. /\ recv_live \in 0 .. iocp_starts /\ iocp_starts \in Nat /\ port_starts \in Nat /\ arrived \in Nat
        /\ unposted \in 0 .. num_workers /\ refused \in Nat
    BY <1>1, IocpAssumption, SMTT(60)
  <2> QED
    BY <1>1, <2>1, <2>2, <2>3, <2>4 DEF PhaseOK
<1>3. OpsOK
  BY <1>1, OpNames, IocpAssumption, SMTT(60) DEF OpsOK
<1>4. PortOK /\ SendsOnce /\ SlotsOK
  BY <1>1, SMTT(60) DEF PortOK, SendsOnce, SendOnce, SlotsOK
<1> QED
  BY <1>2, <1>3, <1>4 DEF IocpIInv

\* The inductive invariant has the checked one.
LEMMA IocpIInvImplies ==
    IocpIInv => IocpInv
<1> SUFFICES ASSUME IocpIInv PROVE IocpInv
  OBVIOUS
<1>1. PhaseOK /\ OpsOK /\ PortOK /\ SendsOnce /\ SlotsOK
  BY DEF IocpIInv
<1>2. IocpTypeOK
  BY <1>1 DEF PhaseOK, OpsOK, IocpTypeOK
<1>3. HandledOpsLive
  <2> SUFFICES ASSUME FirstStart, NEW w \in IocpWorker, worker[w] = "handle", handling[w].kind = "recv"
               PROVE  handling[w].id = recv_live
    BY DEF HandledOpsLive
  <2>1. iocp_running \/ caller[1] # "idle"
    BY <1>1 DEF PhaseOK
  <2>2. port_starts = 1 /\ recv_live = iocp_starts
    BY <1>1, <2>1, SMTT(60) DEF PhaseOK, FirstStart
  <2> QED
    BY <1>1, <2>2 DEF PortOK, Handles
<1>4. NoSlotLost
  <2>1. \A op : Pending(op) = Has(pending, op)
    BY DEF Pending, Has
  <2>2. FirstStart /\ iocp_running => \A w \in IocpWorker : worker[w] # "left"
    BY <1>1 DEF PhaseOK
  <2> QED
    BY <1>1, <2>1, <2>2 DEF NoSlotLost, SlotsOK, RecvInPort, RecvInHand, Handles
<1>5. CalledAtMostOnce
  BY <1>1 DEF SendsOnce, SendOnce, CalledAtMostOnce
<1> QED
  BY <1>2, <1>3, <1>4, <1>5 DEF IocpInv

\* IocpTransport, for every number of workers and however its caller, the
\* kernel and the workers interleave: until the port is used for a second
\* start, no freed receive operation is handled and no receive slot is lost but
\* to a refusal; and always a send is called back at most once.
THEOREM IocpCorrect == IocpSpec => []IocpInv
<1>1. IocpInit => IocpIInv
  BY IocpStart
<1>2. IocpIInv /\ [IocpNext]_iocpVars => IocpIInv'
  <2> SUFFICES ASSUME IocpIInv, [IocpNext]_iocpVars
               PROVE  IocpIInv'
    OBVIOUS
  <2>1. CASE iocp_bind
    BY <2>1, BindKeeps
  <2>2. CASE iocp_start \/ PostRecv
    BY <2>2, StartKeeps, PostKeeps
  <2>3. ASSUME NEW closing \in BOOLEAN, iocp_stop(closing) PROVE IocpIInv'
    BY <2>3, StopKeeps
  <2>4. CASE PostSentinels
    BY <2>4, SentinelsKeep
  <2>5. CASE Joined \/ iocp_close
    BY <2>5, EndKeeps
  <2>6. CASE iocp_async_send
    BY <2>6, AsyncSendKeeps
  <2>7. ASSUME NEW op \in DOMAIN pending, NEW ok \in BOOLEAN, KernelComplete(op, ok) PROVE IocpIInv'
    BY <2>7, KernelKeeps
  <2>8. ASSUME NEW w \in IocpWorker, TestRunning(w) PROVE IocpIInv'
    <3> DEFINE at == IF iocp_running THEN "get" ELSE "left"
    <3>1. at \in {"test", "get", "left"} /\ (at = "left" => ~iocp_running) /\ worker[w] \in {"test", "get"}
      BY <2>8 DEF TestRunning
    <3>2. /\ worker' = [worker EXCEPT ![w] = at]
          /\ UNCHANGED <<iocp_bound, iocp_running, caller, handling, port, pending, recv_live, unposted,
                         refused, iocp_starts, port_starts, arrived, callbacks>>
      BY <2>8 DEF TestRunning
    <3> HIDE DEF at
    <3> QED
      BY <3>1, <3>2, MoveKeeps
  <2>9. ASSUME NEW w \in IocpWorker, GetCompletion(w) PROVE IocpIInv'
    <3>1. CASE worker' = [worker EXCEPT ![w] = "test"] /\ UNCHANGED <<port, handling>>
      BY <2>9, <3>1, MoveKeeps DEF GetCompletion
    <3>2. CASE /\ port # <<>> /\ port' = Tail(port)
               /\ handling' = [handling EXCEPT ![w] = Head(port)]
               /\ worker' = [worker EXCEPT ![w] = IF Head(port) = Quit THEN "left" ELSE "handle"]
      BY <2>9, <3>2, TakeKeeps DEF GetCompletion
    <3> QED
      BY <2>9, <3>1, <3>2 DEF GetCompletion
  <2>10. ASSUME NEW w \in IocpWorker, HandleSend(w) PROVE IocpIInv'
    BY <2>10, HandleSendKeeps
  <2>11. ASSUME NEW w \in IocpWorker, HandleRecv(w) PROVE IocpIInv'
    BY <2>11, HandleRecvKeeps
  <2>12. CASE UNCHANGED iocpVars
    <3>1. PhaseOK' /\ OpsOK' /\ PortOK'
      BY <2>12 DEF iocpVars, IocpIInv, PhaseOK, OpsOK, PortOK, IsCompletion, Handles, FirstStart
    <3>2. callbacks' = callbacks /\ pending' = pending /\ port' = port /\ worker' = worker /\ handling' = handling
      BY <2>12 DEF iocpVars
    <3>3. SendsOnce'
      BY <3>2, SendsFrame DEF IocpIInv
    <3>4. SlotsOK'
      <4>1. RecvInHand' = RecvInHand
        BY <3>2 DEF RecvInHand, Handles
      <4> QED
        BY <2>12, <4>1 DEF iocpVars, IocpIInv, SlotsOK, FirstStart
    <3> QED
      BY <3>1, <3>3, <3>4 DEF IocpIInv
  <2> QED
    BY <2>1, <2>2, <2>3, <2>4, <2>5, <2>6, <2>7, <2>8, <2>9, <2>10, <2>11, <2>12 DEF IocpNext
<1>3. IocpIInv => IocpInv
  BY IocpIInvImplies
<1> QED
  BY <1>1, <1>2, <1>3, PTL DEF IocpSpec

-----------------------------------------------------------------------------
(***************************************************************************)
(* The thread pool of AsyncTransport, for every number of threads and      *)
(* jobs: no job is lost or called back twice, however stop() races with    *)
(* the threads and with async_send, and stop() leaves no thread behind.    *)
(***************************************************************************)

USE AsyncAssumption

-----------------------------------------------------------------------------
(* The inductive invariant.  ExactlyOnce counts places; what the steps     *)
(* preserve is where a job is.                                             *)

Queued(j) == \E i \in DOMAIN queue : queue[i] = j
Sending(t, j) == pc[t] = "send" /\ held[t] = j

\* The queue holds no job twice.
Distinct == \A i, k \in DOMAIN queue : queue[i] = queue[k] => i = k

\* A job has one place: a position of the queue, a thread that sends it, or,
\* once it was called back, none.
OnePlace ==
    /\ Distinct
    /\ \A j \in Job, t, u \in Thread : Sending(t, j) /\ Sending(u, j) => t = u
    /\ \A j \in Job, t \in Thread : ~(Queued(j) /\ Sending(t, j))
    /\ \A j \in Job : fired[j] \in {0, 1}
    /\ \A j \in Job : fired[j] = 1 => ~Queued(j) /\ \A t \in Thread : ~Sending(t, j)
    /\ \A j \in Job : j \in submitted <=> Queued(j) \/ fired[j] = 1 \/ \E t \in Thread : Sending(t, j)

\* Threads live only between start() and the end of the join.
ThreadsJoined ==
    /\ (~running /\ control # "joining") => \A t \in Thread : pc[t] = "none"
    /\ control # "outside" => ~running
    /\ locked <=> control \in {"draining", "stuck"}

PoolIInv == TypeOK /\ OnePlace /\ ThreadsJoined

-----------------------------------------------------------------------------
(* What async_send and the threads do to the queue.                        *)

\* async_send puts a job that is not in the queue at its end.
LEMMA Appended ==
    ASSUME queue \in Seq(Job), Distinct, NEW j \in Job, ~Queued(j), queue' = Append(queue, j)
    PROVE  /\ queue' \in Seq(Job) /\ Distinct'
           /\ \A k : Queued(k)' <=> (Queued(k) \/ k = j)
<1>1. DOMAIN queue = 1 .. Len(queue) /\ Len(queue) \in Nat
  BY SMTT(60)
<1>2. queue' \in Seq(Job) /\ DOMAIN queue' = 1 .. Len(queue) + 1
  BY SMTT(60)
<1>3. \A i \in DOMAIN queue : queue'[i] = queue[i]
  BY SMTT(60)
<1>4. queue'[Len(queue) + 1] = j
  BY SMTT(60)
<1>5. \A i \in DOMAIN queue' : i \in DOMAIN queue \/ i = Len(queue) + 1
  BY <1>1, <1>2, SMTT(60)
<1>6. Distinct'
  BY <1>3, <1>4, <1>5, SMTT(60) DEF Distinct, Queued
<1>7. \A k : Queued(k)' <=> (Queued(k) \/ k = j)
  BY <1>1, <1>2, <1>3, <1>4, <1>5, SMTT(60) DEF Queued
<1> QED
  BY <1>2, <1>6, <1>7

\* Whoever takes the first job takes it out of the queue.
LEMMA Taken ==
    ASSUME queue \in Seq(Job), Distinct, queue # <<>>, queue' = Tail(queue)
    PROVE  /\ queue' \in Seq(Job) /\ Distinct'
           /\ Head(queue) \in Job /\ Queued(Head(queue))
           /\ \A k : Queued(k)' <=> (Queued(k) /\ k # Head(queue))
<1>1. DOMAIN queue = 1 .. Len(queue) /\ Len(queue) \in Nat /\ Len(queue) > 0
  BY SMTT(60)
<1>2. queue' \in Seq(Job) /\ DOMAIN queue' = 1 .. Len(queue) - 1
  BY SMTT(60)
<1>3. Head(queue) = queue[1] /\ 1 \in DOMAIN queue /\ queue[1] \in Job
  BY SMTT(60)
<1>4. \A i \in DOMAIN queue' : i + 1 \in DOMAIN queue /\ i + 1 # 1 /\ queue'[i] = queue[i + 1]
  BY <1>1, <1>2, SMTT(60)
<1>5. \A i \in DOMAIN queue : i # 1 => i - 1 \in DOMAIN queue' /\ queue'[i - 1] = queue[i]
  BY <1>1, <1>2, SMTT(60)
<1>6. Distinct'
  <2> SUFFICES ASSUME NEW i \in DOMAIN queue', NEW k \in DOMAIN queue', queue'[i] = queue'[k]
               PROVE  i = k
    BY DEF Distinct
  <2>1. i + 1 = k + 1
    BY <1>4 DEF Distinct
  <2> QED
    BY <1>1, <1>2, <2>1, SMTT(60)
<1>7. ASSUME NEW k
      PROVE  Queued(k)' <=> (Queued(k) /\ k # Head(queue))
  <2>1. Queued(k)' => Queued(k) /\ k # Head(queue)
    BY <1>3, <1>4, SMTT(60) DEF Queued, Distinct
  <2>2. Queued(k) /\ k # Head(queue) => Queued(k)'
    BY <1>3, <1>5 DEF Queued
  <2> QED
    BY <2>1, <2>2
<1> QED
  BY <1>2, <1>3, <1>6, <1>7 DEF Queued

-----------------------------------------------------------------------------
(* Every step keeps the invariant.                                         *)

\* At the start there is no job and no thread.
LEMMA InvInit == Init => PoolIInv
<1> SUFFICES ASSUME Init PROVE PoolIInv
  OBVIOUS
<1>1. TypeOK
  <2>1. queue \in Seq(Job)
    BY SMTT(60) DEF Init
  <2>2. pc \in [Thread -> {"none", "top", "wait", "send", "callback"}]
    BY DEF Init
  <2>3. held \in [Thread -> Job \cup {None}]
    BY DEF Init
  <2>4. \A t \in Thread : held[t] \in Job <=> pc[t] \in {"send", "callback"}
    BY DEF Init
  <2>5. fired \in [Job -> Nat] /\ submitted \in SUBSET Job
    BY DEF Init
  <2>6. starts \in 0 .. MaxStarts
    BY SMTT(60) DEF Init
  <2>7. running \in BOOLEAN /\ locked \in BOOLEAN
    BY DEF Init
  <2>8. control \in {"outside", "joining", "draining", "stuck"}
    BY DEF Init
  <2> QED
    BY <2>1, <2>2, <2>3, <2>4, <2>5, <2>6, <2>7, <2>8 DEF TypeOK
<1>2. OnePlace
  <2>1. DOMAIN queue = {}
    BY SMTT(60) DEF Init
  <2>2. \A j : ~Queued(j)
    BY <2>1 DEF Queued
  <2>3. \A t \in Thread, j \in Job : ~Sending(t, j)
    BY DEF Init, Sending
  <2> QED
    BY <2>1, <2>2, <2>3, SMTT(60) DEF Init, OnePlace, Distinct
<1>3. ThreadsJoined
  BY DEF Init, ThreadsJoined
<1> QED
  BY <1>1, <1>2, <1>3 DEF PoolIInv

\* A step that leaves jobs where they are.
LEMMA PlacesKept ==
    ASSUME OnePlace, UNCHANGED <<queue, fired, submitted>>,
           \A t \in Thread, j \in Job : Sending(t, j)' <=> Sending(t, j)
    PROVE  OnePlace'
<1>1. \A j : Queued(j)' <=> Queued(j)
  BY DEF Queued
<1> QED
  BY <1>1 DEF OnePlace, Distinct

\* start, stop and the steps of stop that take no job.
LEMMA ControlSteps ==
    ASSUME PoolIInv, start \/ stop \/ StopJoined \/ StopReturns
    PROVE  PoolIInv'
<1>1. CASE start
  <2>1. \A t \in Thread : pc[t] = "none" /\ pc'[t] = "top"
    BY <1>1 DEF start, PoolIInv, ThreadsJoined
  <2>2. TypeOK'
    BY <1>1, <2>1, SMTT(60) DEF start, PoolIInv, TypeOK
  <2>3. OnePlace'
    BY <1>1, <2>1, PlacesKept DEF start, PoolIInv, Sending
  <2>4. ThreadsJoined'
    BY <1>1 DEF start, PoolIInv, ThreadsJoined
  <2> QED
    BY <2>2, <2>3, <2>4 DEF PoolIInv
<1>2. CASE stop \/ StopJoined \/ StopReturns
  <2>1. TypeOK'
    BY <1>2 DEF stop, StopJoined, StopReturns, PoolIInv, TypeOK
  <2>2. OnePlace'
    BY <1>2, PlacesKept DEF stop, StopJoined, StopReturns, PoolIInv, Sending
  <2>3. ThreadsJoined'
    BY <1>2, SMTT(60) DEF stop, StopJoined, StopReturns, PoolIInv, ThreadsJoined, TypeOK
  <2> QED
    BY <2>1, <2>2, <2>3 DEF PoolIInv
<1> QED
  BY <1>1, <1>2

\* stop() completes a job that the threads left.
LEMMA DrainStep ==
    ASSUME PoolIInv, StopDrains
    PROVE  PoolIInv'
<1> DEFINE j == Head(queue)
<1>1. /\ queue # <<>> /\ queue' = Tail(queue)
      /\ fired' = [fired EXCEPT ![j] = @ + 1]
      /\ control = "draining" /\ control' \in {"draining", "stuck"}
      /\ UNCHANGED <<running, pc, held, locked, submitted, starts>>
  BY DEF StopDrains
<1>2. TypeOK /\ OnePlace /\ Distinct /\ queue \in Seq(Job)
  BY DEF PoolIInv, TypeOK, OnePlace
<1>3. /\ queue' \in Seq(Job) /\ Distinct' /\ j \in Job /\ Queued(j)
      /\ \A k : Queued(k)' <=> (Queued(k) /\ k # j)
  BY <1>1, <1>2, Taken
<1> HIDE DEF j
<1>4. \A t \in Thread, k \in Job : Sending(t, k)' <=> Sending(t, k)
  BY <1>1 DEF Sending
<1>5. fired[j] = 0 /\ \A t \in Thread : ~Sending(t, j)
  BY <1>2, <1>3 DEF OnePlace
<1>6. fired'[j] = 1 /\ \A k \in Job : k # j => fired'[k] = fired[k]
  BY <1>1, <1>2, <1>3, <1>5, SMTT(60) DEF TypeOK
<1>7. TypeOK'
  <2>1. fired' \in [Job -> Nat]
    BY <1>1, <1>2, <1>3, SMTT(60) DEF TypeOK
  <2> QED
    BY <1>1, <1>2, <1>3, <2>1 DEF TypeOK
<1>8. OnePlace'
  BY <1>1, <1>2, <1>3, <1>4, <1>5, <1>6, SMTT(60) DEF OnePlace
<1>9. ThreadsJoined'
  BY <1>1 DEF PoolIInv, ThreadsJoined
<1> QED
  BY <1>7, <1>8, <1>9 DEF PoolIInv

\* A job that is submitted was nowhere before and is in the queue afterwards.
LEMMA SubmitPlaces ==
    ASSUME TypeOK, OnePlace, NEW j \in Job, async_send(j), UNCHANGED fired,
           \A t \in Thread, k \in Job : Sending(t, k)' <=> Sending(t, k)
    PROVE  queue' \in Seq(Job) /\ submitted' \in SUBSET Job /\ OnePlace'
<1>1. j \notin submitted /\ submitted' = submitted \cup {j} /\ queue' = Append(queue, j)
  BY DEF async_send
<1>2. ~Queued(j) /\ fired[j] = 0 /\ \A t \in Thread : ~Sending(t, j)
  BY <1>1 DEF OnePlace
<1>3. queue \in Seq(Job) /\ Distinct
  BY DEF TypeOK, OnePlace
<1>4. queue' \in Seq(Job) /\ Distinct' /\ \A k : Queued(k)' <=> (Queued(k) \/ k = j)
  BY <1>1, <1>2, <1>3, Appended
<1>5. OnePlace'
  BY <1>1, <1>2, <1>4, SMTT(60) DEF OnePlace
<1> QED
  BY <1>1, <1>4, <1>5 DEF TypeOK

\* A client submits a job.
LEMMA SubmitStep ==
    ASSUME PoolIInv, NEW j \in Job, Submit(j)
    PROVE  PoolIInv'
<1>1. async_send(j) /\ UNCHANGED <<running, control, pc, held, locked, fired, starts>>
  BY DEF Submit
<1>2. \A t \in Thread, k \in Job : Sending(t, k)' <=> Sending(t, k)
  BY <1>1 DEF Sending
<1>3. queue' \in Seq(Job) /\ submitted' \in SUBSET Job /\ OnePlace'
  BY <1>1, <1>2, SubmitPlaces DEF PoolIInv
<1>4. TypeOK'
  BY <1>1, <1>3 DEF PoolIInv, TypeOK
<1>5. ThreadsJoined'
  BY <1>1 DEF PoolIInv, ThreadsJoined
<1> QED
  BY <1>3, <1>4, <1>5 DEF PoolIInv

\* A thread changes only its own place, and only while threads may live.
LEMMA ThreadAlive ==
    ASSUME PoolIInv, NEW t \in Thread, pc[t] # "none", NEW place,
           pc' = [pc EXCEPT ![t] = place], UNCHANGED <<running, control, locked>>
    PROVE  ThreadsJoined'
<1>1. running \/ control = "joining"
  BY DEF PoolIInv, ThreadsJoined
<1> QED
  BY <1>1 DEF PoolIInv, ThreadsJoined

\* The loop of a thread.
LEMMA LoopStep ==
    ASSUME PoolIInv, NEW t \in Thread, send_loop(t)
    PROVE  PoolIInv'
<1>1. TypeOK /\ OnePlace /\ Distinct /\ queue \in Seq(Job)
  BY DEF PoolIInv, TypeOK, OnePlace
<1>2. CASE Top(t) \/ (Wake(t) /\ queue = <<>>)
  <2>1. /\ pc[t] \in {"top", "wait"} /\ UNCHANGED <<running, control, held, queue, locked, submitted, fired, starts>>
        /\ \E place \in {"wait", "none", "top"} : pc' = [pc EXCEPT ![t] = place]
    BY <1>2 DEF Top, Wake
  <2>2. \A u \in Thread, k \in Job : Sending(u, k)' <=> Sending(u, k)
    BY <1>1, <2>1 DEF Sending, TypeOK
  <2>3. OnePlace'
    BY <1>1, <2>1, <2>2, PlacesKept
  <2>4. TypeOK'
    BY <1>1, <2>1 DEF TypeOK
  <2>5. ThreadsJoined'
    BY <2>1, ThreadAlive
  <2> QED
    BY <2>3, <2>4, <2>5 DEF PoolIInv
<1>3. CASE Wake(t) /\ queue # <<>>
  <2> DEFINE j == Head(queue)
  <2>1. /\ pc[t] = "wait" /\ pc' = [pc EXCEPT ![t] = "send"]
        /\ held' = [held EXCEPT ![t] = j]
        /\ queue' = Tail(queue)
        /\ UNCHANGED <<running, control, locked, submitted, fired, starts>>
    BY <1>3 DEF Wake
  <2>2. /\ queue' \in Seq(Job) /\ Distinct' /\ j \in Job /\ Queued(j)
        /\ \A k : Queued(k)' <=> (Queued(k) /\ k # j)
    BY <1>1, <1>3, <2>1, Taken
  <2> HIDE DEF j
  <2>3. \A u \in Thread, k \in Job : Sending(u, k)' <=> (Sending(u, k) \/ (u = t /\ k = j))
    BY <1>1, <2>1, <2>2 DEF Sending, TypeOK
  <2>4. fired[j] = 0 /\ \A u \in Thread : ~Sending(u, j)
    BY <1>1, <2>2 DEF OnePlace
  <2>5. \A k \in Job : ~Sending(t, k)
    BY <2>1 DEF Sending
  <2>6. OnePlace'
    BY <1>1, <2>1, <2>2, <2>3, <2>4, <2>5, SMTT(60) DEF OnePlace
  <2>7. TypeOK'
    BY <1>1, <2>1, <2>2 DEF TypeOK
  <2>8. ThreadsJoined'
    BY <2>1, ThreadAlive
  <2> QED
    BY <2>6, <2>7, <2>8 DEF PoolIInv
<1>4. CASE Complete(t)
  <2> DEFINE j == held[t]
  <2>1. /\ pc[t] = "send" /\ pc' = [pc EXCEPT ![t] = "callback"]
        /\ fired' = [fired EXCEPT ![j] = @ + 1]
        /\ UNCHANGED <<running, control, held, queue, locked, submitted, starts>>
    BY <1>4 DEF Complete
  <2>2. j \in Job /\ Sending(t, j)
    BY <1>1, <2>1 DEF TypeOK, Sending
  <2>3. \A u \in Thread, k \in Job : Sending(u, k)' <=> (Sending(u, k) /\ u # t)
    BY <1>1, <2>1 DEF Sending, TypeOK
  <2>4. \A k \in Job : Sending(t, k) => k = j
    BY DEF Sending
  <2> HIDE DEF j
  <2>5. \A k : Queued(k)' <=> Queued(k)
    BY <2>1 DEF Queued
  <2>6. fired[j] = 0 /\ ~Queued(j)
    BY <1>1, <2>2 DEF OnePlace
  <2>7. fired'[j] = 1 /\ \A k \in Job : k # j => fired'[k] = fired[k]
    BY <1>1, <2>1, <2>2, <2>6, SMTT(60) DEF TypeOK
  <2>8. OnePlace'
    BY <1>1, <2>1, <2>2, <2>3, <2>4, <2>5, <2>6, <2>7, SMTT(60) DEF OnePlace, Distinct
  <2>9. TypeOK'
    <3>1. fired' \in [Job -> Nat]
      BY <1>1, <2>1, <2>2, SMTT(60) DEF TypeOK
    <3> QED
      BY <1>1, <2>1, <3>1 DEF TypeOK
  <2>10. ThreadsJoined'
    BY <2>1, ThreadAlive
  <2> QED
    BY <2>8, <2>9, <2>10 DEF PoolIInv
<1>5. CASE Callback(t)
  <2>1. /\ pc[t] = "callback" /\ pc' = [pc EXCEPT ![t] = "top"]
        /\ held' = [held EXCEPT ![t] = None]
        /\ UNCHANGED <<running, control, locked, fired, starts>>
    BY <1>5 DEF Callback
  <2>2. \A u \in Thread, k \in Job : Sending(u, k)' <=> Sending(u, k)
    BY <1>1, <2>1 DEF Sending, TypeOK
  <2>3. queue' \in Seq(Job) /\ submitted' \in SUBSET Job /\ OnePlace'
    <3>1. CASE Follow[held[t]] \in Job \ submitted
      <4>1. async_send(Follow[held[t]])
        BY <1>5, <3>1 DEF Callback
      <4> QED
        BY <1>1, <2>1, <2>2, <3>1, <4>1, SubmitPlaces
    <3>2. CASE Follow[held[t]] \notin Job \ submitted
      <4>1. UNCHANGED <<queue, submitted>>
        BY <1>5, <3>2 DEF Callback
      <4> QED
        BY <1>1, <2>1, <2>2, <4>1, PlacesKept DEF TypeOK
    <3> QED
      BY <3>1, <3>2
  <2>4. TypeOK'
    BY <1>1, <2>1, <2>3 DEF TypeOK
  <2>5. ThreadsJoined'
    BY <2>1, ThreadAlive
  <2> QED
    BY <2>3, <2>4, <2>5 DEF PoolIInv
<1> QED
  BY <1>2, <1>3, <1>4, <1>5 DEF send_loop

\* Every step of the control thread, of a client or of a pool thread.
LEMMA InvStep == PoolIInv /\ [Next]_vars => PoolIInv'
<1> SUFFICES ASSUME PoolIInv, [Next]_vars PROVE PoolIInv'
  OBVIOUS
<1>1. CASE UNCHANGED vars
  <2>1. \A t \in Thread, j \in Job : Sending(t, j)' <=> Sending(t, j)
    BY <1>1 DEF vars, Sending
  <2>2. OnePlace'
    BY <1>1, <2>1, PlacesKept DEF PoolIInv, vars
  <2> QED
    BY <1>1, <2>2 DEF vars, PoolIInv, TypeOK, ThreadsJoined
<1> QED
  BY <1>1, ControlSteps, DrainStep, SubmitStep, LoopStep DEF Next

-----------------------------------------------------------------------------
(* The theorem.                                                            *)

\* A job with one place is counted once.
LEMMA PlaceCounted ==
    ASSUME PoolIInv
    PROVE  ExactlyOnce
<1> SUFFICES ASSUME NEW j \in Job
             PROVE  Cardinality({i \in DOMAIN queue : queue[i] = j})
                    + Cardinality({t \in Thread : pc[t] = "send" /\ held[t] = j})
                    + fired[j] = IF j \in submitted THEN 1 ELSE 0
  BY DEF ExactlyOnce
<1> DEFINE Q == {i \in DOMAIN queue : queue[i] = j}
           S == {t \in Thread : pc[t] = "send" /\ held[t] = j}
<1>1. Cardinality(Q) = IF Queued(j) THEN 1 ELSE 0
  <2>1. CASE Queued(j)
    <3>1. PICK i \in DOMAIN queue : queue[i] = j
      BY <2>1 DEF Queued
    <3>2. Q = {i}
      BY <3>1 DEF PoolIInv, OnePlace, Distinct
    <3> QED
      BY <2>1, <3>2, FS_Singleton
  <2>2. CASE ~Queued(j)
    <3>1. Q = {}
      BY <2>2 DEF Queued
    <3> QED
      BY <2>2, <3>1, FS_EmptySet
  <2> QED
    BY <2>1, <2>2
<1>2. Cardinality(S) = IF \E t \in Thread : Sending(t, j) THEN 1 ELSE 0
  <2>1. CASE \E t \in Thread : Sending(t, j)
    <3>1. PICK t \in Thread : Sending(t, j)
      BY <2>1
    <3>2. S = {t}
      BY <3>1, SMTT(60) DEF PoolIInv, OnePlace, Sending
    <3> QED
      BY <2>1, <3>2, FS_Singleton
  <2>2. CASE ~\E t \in Thread : Sending(t, j)
    <3>1. S = {}
      BY <2>2 DEF Sending
    <3> QED
      BY <2>2, <3>1, FS_EmptySet
  <2> QED
    BY <2>1, <2>2
<1> HIDE DEF Q, S
<1>3. Cardinality(Q) + Cardinality(S) + fired[j] = IF j \in submitted THEN 1 ELSE 0
  BY <1>1, <1>2, SMTT(60) DEF PoolIInv, OnePlace
<1> QED
  BY <1>3 DEF Q, S

\* However stop() races with the threads, the clients and their callbacks, a
\* job that was submitted is queued once, or taken by one thread, or has been
\* called back once; and no thread outlives stop().
THEOREM PoolCorrect == Spec => []PoolInv
<1>1. PoolIInv => PoolInv
  BY PlaceCounted DEF PoolIInv, PoolInv, ThreadsJoined, StopIsFinal
<1> QED
  BY <1>1, InvInit, InvStep, PTL DEF Spec
=============================================================================
