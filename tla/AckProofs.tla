----------------------------- MODULE AckProofs ------------------------------
(***************************************************************************)
(* The acknowledgements of packets, and the congestion controller they     *)
(* drive.                                                                  *)
(***************************************************************************)
EXTENDS AckTracking, Congestion, FiniteSetTheorems, TLAPS

\* A leaf that names no prover is left to Zenon; the others need arithmetic.
USE ZenonT(60)

-----------------------------------------------------------------------------
(***************************************************************************)
(* AckTracking: what the receiver reports it has received, and what the    *)
(* sender makes of a report. The numbers on the wire are the true ones     *)
(* modulo Turn; the proofs need that a true number is within half a turn   *)
(* of the ones it is compared with.                                        *)
(***************************************************************************)

(* Natural numbers.                                                        *)

\* A nonempty set of natural numbers has a least element.
LEMMA LeastNatural ==
    ASSUME NEW T \in SUBSET Nat, T # {}
    PROVE  \E x \in T : \A y \in T : x <= y
<1> DEFINE R == OpToRel(<, Nat)
<1>1. IsWellFoundedOn(R, Nat)
  BY NatLessThanWellFounded
<1>2. \A x, y \in Nat : x < y => <<x, y>> \in R
  BY DEF OpToRel
<1> HIDE DEF R
<1>3. PICK x \in T : \A y \in T : ~(<<y, x>> \in R)
  BY <1>1, WFMin
<1>4. \A y \in T : x <= y
  <2> TAKE y \in T
  <2>1. x \in Nat /\ y \in Nat /\ ~(y < x)
    BY <1>2, <1>3
  <2> QED
    BY <2>1, SMTT(60)
<1> QED
  BY <1>4

-----------------------------------------------------------------------------
(* Serial number arithmetic, for every modulus.                            *)

Half == SeqMod \div 2

\* The constants of the trackers: SeqMod is twice Half, and neither the
\* window nor the lag reaches half of the number space.
LEMMA AckConstants ==
    /\ SeqMod \in Nat \ {0} /\ Half \in Nat \ {0} /\ SeqMod = 2 * Half
    /\ BITMAP_SIZE \in 1 .. Half
    /\ MaxLag \in 0 .. Half - BITMAP_SIZE
    /\ MaxRanges \in Nat /\ MaxPackets \in Nat
    /\ First \in {0} \cup BITMAP_SIZE .. MaxPackets
<1>1. SeqMod \in Nat \ {0} /\ SeqMod % 2 = 0 /\ BITMAP_SIZE \in 1 .. Half
  BY AckAssumption DEF Half
<1>2. Half \in Nat /\ SeqMod = 2 * Half
  BY <1>1, SMTT(60) DEF Half
<1> QED
  BY <1>1, <1>2, AckAssumption, SMTT(60) DEF Half

\* A multiple of M that is smaller than M is 0.
LEMMA SmallMultiple ==
    ASSUME NEW M \in Nat \ {0}, NEW k \in Int, k * M < M, -M < k * M
    PROVE  k = 0
<1>1. CASE k >= 1
  <2>1. k * M >= M
    BY <1>1, SMTT(60)
  <2> QED
    BY <2>1, SMTT(60)
<1>2. CASE k <= -1
  <2>1. k * M <= -M
    BY <1>2, SMTT(60)
  <2> QED
    BY <2>1, SMTT(60)
<1> QED
  BY <1>1, <1>2, SMTT(60)

\* Division leaves a remainder below the divisor.
LEMMA DivisionFacts ==
    ASSUME NEW M \in Nat \ {0}, NEW a \in Int
    PROVE  a % M \in 0 .. M - 1 /\ a \div M \in Int /\ a = M * (a \div M) + (a % M)
  BY SMTT(60)

\* The remainder is the only one.
LEMMA RemainderUnique ==
    ASSUME NEW M \in Nat \ {0}, NEW q \in Int, NEW r \in 0 .. M - 1
    PROVE  (q * M + r) % M = r
<1> DEFINE a == q * M + r
           k == q - (a \div M)
<1>1. a \in Int
  BY SMTT(60)
<1>2. a % M \in 0 .. M - 1 /\ a \div M \in Int /\ a = M * (a \div M) + (a % M)
  BY <1>1, DivisionFacts
<1>3. k \in Int /\ k * M = (a % M) - r
  BY <1>2, SMTT(60)
<1>4. k * M < M /\ -M < k * M
  BY <1>2, <1>3, SMTT(60)
<1> HIDE DEF k
<1>5. k = 0
  BY <1>3, <1>4, SmallMultiple
<1> QED
  BY <1>2, <1>3, <1>5, SMTT(60)

\* The difference of two packet numbers on the wire is the difference of the
\* packets, as long as it is less than a turn.
LEMMA DiffFacts ==
    ASSUME NEW a \in Int, NEW b \in Int
    PROVE  /\ num(a) \in Number
           /\ diff(num(a), num(b)) \in Number
           /\ a - b \in Number => diff(num(a), num(b)) = a - b
           /\ a - b < 0 /\ a - b > -SeqMod => diff(num(a), num(b)) = a - b + SeqMod
<1> USE AckConstants
<1> DEFINE M == SeqMod
           qa == a \div M
           qb == b \div M
<1>0. M \in Nat \ {0} /\ M = SeqMod
  OBVIOUS
<1> HIDE DEF M
<1>1. /\ num(a) \in 0 .. M - 1 /\ qa \in Int /\ a = M * qa + num(a)
      /\ num(b) \in 0 .. M - 1 /\ qb \in Int /\ b = M * qb + num(b)
  <2>1. num(a) = a % M /\ num(b) = b % M
    BY <1>0 DEF num
  <2>2. a % M \in 0 .. M - 1 /\ qa \in Int /\ a = M * qa + (a % M)
    BY <1>0, DivisionFacts
  <2>3. b % M \in 0 .. M - 1 /\ qb \in Int /\ b = M * qb + (b % M)
    BY <1>0, DivisionFacts
  <2> QED
    BY <2>1, <2>2, <2>3
<1> HIDE DEF qa, qb
<1>2. diff(num(a), num(b)) \in Number
  BY <1>0, <1>1, SMTT(60) DEF diff, Number
<1>3. num(a) - num(b) = (qb - qa) * M + (a - b)
  BY <1>0, <1>1, SMTT(60)
<1>4. ASSUME a - b \in Number
      PROVE  diff(num(a), num(b)) = a - b
  <2>1. (qb - qa) \in Int /\ a - b \in 0 .. M - 1
    BY <1>0, <1>1, <1>4, SMTT(60) DEF Number
  <2>2. ((qb - qa) * M + (a - b)) % M = a - b
    BY <1>0, <2>1, RemainderUnique
  <2> QED
    BY <1>0, <1>3, <2>2 DEF diff
<1>5. ASSUME a - b < 0, a - b > -M
      PROVE  diff(num(a), num(b)) = a - b + M
  <2>1. (qb - qa - 1) \in Int /\ a - b + M \in 0 .. M - 1
    BY <1>0, <1>1, <1>5, SMTT(60)
  <2>2. ((qb - qa - 1) * M + (a - b + M)) % M = a - b + M
    BY <1>0, <2>1, RemainderUnique
  <2>3. num(a) - num(b) = (qb - qa - 1) * M + (a - b + M)
    BY <1>0, <1>1, <1>3, SMTT(60)
  <2> QED
    BY <1>0, <2>2, <2>3 DEF diff
<1> QED
  BY <1>0, <1>1, <1>2, <1>4, <1>5 DEF Number

\* Serial comparison agrees with the order of the packets, as long as they
\* are less than half of the number space apart.
LEMMA SerialOrder ==
    ASSUME NEW a \in Int, NEW b \in Int, a - b < Half, b - a < Half
    PROVE  /\ seq_lt(num(a), num(b)) <=> a < b
           /\ seq_le(num(a), num(b)) <=> a <= b
           /\ seq_gt(num(a), num(b)) <=> a > b
           /\ seq_ge(num(a), num(b)) <=> a >= b
<1> USE AckConstants
<1>1. ASSUME NEW x \in Int, NEW y \in Int, x - y < Half, y - x < Half
      PROVE  /\ seq_lt(num(x), num(y)) <=> x < y
             /\ num(x) = num(y) <=> x = y
  <2>1. CASE x >= y
    <3>1. diff(num(x), num(y)) = x - y
      BY <1>1, <2>1, DiffFacts, SMTT(60) DEF Number
    <3>2. ~seq_lt(num(x), num(y))
      BY <1>1, <3>1, SMTT(60) DEF seq_lt, Half
    <3>3. num(x) = num(y) => x = y
      <4>1. diff(num(x), num(x)) = 0
        BY DiffFacts, SMTT(60) DEF Number
      <4> QED
        BY <3>1, <4>1, SMTT(60)
    <3> QED
      BY <2>1, <3>2, <3>3, SMTT(60)
  <2>2. CASE x < y
    <3>1. diff(num(x), num(y)) = x - y + SeqMod
      BY <1>1, <2>2, DiffFacts, SMTT(60)
    <3>2. seq_lt(num(x), num(y))
      BY <1>1, <2>2, <3>1, SMTT(60) DEF seq_lt, Half
    <3>3. num(x) # num(y)
      <4>1. diff(num(x), num(x)) = 0
        BY DiffFacts, SMTT(60) DEF Number
      <4> QED
        BY <1>1, <2>2, <3>1, <4>1, SMTT(60)
    <3> QED
      BY <2>2, <3>2, <3>3
  <2> QED
    BY <1>1, <2>1, <2>2, SMTT(60)
<1>2. (seq_lt(num(a), num(b)) <=> a < b) /\ (num(a) = num(b) <=> a = b)
  BY <1>1
<1>3. seq_lt(num(b), num(a)) <=> b < a
  BY <1>1
<1> QED
  BY <1>2, <1>3, SMTT(60) DEF seq_le, seq_gt, seq_ge

-----------------------------------------------------------------------------
(* The closed runs of the bitmap.                                          *)

\* The number of elements up to one, by a key that tells the elements of a
\* finite set apart, tells them apart too.
LEMMA RankTells ==
    ASSUME NEW K, IsFiniteSet(K), NEW g \in [K -> Int],
           \A r, s \in K : g[r] = g[s] => r = s
    PROVE  /\ \A r \in K : Cardinality({s \in K : g[s] <= g[r]}) \in 1 .. Cardinality(K)
           /\ \A r, t \in K :
                Cardinality({s \in K : g[s] <= g[r]}) = Cardinality({s \in K : g[s] <= g[t]}) => r = t
<1> DEFINE N == Cardinality(K)
           UpTo(r) == {s \in K : g[s] <= g[r]}
<1>1. N \in Nat
  BY FS_CardinalityType
<1>2. \A r \in K : IsFiniteSet(UpTo(r)) /\ Cardinality(UpTo(r)) \in 1 .. N
  <2> TAKE r \in K
  <2>1. UpTo(r) \in SUBSET K
    OBVIOUS
  <2>2. IsFiniteSet(UpTo(r)) /\ Cardinality(UpTo(r)) <= N
    BY <2>1, FS_Subset
  <2>3. Cardinality(UpTo(r)) \in Nat
    BY <2>2, FS_CardinalityType
  <2>4. r \in UpTo(r)
    BY SMTT(60)
  <2>5. Cardinality(UpTo(r)) # 0
    BY <2>2, <2>4, FS_EmptySet
  <2> QED
    BY <1>1, <2>2, <2>3, <2>5, SMTT(60)
<1>3. ASSUME NEW r \in K, NEW t \in K, g[r] < g[t]
      PROVE  Cardinality(UpTo(r)) # Cardinality(UpTo(t))
  <2>1. UpTo(r) \in SUBSET UpTo(t)
    BY <1>3, SMTT(60)
  <2>2. t \in UpTo(t) /\ t \notin UpTo(r)
    BY <1>3, SMTT(60)
  <2>3. UpTo(r) # UpTo(t)
    BY <2>2
  <2> QED
    BY <1>2, <2>1, <2>3, FS_Subset
<1>4. \A r, t \in K : Cardinality(UpTo(r)) = Cardinality(UpTo(t)) => r = t
  <2> TAKE r, t \in K
  <2>1. CASE r = t
    BY <2>1
  <2>2. CASE g[r] < g[t]
    BY <1>3, <2>2
  <2>3. CASE g[t] < g[r]
    BY <1>3, <2>3
  <2>4. r = t \/ g[r] < g[t] \/ g[t] < g[r]
    BY SMTT(60)
  <2> QED
    BY <2>1, <2>2, <2>3, <2>4
<1> QED
  BY <1>2, <1>4

\* The elements of a finite set can be counted off in the order of such a key.
LEMMA Ranks ==
    ASSUME NEW K, IsFiniteSet(K), NEW g \in [K -> Int],
           \A r, s \in K : g[r] = g[s] => r = s,
           NEW i \in 1 .. Cardinality(K)
    PROVE  \E r \in K : Cardinality({s \in K : g[s] <= g[r]}) = i
<1> DEFINE N == Cardinality(K)
           UpTo(r) == {s \in K : g[s] <= g[r]}
           f == [r \in K |-> Cardinality(UpTo(r))]
<1>1. N \in Nat
  BY FS_CardinalityType
<1>2. /\ \A r \in K : Cardinality(UpTo(r)) \in 1 .. N
      /\ \A r, t \in K : Cardinality(UpTo(r)) = Cardinality(UpTo(t)) => r = t
  BY RankTells
<1>5. f \in Injection(K, 1 .. N)
  <2>1. f \in [K -> 1 .. N] /\ \A r, t \in K : f[r] = f[t] => r = t
    <3> HIDE DEF UpTo
    <3> QED
      BY <1>2
  <2> HIDE DEF f
  <2> QED
    BY <2>1 DEF Injection, IsInjective
<1>6. IsFiniteSet(1 .. N) /\ Cardinality(1 .. N) = N
  BY <1>1, FS_Interval, SMTT(60)
<1>7. f \in Surjection(K, 1 .. N)
  <2> HIDE DEF f
  <2> QED
    BY <1>5, <1>6, FS_Injection
<1>8. PICK r \in K : f[r] = i
  <2> HIDE DEF f
  <2> QED
    BY <1>7 DEF Surjection
<1> QED
  BY <1>8

\* A closed run is told by where it starts, and there are finitely many.
LEMMA ClosedRunFacts ==
    ASSUME bitmap \in SUBSET Offset
    PROVE  /\ IsFiniteSet(ClosedRuns) /\ Cardinality(ClosedRuns) \in Nat
           /\ \A r \in ClosedRuns : r[1] \in Nat /\ r[2] \in Nat
           /\ \A r, s \in ClosedRuns : r[1] = s[1] => r = s
<1> USE AckConstants
<1>1. IsFiniteSet(Offset)
  BY FS_Interval, SMTT(60) DEF Offset
<1>2. IsFiniteSet(Offset \X Offset)
  BY <1>1, FS_Product
<1>3. ClosedRuns \in SUBSET (Offset \X Offset)
  BY DEF ClosedRuns
<1>4. IsFiniteSet(ClosedRuns)
  BY <1>2, <1>3, FS_Subset
<1>5. \A r \in ClosedRuns : r = <<r[1], r[2]>> /\ r[1] \in Nat /\ r[2] \in Nat
  BY <1>3, SMTT(60) DEF Offset
<1>6. ASSUME NEW r \in ClosedRuns, NEW s \in ClosedRuns, r[1] = s[1], r[2] < s[2]
      PROVE  FALSE
  <2>1. r[2] + 1 \notin bitmap /\ r[1] <= r[2] /\ s[1] .. s[2] \subseteq bitmap
    BY DEF ClosedRuns
  <2>2. r[2] + 1 \in s[1] .. s[2]
    BY <1>5, <1>6, <2>1, SMTT(60)
  <2> QED
    BY <2>1, <2>2
<1>7. ASSUME NEW r \in ClosedRuns, NEW s \in ClosedRuns, r[1] = s[1]
      PROVE  r = s
  <2>1. ~(r[2] < s[2]) /\ ~(s[2] < r[2])
    BY <1>6, <1>7
  <2>2. r[2] = s[2]
    BY <1>5, <2>1, SMTT(60)
  <2> QED
    BY <1>5, <1>7, <2>2
<1> QED
  BY <1>4, <1>5, <1>7, FS_CardinalityType

\* Run(i) is the i-th closed run.
LEMMA RunFacts ==
    ASSUME bitmap \in SUBSET Offset, NEW i \in 1 .. Cardinality(ClosedRuns)
    PROVE  /\ Run(i) \in ClosedRuns
           /\ Cardinality({s \in ClosedRuns : s[1] <= Run(i)[1]}) = i
<1> DEFINE g == [r \in ClosedRuns |-> r[1]]
<1>1. g \in [ClosedRuns -> Int] /\ \A r, s \in ClosedRuns : g[r] = g[s] => r = s
  BY ClosedRunFacts, SMTT(60)
<1>2. \A r \in ClosedRuns : {s \in ClosedRuns : g[s] <= g[r]} = {s \in ClosedRuns : s[1] <= r[1]}
  OBVIOUS
<1> HIDE DEF g
<1>3. \E r \in ClosedRuns : Cardinality({s \in ClosedRuns : g[s] <= g[r]}) = i
  <2>1. IsFiniteSet(ClosedRuns)
    BY ClosedRunFacts
  <2> QED
    BY <1>1, <2>1, Ranks, SMTT(60)
<1> DEFINE Ith(r) == Cardinality({s \in ClosedRuns : s[1] <= r[1]}) = i
<1>4. \E r \in ClosedRuns : Ith(r)
  BY <1>2, <1>3
<1>5. Run(i) = CHOOSE r \in ClosedRuns : Ith(r)
  BY DEF Run
<1> HIDE DEF Ith
<1>6. Run(i) \in ClosedRuns /\ Ith(Run(i))
  BY <1>4, <1>5
<1> QED
  BY <1>6 DEF Ith

\* Every closed run is one of them.
LEMMA RunsListed ==
    ASSUME bitmap \in SUBSET Offset, NEW r \in ClosedRuns
    PROVE  \E i \in 1 .. Cardinality(ClosedRuns) : Run(i) = r
<1> DEFINE g == [s \in ClosedRuns |-> s[1]]
           UpTo(t) == {s \in ClosedRuns : g[s] <= g[t]}
           i == Cardinality(UpTo(r))
<1>1. g \in [ClosedRuns -> Int] /\ \A t, s \in ClosedRuns : g[t] = g[s] => t = s
  BY ClosedRunFacts, SMTT(60)
<1>2. \A t \in ClosedRuns : UpTo(t) = {s \in ClosedRuns : s[1] <= t[1]}
  OBVIOUS
<1> HIDE DEF g
<1>3. /\ i \in 1 .. Cardinality(ClosedRuns)
      /\ \A t \in ClosedRuns : Cardinality(UpTo(r)) = Cardinality(UpTo(t)) => r = t
  <2>1. IsFiniteSet(ClosedRuns)
    BY ClosedRunFacts
  <2>2. /\ \A t \in ClosedRuns : Cardinality(UpTo(t)) \in 1 .. Cardinality(ClosedRuns)
        /\ \A s, t \in ClosedRuns : Cardinality(UpTo(s)) = Cardinality(UpTo(t)) => s = t
    BY <1>1, <2>1, RankTells, SMTT(60)
  <2> QED
    BY <2>2
<1>4. Run(i) \in ClosedRuns /\ Cardinality({s \in ClosedRuns : s[1] <= Run(i)[1]}) = i
  BY <1>3, RunFacts
<1>5. Cardinality(UpTo(Run(i))) = i
  BY <1>2, <1>4
<1> QED
  BY <1>3, <1>4, <1>5

-----------------------------------------------------------------------------
(* The inductive invariant.                                                *)

\* Packet n is no further behind the sender than serial arithmetic bears.
Recent(n) == sent - n <= MaxLag + 1

\* The receiver is at packet n, and its bitmap tells what came before it.
At(n) ==
    /\ n \in received /\ \A m \in received : m <= n
    /\ Recent(n)
    /\ largest_received = num(n)
    /\ bitmap = {i \in Offset : n - i \in received}

\* Ack a was built when packet m was the newest: it acks m, and its ranges end
\* before m and within the window.
BuiltAt(a, m) ==
    /\ m \in received /\ Recent(m)
    /\ a.largest = num(m)
    /\ \A i \in DOMAIN a.ranges : \E r \in 1 .. BITMAP_SIZE - 1 : a.ranges[i].end = num(m - r)

\* What AckInv needs to be inductive: nothing in flight is so old that the
\* packet numbers are mistaken for newer ones.
AckIInv ==
    /\ TypeOK
    /\ IF has_received THEN \E n \in received : At(n) ELSE received = {}
    /\ \A n \in net : Recent(n)
    /\ \A a \in acks : \E m \in received : BuiltAt(a, m)
    /\ NothingAckedAhead

\* Packets are numbers, and recent ones are less than half of the number space
\* apart.
LEMMA PacketFacts ==
    ASSUME TypeOK
    PROVE  /\ sent \in Nat
           /\ \A n \in net \cup received \cup acked : n \in Nat /\ n < sent
           /\ \A m, n \in 0 .. sent - 1 : Recent(m) => n - m < Half
<1> USE AckConstants
<1>1. sent \in Nat /\ net \cup received \cup acked \subseteq 0 .. sent - 1
  BY SMTT(60) DEF TypeOK
<1>2. ASSUME NEW m \in 0 .. sent - 1, NEW n \in 0 .. sent - 1, Recent(m)
      PROVE  n - m < Half
  BY <1>1, <1>2, SMTT(60) DEF Recent
<1> QED
  BY <1>1, <1>2, SMTT(60)

\* The trackers start with the first packets received and acked.
LEMMA AckInit == Init => AckIInv
<1> SUFFICES ASSUME Init PROVE AckIInv
  OBVIOUS
<1> USE AckConstants
<1>1. CASE First = 0
  <2>1. received = {} /\ acked = {} /\ collected = {} /\ net = {} /\ acks = {} /\ bitmap = {}
    BY <1>1, SMTT(60) DEF Init
  <2>0. (First > 0) = FALSE
    BY <1>1, SMTT(60)
  <2>2. sent = 0 /\ has_received = FALSE /\ largest_received = 0
    <3>1. sent = 0 /\ largest_received = 0
      BY <1>1, SMTT(60) DEF Init
    <3>2. has_received = (First > 0)
      BY DEF Init
    <3> QED
      BY <2>0, <3>1, <3>2
  <2>3. sent \in 0 .. MaxPackets /\ largest_received \in Number
    BY <2>2, SMTT(60) DEF Number
  <2>4. TypeOK
    BY <2>1, <2>2, <2>3 DEF TypeOK
  <2> QED
    BY <2>1, <2>2, <2>4 DEF AckIInv, NothingAckedAhead
<1>2. CASE First # 0
  <2>1. First \in BITMAP_SIZE .. MaxPackets /\ First \in Nat /\ First > 0
    BY <1>2, SMTT(60)
  <2>2. /\ received = 0 .. First - 1 /\ acked = received /\ collected = received
        /\ net = {} /\ acks = {} /\ bitmap = Offset
        /\ sent = First /\ has_received = TRUE /\ largest_received = num(First - 1)
    BY <2>1 DEF Init
  <2>3. First - 1 \in Int /\ num(First - 1) \in Number
    BY <2>1, DiffFacts, SMTT(60)
  <2>4. TypeOK
    BY <2>1, <2>2, <2>3, SMTT(60) DEF TypeOK
  <2>5. At(First - 1)
    <3>1. First - 1 \in received /\ \A m \in received : m <= First - 1
      BY <2>1, <2>2, SMTT(60)
    <3>2. Recent(First - 1)
      BY <2>1, <2>2, SMTT(60) DEF Recent
    <3>3. \A i \in Offset : First - 1 - i \in received
      BY <2>1, <2>2, SMTT(60) DEF Offset
    <3> QED
      BY <2>2, <3>1, <3>2, <3>3 DEF At
  <2>6. NothingAckedAhead
    BY <2>1, <2>2, SMTT(60) DEF NothingAckedAhead
  <2> QED
    BY <2>1, <2>2, <2>4, <2>5, <2>6, SMTT(60) DEF AckIInv
<1> QED
  BY <1>1, <1>2

\* A packet is sent only while everything else is recent.
LEMMA SendKeeps ==
    ASSUME AckIInv, Send
    PROVE  AckIInv'
<1> USE AckConstants
<1>1. TypeOK /\ NothingAckedAhead
  BY DEF AckIInv
<1>2. /\ sent' = sent + 1 /\ net' = net \cup {sent} /\ sent < MaxPackets /\ InLag
      /\ UNCHANGED <<acked, collected, acks, has_received, largest_received, bitmap, received>>
  BY DEF Send, receiver
<1>3. sent \in Nat /\ \A n \in net \cup received \cup acked : n \in Nat /\ n < sent
  BY <1>1, PacketFacts
<1>4. TypeOK'
  <2>1. sent' \in 0 .. MaxPackets /\ 0 .. sent - 1 \subseteq 0 .. sent' - 1 /\ sent \in 0 .. sent' - 1
    BY <1>2, <1>3, SMTT(60)
  <2> QED
    BY <1>1, <1>2, <2>1 DEF TypeOK
<1>5. ASSUME NEW n \in received, Recent(n), diff(num(sent), num(n)) <= MaxLag
      PROVE  sent + 1 - n <= MaxLag + 1
  <2>1. n \in Int /\ sent \in Int /\ sent - n \in Number
    BY <1>3, <1>5, SMTT(60) DEF Recent, Number
  <2>2. diff(num(sent), num(n)) = sent - n
    BY <2>1, DiffFacts
  <2> QED
    BY <1>5, <2>1, <2>2, SMTT(60) DEF Number
<1>6. \A n \in net' : Recent(n)'
  <2>1. \A n \in net : sent - n <= MaxLag
    BY <1>2 DEF InLag
  <2> QED
    BY <1>2, <1>3, <2>1, SMTT(60) DEF Recent
<1>7. IF has_received' THEN \E n \in received' : At(n)' ELSE received' = {}
  <2>1. CASE has_received
    <3>1. PICK n \in received : At(n)
      BY <2>1 DEF AckIInv
    <3>2. diff(num(sent), num(n)) <= MaxLag
      BY <1>2, <2>1, <3>1 DEF InLag, At
    <3>3. sent + 1 - n <= MaxLag + 1
      BY <1>5, <3>1, <3>2 DEF At
    <3>4. Recent(n)'
      <4>1. sent' = sent + 1
        BY <1>2
      <4> QED
        BY <1>3, <3>3, <4>1, SMTT(60) DEF Recent
    <3>5. At(n)'
      BY <1>2, <3>1, <3>4 DEF At
    <3> QED
      BY <1>2, <2>1, <3>5
  <2>2. CASE ~has_received
    BY <1>2, <2>2 DEF AckIInv
  <2> QED
    BY <2>1, <2>2
<1>8. \A a \in acks' : \E m \in received' : BuiltAt(a, m)'
  <2> SUFFICES ASSUME NEW a \in acks PROVE \E m \in received' : BuiltAt(a, m)'
    BY <1>2
  <2>1. PICK m \in received : BuiltAt(a, m)
    BY DEF AckIInv
  <2>2. diff(num(sent), num(m)) <= MaxLag
    BY <1>2, <2>1 DEF InLag, BuiltAt
  <2>3. sent + 1 - m <= MaxLag + 1
    BY <1>5, <2>1, <2>2 DEF BuiltAt
  <2>4. Recent(m)'
    <3>1. sent' = sent + 1
      BY <1>2
    <3> QED
      BY <1>3, <2>3, <3>1, SMTT(60) DEF Recent
  <2>5. BuiltAt(a, m)'
    BY <1>2, <2>1, <2>4 DEF BuiltAt
  <2> QED
    BY <1>2, <2>5
<1>9. NothingAckedAhead'
  BY <1>1, <1>2 DEF NothingAckedAhead
<1> QED
  BY <1>4, <1>6, <1>7, <1>8, <1>9 DEF AckIInv

\* An ack in flight stays one the receiver built while packets only arrive.
LEMMA BuiltStays ==
    ASSUME \A a \in acks : \E m \in received : BuiltAt(a, m),
           sent' = sent, received \subseteq received', acks' \subseteq acks
    PROVE  \A a \in acks' : \E m \in received' : BuiltAt(a, m)'
<1> TAKE a \in acks'
<1>1. PICK m \in received : BuiltAt(a, m)
  OBVIOUS
<1>2. m \in received' /\ BuiltAt(a, m)'
  BY <1>1 DEF BuiltAt, Recent
<1> QED
  BY <1>2

\* A packet that arrives sets its own bit and moves the window up to it when
\* it is the newest.
LEMMA ReceiveAt ==
    ASSUME AckIInv, NEW n \in net, Receive(n)
    PROVE  has_received' /\ \E k \in received' : At(k)'
<1> USE AckConstants
<1>1. TypeOK /\ Recent(n)
  BY DEF AckIInv
<1>2. /\ on_packet_received(num(n)) /\ received' = received \cup {n} /\ sent' = sent
      /\ has_received' = TRUE
  BY DEF Receive, on_packet_received, sender
<1>3. sent \in Nat /\ \A k \in net \cup received : k \in Nat /\ k < sent
  BY <1>1, PacketFacts
<1>4. \A k : Recent(k)' <=> Recent(k)
  BY <1>2 DEF Recent
<1>5. CASE ~has_received
  <2>1. received = {} /\ largest_received' = num(n) /\ bitmap' = {0}
    BY <1>2, <1>5 DEF AckIInv, on_packet_received
  <2>2. received' = {n} /\ n \in Nat
    BY <1>2, <1>3, <2>1
  <2>3. {0} = {i \in Offset : n - i \in {n}}
    BY <2>2, SMTT(60) DEF Offset
  <2>4. n \in received' /\ \A k \in received' : k <= n
    BY <2>2, SMTT(60)
  <2>5. At(n)'
    BY <1>1, <1>4, <2>1, <2>2, <2>3, <2>4 DEF At
  <2> QED
    BY <1>2, <2>4, <2>5
<1>6. CASE has_received
  <2>1. PICK m \in received : At(m)
    BY <1>6 DEF AckIInv
  <2>2. /\ m \in Nat /\ n \in Nat /\ m < sent /\ n < sent
        /\ \A k \in received : k \in Nat /\ k <= m
        /\ largest_received = num(m) /\ bitmap = {i \in Offset : m - i \in received} /\ Recent(m)
    BY <1>3, <2>1 DEF At
  <2>3. n - m < Half /\ m - n < Half
    BY <1>1, <2>2, PacketFacts, SMTT(60)
  <2>4. seq_gt(num(n), num(m)) <=> n > m
    BY <2>2, <2>3, SerialOrder, SMTT(60)
  <2>5. CASE n > m
    <3>1. diff(num(n), num(m)) = n - m
      BY <2>2, <2>3, <2>5, DiffFacts, SMTT(60) DEF Number
    <3>2. largest_received' = num(n) /\ bitmap' = shift_bitmap(bitmap, n - m) \cup {0}
      BY <1>2, <1>6, <2>2, <2>4, <2>5, <3>1 DEF on_packet_received
    <3>3. ASSUME NEW j
          PROVE  j \in shift_bitmap(bitmap, n - m) \cup {0} <=> j \in Offset /\ n - j \in received'
      <4>1. CASE j = 0
        BY <1>2, <2>2, <4>1, SMTT(60) DEF Offset
      <4>2. CASE j # 0 /\ j \in Offset /\ n - j \in received'
        <5>1. j \in Nat /\ j < BITMAP_SIZE /\ n - j \in received
          BY <1>2, <2>2, <4>2, SMTT(60) DEF Offset
        <5>2. n - j <= m /\ j - (n - m) \in Offset /\ m - (j - (n - m)) = n - j
          BY <2>2, <2>5, <5>1, SMTT(60) DEF Offset
        <5>3. j - (n - m) \in bitmap /\ (j - (n - m)) + (n - m) = j
          BY <2>2, <5>1, <5>2, SMTT(60)
        <5> QED
          BY <4>2, <5>3 DEF shift_bitmap
      <4>3. CASE j # 0 /\ j \in shift_bitmap(bitmap, n - m)
        <5>1. PICK i \in bitmap : j = i + (n - m)
          BY <4>3 DEF shift_bitmap
        <5>2. j \in Offset /\ i \in Offset /\ m - i \in received
          BY <2>2, <4>3, <5>1 DEF shift_bitmap
        <5>3. n - j = m - i
          BY <2>2, <5>1, <5>2, SMTT(60) DEF Offset
        <5> QED
          BY <1>2, <4>3, <5>2, <5>3
      <4> QED
        BY <4>1, <4>2, <4>3
    <3>4. bitmap' = {j \in Offset : n - j \in received'}
      BY <3>2, <3>3
    <3>5. n \in received' /\ \A k \in received' : k <= n
      BY <1>2, <2>2, <2>5, SMTT(60)
    <3>6. At(n)'
      BY <1>1, <1>4, <3>2, <3>4, <3>5 DEF At
    <3> QED
      BY <1>2, <3>5, <3>6
  <2>6. CASE ~(n > m)
    <3>1. diff(num(m), num(n)) = m - n
      BY <2>2, <2>3, <2>6, DiffFacts, SMTT(60) DEF Number
    <3>2. largest_received' = num(m) /\ bitmap' = bitmap \cup ({m - n} \cap Offset)
      BY <1>2, <1>6, <2>2, <2>4, <2>6, <3>1 DEF on_packet_received
    <3>3. \A i \in Offset : i = m - n <=> m - i = n
      BY <2>2, SMTT(60) DEF Offset
    <3>4. bitmap' = {i \in Offset : m - i \in received'}
      BY <1>2, <2>2, <3>2, <3>3
    <3>5. m \in received' /\ \A k \in received' : k <= m
      BY <1>2, <2>2, <2>6, SMTT(60)
    <3>6. At(m)'
      BY <1>4, <2>2, <3>2, <3>4, <3>5 DEF At
    <3> QED
      BY <1>2, <3>5, <3>6
  <2> QED
    BY <2>5, <2>6
<1> QED
  BY <1>5, <1>6

\* A packet arrives.
LEMMA ReceiveKeeps ==
    ASSUME AckIInv, NEW n \in net, Receive(n)
    PROVE  AckIInv'
<1> USE AckConstants
<1>1. TypeOK /\ NothingAckedAhead
  BY DEF AckIInv
<1>2. /\ received' = received \cup {n} /\ net' \subseteq net /\ has_received' = TRUE
      /\ UNCHANGED <<sent, acked, collected, acks>>
  BY DEF Receive, on_packet_received, sender
<1>3. has_received' /\ \E k \in received' : At(k)'
  BY ReceiveAt
<1>4. PICK k \in received' : At(k)'
  BY <1>3
<1>5. net \subseteq 0 .. sent - 1 /\ received' \subseteq 0 .. sent - 1
  BY <1>1, <1>2 DEF TypeOK
<1>6. largest_received' \in Number /\ bitmap' \in SUBSET Offset
  <2>1. k \in Int /\ largest_received' = num(k) /\ bitmap' = {i \in Offset : k - i \in received'}
    BY <1>4, <1>5, SMTT(60) DEF At
  <2> QED
    BY <2>1, DiffFacts
<1>7. TypeOK'
  BY <1>1, <1>2, <1>5, <1>6 DEF TypeOK
<1>8. \A a \in acks' : \E m \in received' : BuiltAt(a, m)'
  BY <1>2, BuiltStays DEF AckIInv
<1>9. \A m \in net' : Recent(m)'
  BY <1>2 DEF AckIInv, Recent
<1>10. NothingAckedAhead'
  BY <1>1, <1>2 DEF NothingAckedAhead
<1> QED
  BY <1>3, <1>7, <1>8, <1>9, <1>10 DEF AckIInv

\* Steps back from a packet are steps back from its number.
LEMMA BackFrom ==
    ASSUME NEW n \in Int, NEW r \in Int
    PROVE  diff(num(n), r) = num(n - r)
<1> USE AckConstants
<1> DEFINE M == SeqMod
           q == n \div M
           p == (n - r) \div M
           t == (n - r) % M
<1>0. M \in Nat \ {0} /\ M = SeqMod
  OBVIOUS
<1> HIDE DEF M
<1>1. num(n) = n % M /\ q \in Int /\ n = M * q + (n % M)
  BY <1>0, DivisionFacts DEF num
<1>2. n - r \in Int
  BY SMTT(60)
<1>3. t \in 0 .. M - 1 /\ p \in Int /\ n - r = M * p + t
  BY <1>0, <1>2, DivisionFacts
<1>4. num(n - r) = t
  BY <1>0 DEF num
<1>5. num(n) \in Int
  BY <1>0, <1>1, DivisionFacts, SMTT(60)
<1> HIDE DEF q, p, t
<1>6. num(n) - r = (p - q) * M + t
  BY <1>0, <1>1, <1>3, <1>5, SMTT(60)
<1>7. ((p - q) * M + t) % M = t
  <2>1. p - q \in Int
    BY <1>1, <1>3, SMTT(60)
  <2> QED
    BY <1>0, <1>3, <2>1, RemainderUnique
<1> QED
  BY <1>0, <1>4, <1>6, <1>7 DEF diff

\* An ack lists ranges of the window, all of them before the newest packet.
LEMMA RangesBuilt ==
    ASSUME TypeOK, NEW n \in received, At(n)
    PROVE  /\ RangeCount \in Nat /\ DOMAIN sack_ranges = 1 .. RangeCount
           /\ build_ack \in Ack
           /\ BuiltAt(build_ack, n)
<1> USE AckConstants
<1>1. n \in Int /\ largest_received = num(n) /\ bitmap \in SUBSET Offset /\ Recent(n)
  BY PacketFacts, SMTT(60) DEF At, TypeOK
<1>2. Cardinality(ClosedRuns) \in Nat
  BY <1>1, ClosedRunFacts
<1>3. RangeCount \in Nat /\ 1 .. RangeCount \subseteq 1 .. Cardinality(ClosedRuns)
  BY <1>2, SMTT(60) DEF RangeCount
<1>4. DOMAIN sack_ranges = 1 .. RangeCount
  BY DEF sack_ranges
<1>5. ASSUME NEW i \in 1 .. RangeCount
      PROVE  Run(i)[1] \in 1 .. BITMAP_SIZE - 1 /\ Run(i)[2] \in Int
  <2>1. Run(i) \in ClosedRuns
    BY <1>1, <1>3, RunFacts
  <2>2. Run(i)[1] \in Offset /\ Run(i)[2] \in Offset /\ 1 <= Run(i)[1]
    BY <2>1 DEF ClosedRuns
  <2> QED
    BY <2>2, SMTT(60) DEF Offset
<1>6. \A r \in Int : diff(largest_received, r) = num(n - r) /\ diff(largest_received, r) \in Number
  <2> TAKE r \in Int
  <2>1. n - r \in Int
    BY <1>1, SMTT(60)
  <2> QED
    BY <1>1, <2>1, BackFrom, DiffFacts
<1>7. \A i \in 1 .. RangeCount :
        /\ sack_ranges[i].end = diff(largest_received, Run(i)[1])
        /\ sack_ranges[i] \in SackRange
  <2> TAKE i \in 1 .. RangeCount
  <2>1. /\ diff(largest_received, BITMAP_SIZE - 1) \in Number
        /\ diff(largest_received, Run(i)[1]) \in Number
        /\ diff(largest_received, Run(i)[2]) \in Number
    BY <1>5, <1>6, SMTT(60)
  <2> QED
    BY <2>1 DEF sack_ranges, SackRange
<1>8. sack_ranges \in Seq(SackRange)
  BY <1>3, <1>4, <1>7, SMTT(60) DEF sack_ranges
<1>9. build_ack \in Ack
  BY <1>1, <1>8, DiffFacts DEF build_ack, Ack
<1>10. \A i \in DOMAIN sack_ranges : \E r \in 1 .. BITMAP_SIZE - 1 : sack_ranges[i].end = num(n - r)
  <2> TAKE i \in DOMAIN sack_ranges
  <2>1. Run(i)[1] \in 1 .. BITMAP_SIZE - 1 /\ Run(i)[1] \in Int
    BY <1>4, <1>5, SMTT(60)
  <2>2. sack_ranges[i].end = num(n - Run(i)[1])
    BY <1>4, <1>6, <1>7, <2>1
  <2> QED
    BY <2>1, <2>2
<1>11. BuiltAt(build_ack, n)
  BY <1>1, <1>10 DEF BuiltAt, build_ack
<1> QED
  BY <1>3, <1>4, <1>9, <1>11

\* The receiver builds an ack.
LEMMA AcknowledgeKeeps ==
    ASSUME AckIInv, Acknowledge
    PROVE  AckIInv'
<1>1. /\ has_received /\ acks' = {build_ack}
      /\ UNCHANGED <<sent, acked, collected, net, has_received, largest_received, bitmap, received>>
  BY DEF Acknowledge, sender, receiver
<1>2. TypeOK /\ NothingAckedAhead /\ \A n \in net : Recent(n)
  BY DEF AckIInv
<1>3. PICK n \in received : At(n)
  BY <1>1 DEF AckIInv
<1>4. build_ack \in Ack /\ BuiltAt(build_ack, n)
  BY <1>2, <1>3, RangesBuilt
<1>5. TypeOK'
  BY <1>1, <1>2, <1>4 DEF TypeOK
<1>6. At(n)' /\ NothingAckedAhead' /\ \A m \in net' : Recent(m)'
  BY <1>1, <1>2, <1>3 DEF At, Recent, NothingAckedAhead
<1>7. \A a \in acks' : \E m \in received' : BuiltAt(a, m)'
  <2> TAKE a \in acks'
  <2>1. a = build_ack
    BY <1>1
  <2>2. BuiltAt(a, n)
    BY <1>4, <2>1
  <2>3. BuiltAt(a, n)'
    BY <1>1, <2>2 DEF BuiltAt, Recent
  <2> QED
    BY <1>1, <2>3
<1> QED
  BY <1>1, <1>5, <1>6, <1>7 DEF AckIInv

\* An ack covers nothing newer than the packet it was built at: its largest
\* packet and its ranges are near enough for serial comparison.
LEMMA CoversNothingNewer ==
    ASSUME TypeOK, NEW a, NEW m \in received, BuiltAt(a, m), NEW n \in 0 .. sent - 1,
           seq_le(num(n), a.largest) \/ InRanges(num(n), a.ranges)
    PROVE  n <= m
<1> USE AckConstants
<1>1. sent \in Nat /\ m \in Nat /\ n \in Nat /\ m < sent /\ n < sent /\ Recent(m)
  BY PacketFacts, SMTT(60) DEF BuiltAt
<1>2. SUFFICES ASSUME n > m PROVE FALSE
  BY <1>1, SMTT(60)
<1>3. n - m <= MaxLag
  BY <1>1, SMTT(60) DEF Recent
<1>4. ~seq_le(num(n), num(m))
  <2>1. n - m < Half /\ m - n < Half
    BY <1>1, <1>2, <1>3, SMTT(60)
  <2> QED
    BY <1>1, <1>2, <2>1, SerialOrder, SMTT(60)
<1>5. PICK i \in DOMAIN a.ranges : seq_le(num(n), a.ranges[i].end)
  BY <1>4 DEF InRanges, BuiltAt
<1>6. PICK r \in 1 .. BITMAP_SIZE - 1 : a.ranges[i].end = num(m - r)
  BY DEF BuiltAt
<1>7. /\ m - r \in Int /\ n \in Int /\ n > m - r
      /\ n - (m - r) < Half /\ (m - r) - n < Half
  BY <1>1, <1>2, <1>3, SMTT(60)
<1>8. ~seq_le(num(n), num(m - r))
  BY <1>7, SerialOrder, SMTT(60)
<1> QED
  BY <1>5, <1>6, <1>8

\* An ack arrives at the sender.
LEMMA ReceiveAckKeeps ==
    ASSUME AckIInv, NEW a \in acks, ReceiveAck(a)
    PROVE  AckIInv'
<1>1. /\ on_ack_received(a) /\ acks' \subseteq acks
      /\ UNCHANGED <<sent, collected, net, has_received, largest_received, bitmap, received>>
  BY DEF ReceiveAck, receiver
<1>2. TypeOK /\ NothingAckedAhead
  BY DEF AckIInv
<1>3. PICK m \in received : BuiltAt(a, m)
  BY DEF AckIInv
<1>4. \A n \in acked' : n \in acked \/ (n \in 0 .. sent - 1 /\ n <= m)
  BY <1>1, <1>2, <1>3, CoversNothingNewer DEF on_ack_received, Listed
<1>5. acked \subseteq acked'
  BY <1>1 DEF on_ack_received
<1>6. TypeOK'
  BY <1>1, <1>2, <1>4, <1>5 DEF TypeOK
<1>7. NothingAckedAhead'
  BY <1>1, <1>2, <1>4 DEF NothingAckedAhead
<1>8. \A b \in acks' : \E k \in received' : BuiltAt(b, k)'
  BY <1>1, BuiltStays DEF AckIInv
<1>9. /\ IF has_received' THEN \E n \in received' : At(n)' ELSE received' = {}
      /\ \A n \in net' : Recent(n)'
  BY <1>1 DEF AckIInv, At, Recent
<1> QED
  BY <1>6, <1>7, <1>8, <1>9 DEF AckIInv

\* A packet or an ack is lost, or the sender drops what is acked.
LEMMA OtherKeeps ==
    ASSUME AckIInv,
           \/ \E n \in net : Lose(n)
           \/ \E a \in acks : LoseAck(a)
           \/ \E n \in Listed : gc(n)
    PROVE  AckIInv'
<1>1. /\ net' \subseteq net /\ acks' \subseteq acks /\ collected' \in SUBSET acked
      /\ UNCHANGED <<sent, acked, has_received, largest_received, bitmap, received>>
  <2>1. TypeOK
    BY DEF AckIInv
  <2>2. CASE \E n \in net : Lose(n)
    BY <2>1, <2>2 DEF Lose, sender, receiver, TypeOK
  <2>3. CASE \E a \in acks : LoseAck(a)
    BY <2>1, <2>3 DEF LoseAck, sender, receiver, TypeOK
  <2>4. CASE \E n \in Listed : gc(n)
    <3>1. PICK n \in Listed : gc(n)
      BY <2>4
    <3>2. \A k \in collected' : k \in collected \/
            (k \in Listed /\ \A m \in Listed : m <= k => m \in acked)
      BY <3>1 DEF gc
    <3>3. \A k \in Listed : k <= k
      BY <2>1, PacketFacts, SMTT(60) DEF Listed
    <3>4. \A k \in collected' : k \in acked
      BY <2>1, <3>2, <3>3 DEF TypeOK
    <3> QED
      BY <3>1, <3>4 DEF gc, receiver
  <2> QED
    BY <2>2, <2>3, <2>4
<1>2. TypeOK'
  BY <1>1 DEF AckIInv, TypeOK
<1>3. \A a \in acks' : \E m \in received' : BuiltAt(a, m)'
  BY <1>1, BuiltStays DEF AckIInv
<1>4. /\ IF has_received' THEN \E n \in received' : At(n)' ELSE received' = {}
      /\ \A n \in net' : Recent(n)'
      /\ NothingAckedAhead'
  BY <1>1 DEF AckIInv, At, Recent, NothingAckedAhead
<1> QED
  BY <1>2, <1>3, <1>4 DEF AckIInv

\* The invariant holds in every reachable state.
THEOREM AckInduction == Spec => []AckIInv
<1>1. Init => AckIInv
  BY AckInit
<1>2. AckIInv /\ [Next]_vars => AckIInv'
  <2> SUFFICES ASSUME AckIInv, [Next]_vars PROVE AckIInv'
    OBVIOUS
  <2>1. CASE Send
    BY <2>1, SendKeeps
  <2>2. CASE Acknowledge
    BY <2>2, AcknowledgeKeeps
  <2>3. CASE \E n \in net : Receive(n)
    BY <2>3, ReceiveKeeps
  <2>4. CASE \E a \in acks : ReceiveAck(a)
    BY <2>4, ReceiveAckKeeps
  <2>5. CASE \/ \E n \in net : Lose(n)
             \/ \E a \in acks : LoseAck(a)
             \/ \E n \in Listed : gc(n)
    BY <2>5, OtherKeeps
  <2>6. CASE UNCHANGED vars
    BY <2>6 DEF vars, sender, receiver, AckIInv, TypeOK, At, BuiltAt, Recent, NothingAckedAhead
  <2> QED
    BY <2>1, <2>2, <2>3, <2>4, <2>5, <2>6 DEF Next
<1> QED
  BY <1>1, <1>2, PTL DEF Spec

\* The packet the receiver is at is the newest.
LEMMA NewestIs ==
    ASSUME TypeOK, NEW n \in received, At(n)
    PROVE  Newest = n
<1> DEFINE Top(k) == \A m \in received : m <= k
<1>1. Top(n)
  BY DEF At
<1>2. Newest = CHOOSE k \in received : Top(k)
  BY DEF Newest
<1>3. \A k \in received : Top(k) => k = n
  BY <1>1, PacketFacts, SMTT(60)
<1> HIDE DEF Top
<1>4. Newest \in received /\ Top(Newest)
  BY <1>1, <1>2
<1> QED
  BY <1>3, <1>4

\* The window is exact and nothing is acked ahead of it.
LEMMA AckIInvImplies == AckIInv => AckInv
<1> SUFFICES ASSUME AckIInv PROVE AckInv
  OBVIOUS
<1> USE AckConstants
<1>1. TypeOK /\ NothingAckedAhead
  BY DEF AckIInv
<1>2. BitmapExact
  <2> SUFFICES ASSUME has_received
               PROVE  /\ largest_received = num(Newest)
                      /\ bitmap = {i \in Offset : Newest - i \in received}
    BY DEF BitmapExact
  <2>1. PICK n \in received : At(n)
    BY DEF AckIInv
  <2>2. Newest = n
    BY <1>1, <2>1, NewestIs
  <2> QED
    BY <2>1, <2>2 DEF At
<1>3. DuplicatesDetected
  <2> SUFFICES ASSUME has_received, NEW n \in net, Newest - n < BITMAP_SIZE
               PROVE  is_duplicate(num(n)) <=> n \in received
    BY DEF DuplicatesDetected
  <2>1. PICK m \in received : At(m)
    BY DEF AckIInv
  <2>2. Newest = m
    BY <1>1, <2>1, NewestIs
  <2>3. /\ m \in Nat /\ n \in Nat /\ m < sent /\ n < sent /\ sent \in Nat
        /\ Recent(m) /\ Recent(n)
    BY <1>1, <2>1, PacketFacts DEF At, AckIInv
  <2>4. n - m < Half /\ m - n < Half
    BY <1>1, <2>3, PacketFacts, SMTT(60)
  <2>5. /\ largest_received = num(m) /\ bitmap = {i \in Offset : m - i \in received}
        /\ \A k \in received : k <= m
    BY <2>1 DEF At
  <2>6. seq_gt(num(n), largest_received) <=> n > m
    BY <2>3, <2>4, <2>5, SerialOrder, SMTT(60)
  <2>7. CASE n > m
    BY <2>3, <2>5, <2>6, <2>7, SMTT(60) DEF is_duplicate, get_bit
  <2>8. CASE ~(n > m)
    <3>1. diff(largest_received, num(n)) = m - n /\ m - n \in Offset /\ m - (m - n) = n
      <4>1. m - n \in Number /\ m - n \in Offset /\ m - (m - n) = n
        BY <2>2, <2>3, <2>4, <2>8, SMTT(60) DEF Number, Offset
      <4> QED
        BY <2>3, <2>5, <4>1, DiffFacts, SMTT(60)
    <3> QED
      BY <2>5, <2>6, <2>8, <3>1 DEF is_duplicate, get_bit
  <2> QED
    BY <2>7, <2>8
<1> QED
  BY <1>1, <1>2, <1>3 DEF AckInv

\* Across losses, repetitions, reordering and the wrap of packet numbers, for
\* every window size and modulus: the receive bitmap is exact, a packet in the
\* window is a duplicate exactly when it arrived before, and the sender takes
\* nothing for acknowledged that is newer than all the receiver has seen.
THEOREM AckCorrect == Spec => []AckInv
  BY AckInduction, AckIInvImplies, PTL

\* A set bit of the window belongs to a closed run, unless the run it belongs
\* to reaches the end of the window.
LEMMA RunAround ==
    ASSUME bitmap \in SUBSET Offset, NEW o \in bitmap, o >= 1,
           BITMAP_SIZE - 1 \notin bitmap \ {0}
    PROVE  \E r \in ClosedRuns : r[1] <= o /\ o <= r[2]
<1> USE AckConstants
<1>1. o \in Nat /\ o \in Offset /\ BITMAP_SIZE \in Nat
  BY SMTT(60) DEF Offset
<1> DEFINE Up == {h \in o .. BITMAP_SIZE - 1 : h + 1 \notin bitmap}
           Down == {d \in 0 .. o - 1 : o - d - 1 \notin bitmap \ {0}}
<1>2. PICK hi \in Up : \A h \in Up : hi <= h
  <2>1. BITMAP_SIZE - 1 \in Up
    BY <1>1, SMTT(60) DEF Offset
  <2>2. Up \in SUBSET Nat
    BY <1>1, SMTT(60)
  <2> QED
    BY <2>1, <2>2, LeastNatural
<1>3. PICK d \in Down : \A e \in Down : d <= e
  <2>1. o - 1 \in Down
    BY <1>1, SMTT(60)
  <2>2. Down \in SUBSET Nat
    BY SMTT(60)
  <2> QED
    BY <2>1, <2>2, LeastNatural
<1>4. hi \in o .. BITMAP_SIZE - 1 /\ hi + 1 \notin bitmap
  BY <1>2
<1>5. d \in 0 .. o - 1 /\ (o - d) - 1 \notin bitmap \ {0}
  BY <1>3
<1>6. ASSUME NEW j \in o - d .. hi
      PROVE  j \in bitmap
  <2>1. CASE j > o
    <3>1. j - 1 \in o .. BITMAP_SIZE - 1 /\ ~(hi <= j - 1) /\ (j - 1) + 1 = j
      BY <1>1, <1>4, <2>1, SMTT(60)
    <3> QED
      BY <1>2, <3>1
  <2>2. CASE j = o
    BY <2>2
  <2>3. CASE j < o
    <3>1. o - j - 1 \in 0 .. o - 1 /\ ~(d <= o - j - 1) /\ o - (o - j - 1) - 1 = j
      BY <1>1, <1>5, <2>3, SMTT(60)
    <3> QED
      BY <1>3, <3>1
  <2> QED
    BY <1>1, <1>4, <1>5, <2>1, <2>2, <2>3, SMTT(60)
<1>7. hi \in bitmap /\ hi \in Int
  BY <1>1, <1>4, <1>5, <1>6, SMTT(60)
<1>8. hi < BITMAP_SIZE - 1
  BY <1>1, <1>4, <1>7, SMTT(60)
<1> DEFINE r == <<o - d, hi>>
<1>9. r \in Offset \X Offset
  BY <1>1, <1>4, <1>5, SMTT(60) DEF Offset
<1>10. 1 <= o - d /\ o - d <= hi /\ o - d .. hi \subseteq bitmap
  BY <1>1, <1>4, <1>5, <1>6, SMTT(60)
<1>11. r \in ClosedRuns
  BY <1>4, <1>5, <1>8, <1>9, <1>10 DEF ClosedRuns
<1> QED
  BY <1>1, <1>4, <1>5, <1>11, SMTT(60)

\* The ranges of an ack are the closed runs, counted back from the newest
\* packet.
LEMMA RangesAre ==
    ASSUME TypeOK, NEW n \in received, At(n), ~OpenRun, NEW k \in 0 .. sent - 1,
           k < n, n - k < BITMAP_SIZE, NEW i \in 1 .. RangeCount
    PROVE  /\ Run(i) \in ClosedRuns
           /\ (seq_ge(num(k), sack_ranges[i].start) /\ seq_le(num(k), sack_ranges[i].end))
                <=> (Run(i)[1] <= n - k /\ n - k <= Run(i)[2])
<1> USE AckConstants
<1>1. /\ n \in Int /\ k \in Int /\ largest_received = num(n) /\ bitmap \in SUBSET Offset
      /\ n <= sent - 1 /\ sent \in Nat
  BY PacketFacts, SMTT(60) DEF At, TypeOK
<1>2. Cardinality(ClosedRuns) \in Nat
  BY <1>1, ClosedRunFacts
<1>3. i \in 1 .. Cardinality(ClosedRuns)
  BY <1>2, SMTT(60) DEF RangeCount
<1>4. Run(i) \in ClosedRuns
  BY <1>1, <1>3, RunFacts
<1> DEFINE a == Run(i)[1]
           b == Run(i)[2]
<1>5. a \in 1 .. BITMAP_SIZE - 1 /\ b \in 1 .. BITMAP_SIZE - 1
  BY <1>4, SMTT(60) DEF ClosedRuns, Offset
<1>6. sack_ranges[i].start = diff(largest_received, b) /\ sack_ranges[i].end = diff(largest_received, a)
  BY DEF sack_ranges
<1> HIDE DEF a, b
<1>7. sack_ranges[i].start = num(n - b) /\ sack_ranges[i].end = num(n - a)
  <2>1. a \in Int /\ b \in Int
    BY <1>5, SMTT(60)
  <2> QED
    BY <1>1, <1>6, <2>1, BackFrom
<1>8. /\ n - a \in Int /\ n - b \in Int
      /\ k - (n - b) < Half /\ (n - b) - k < Half
      /\ k - (n - a) < Half /\ (n - a) - k < Half
  BY <1>1, <1>5, SMTT(60)
<1>9. seq_ge(num(k), num(n - b)) <=> k >= n - b
  BY <1>1, <1>8, SerialOrder
<1>10. seq_le(num(k), num(n - a)) <=> k <= n - a
  BY <1>1, <1>8, SerialOrder
<1>11. (k >= n - b <=> n - k <= b) /\ (k <= n - a <=> a <= n - k)
  BY <1>1, <1>5, SMTT(60)
<1> QED
  BY <1>4, <1>7, <1>9, <1>10, <1>11 DEF a, b

\* The ranges of an ack hold what was received, and nothing else.
LEMMA AckIInvSack == AckIInv => SackExact
<1> SUFFICES ASSUME AckIInv, has_received, ~OpenRun, NEW k \in 0 .. sent - 1,
                    k < Newest, Newest - k < BITMAP_SIZE
             PROVE  /\ InRanges(num(k), sack_ranges) => k \in received
                    /\ k \in received /\ RangeCount < MaxRanges => InRanges(num(k), sack_ranges)
  BY DEF SackExact
<1> USE AckConstants
<1>1. TypeOK
  BY DEF AckIInv
<1>2. PICK n \in received : At(n)
  BY DEF AckIInv
<1>3. Newest = n
  BY <1>1, <1>2, NewestIs
<1>4. /\ n \in Nat /\ k \in Nat /\ k < n /\ n - k < BITMAP_SIZE
      /\ bitmap \in SUBSET Offset /\ bitmap = {i \in Offset : n - i \in received}
  BY <1>1, <1>2, <1>3, PacketFacts, SMTT(60) DEF At, TypeOK
<1>5. n - k \in Offset /\ n - k >= 1 /\ n - (n - k) = k
  BY <1>4, SMTT(60) DEF Offset
<1>6. k \in received <=> n - k \in bitmap
  BY <1>4, <1>5
<1>7. DOMAIN sack_ranges = 1 .. RangeCount
  BY <1>1, <1>2, RangesBuilt
<1>8. ASSUME InRanges(num(k), sack_ranges)
      PROVE  k \in received
  <2>1. PICK i \in 1 .. RangeCount :
          seq_ge(num(k), sack_ranges[i].start) /\ seq_le(num(k), sack_ranges[i].end)
    BY <1>7, <1>8 DEF InRanges
  <2>2. Run(i) \in ClosedRuns /\ Run(i)[1] <= n - k /\ n - k <= Run(i)[2]
    BY <1>1, <1>2, <1>4, <2>1, RangesAre
  <2>3. Run(i)[1] .. Run(i)[2] \subseteq bitmap /\ Run(i)[1] \in Int /\ Run(i)[2] \in Int
    BY <2>2, SMTT(60) DEF ClosedRuns, Offset
  <2> QED
    BY <1>4, <1>6, <2>2, <2>3, SMTT(60)
<1>9. ASSUME k \in received, RangeCount < MaxRanges
      PROVE  InRanges(num(k), sack_ranges)
  <2>1. Cardinality(ClosedRuns) \in Nat
    BY <1>4, ClosedRunFacts
  <2>2. RangeCount = Cardinality(ClosedRuns) /\ Cardinality(ClosedRuns) < MaxRanges
    BY <1>9, <2>1, SMTT(60) DEF RangeCount
  <2>3. BITMAP_SIZE - 1 \notin bitmap \ {0}
    BY <2>2 DEF OpenRun
  <2>4. n - k \in bitmap
    BY <1>6, <1>9
  <2>5. PICK r \in ClosedRuns : r[1] <= n - k /\ n - k <= r[2]
    BY <1>4, <1>5, <2>3, <2>4, RunAround
  <2>6. PICK i \in 1 .. RangeCount : Run(i) = r
    BY <1>4, <2>2, RunsListed
  <2>7. seq_ge(num(k), sack_ranges[i].start) /\ seq_le(num(k), sack_ranges[i].end)
    BY <1>1, <1>2, <1>4, <2>5, <2>6, RangesAre
  <2> QED
    BY <1>7, <2>7 DEF InRanges
<1> QED
  BY <1>8, <1>9

\* While the oldest run of the window is closed, the ranges of an ack hold
\* exactly the received packets of the window below the largest, for every
\* window size, number of ranges and modulus.
THEOREM SackCorrect == Spec => []SackExact
  BY AckInduction, AckIInvSack, PTL

-----------------------------------------------------------------------------
(***************************************************************************)
(* Congestion: what is in flight is the total of what is unacknowledged,   *)
(* and a loss is answered once per round trip.                             *)
(***************************************************************************)

-----------------------------------------------------------------------------
(* Sums of packet sizes.                                                   *)

\* u lists sizes of packets.
Sizes(u) == DOMAIN u \subseteq 1 .. MaxSent /\ \A n \in DOMAIN u : u[n] \in Nat

\* f has the sums of the sizes in u up to every packet.
SumsOf(u, f) ==
    /\ f \in [0 .. MaxSent -> Nat] /\ f[0] = 0
    /\ \A n \in 1 .. MaxSent : f[n] = f[n - 1] + SizeAt(u, n)

\* There are such sums, up to any packet.
LEMMA SumsExist ==
    ASSUME NEW u, Sizes(u)
    PROVE  \E f : SumsOf(u, f)
<1>0. MaxSent \in Nat
  BY CongestionAssumption
<1>1. \A n \in Nat : SizeAt(u, n) \in Nat
  BY DEF Sizes, SizeAt
<1> DEFINE Good(k, f) == /\ f \in [0 .. k -> Nat] /\ f[0] = 0
                         /\ \A n \in 1 .. k : f[n] = f[n - 1] + SizeAt(u, n)
           Bad == {k \in Nat : ~ \E f : Good(k, f)}
<1>2. Bad = {}
  <2> SUFFICES ASSUME Bad # {} PROVE FALSE
    OBVIOUS
  <2>1. Bad \in SUBSET Nat
    OBVIOUS
  <2> HIDE DEF Bad
  <2>2. PICK k \in Bad : \A j \in Bad : k <= j
    BY <2>1, LeastNatural
  <2>3. k \in Nat /\ ~ \E f : Good(k, f)
    BY DEF Bad
  <2>4. k # 0
    <3>1. Good(0, [n \in 0 .. 0 |-> 0])
      BY SMTT(60)
    <3> HIDE DEF Good
    <3> QED
      BY <2>3, <3>1
  <2>5. k - 1 \in Nat /\ ~(k <= k - 1)
    BY <2>3, <2>4, SMTT(60)
  <2>6. PICK f : Good(k - 1, f)
    <3>1. k - 1 \notin Bad
      BY <2>2, <2>5
    <3> HIDE DEF Good
    <3> QED
      BY <2>5, <3>1 DEF Bad
  <2> DEFINE g == [n \in 0 .. k |-> IF n = k THEN f[k - 1] + SizeAt(u, k) ELSE f[n]]
  <2>7. g \in [0 .. k -> Nat] /\ g[0] = 0
    <3>1. SizeAt(u, k) \in Nat
      BY <1>1, <2>3
    <3>2. f[k - 1] \in Nat /\ f[0] = 0 /\ \A n \in 0 .. k : n # k => f[n] \in Nat
      BY <2>3, <2>5, <2>6, SMTT(60)
    <3> HIDE DEF Good
    <3> QED
      BY <2>3, <2>4, <3>1, <3>2, SMTT(60)
  <2>8. ASSUME NEW n \in 1 .. k PROVE g[n] = g[n - 1] + SizeAt(u, n)
    <3>1. CASE n = k
      BY <2>3, <2>5, <3>1, SMTT(60)
    <3>2. CASE n # k
      <4>1. n \in 1 .. k - 1 /\ n \in 0 .. k /\ n - 1 \in 0 .. k /\ n - 1 # k
        BY <2>3, <3>2, SMTT(60)
      <4>2. f[n] = f[n - 1] + SizeAt(u, n)
        BY <2>6, <4>1
      <4> QED
        BY <3>2, <4>1, <4>2
    <3> QED
      BY <3>1, <3>2
  <2> HIDE DEF g
  <2>9. Good(k, g)
    BY <2>7, <2>8
  <2> HIDE DEF Good
  <2> QED
    BY <2>3, <2>9
<1> HIDE DEF Good
<1>3. \E f : Good(MaxSent, f)
  BY <1>0, <1>2
<1> QED
  BY <1>3 DEF Good, SumsOf

\* Two lists that differ in one packet have sums that differ by as much.
LEMMA SumsDiffer ==
    ASSUME NEW u, NEW v, Sizes(u), Sizes(v), NEW f, NEW g, SumsOf(u, f), SumsOf(v, g),
           NEW p \in 1 .. MaxSent, NEW d \in Int,
           SizeAt(v, p) = SizeAt(u, p) + d,
           \A n \in 1 .. MaxSent : n # p => SizeAt(v, n) = SizeAt(u, n)
    PROVE  g[MaxSent] = f[MaxSent] + d
<1>0. MaxSent \in Nat
  BY CongestionAssumption
<1>1. \A n \in Nat : SizeAt(u, n) \in Nat /\ SizeAt(v, n) \in Nat
  BY DEF Sizes, SizeAt
<1> DEFINE Right(k) == g[k] = f[k] + (IF p <= k THEN d ELSE 0)
           Bad == {k \in 0 .. MaxSent : ~Right(k)}
<1>2. Bad = {}
  <2> SUFFICES ASSUME Bad # {} PROVE FALSE
    OBVIOUS
  <2>1. Bad \in SUBSET Nat
    BY SMTT(60)
  <2> HIDE DEF Bad
  <2>2. PICK k \in Bad : \A j \in Bad : k <= j
    BY <2>1, LeastNatural
  <2>3. k \in 0 .. MaxSent /\ ~Right(k)
    BY DEF Bad
  <2>4. k # 0
    BY <2>3, SMTT(60) DEF SumsOf
  <2>5. k \in 1 .. MaxSent /\ k - 1 \in 0 .. MaxSent /\ ~(k <= k - 1)
    BY <1>0, <2>3, <2>4, SMTT(60)
  <2>6. Right(k - 1)
    <3>1. k - 1 \notin Bad
      BY <2>2, <2>5
    <3> HIDE DEF Right
    <3> QED
      BY <2>5, <3>1 DEF Bad
  <2>7. /\ f[k] = f[k - 1] + SizeAt(u, k) /\ g[k] = g[k - 1] + SizeAt(v, k)
        /\ f[k - 1] \in Nat /\ g[k - 1] \in Nat /\ SizeAt(u, k) \in Nat /\ SizeAt(v, k) \in Nat
    <3>1. SizeAt(u, k) \in Nat /\ SizeAt(v, k) \in Nat
      BY <1>1, <2>3, SMTT(60)
    <3> QED
      BY <2>5, <3>1 DEF SumsOf
  <2>8. CASE k = p
    <3>1. ~(p <= k - 1) /\ p <= k
      BY <2>5, <2>8, SMTT(60)
    <3> QED
      BY <2>3, <2>6, <2>7, <2>8, <3>1, SMTT(60)
  <2>9. CASE k # p
    <3>1. (p <= k - 1 <=> p <= k) /\ SizeAt(v, k) = SizeAt(u, k)
      BY <2>5, <2>9, SMTT(60)
    <3> QED
      BY <2>3, <2>6, <2>7, <3>1, SMTT(60)
  <2> QED
    BY <2>8, <2>9
<1>3. Right(MaxSent)
  BY <1>0, <1>2, SMTT(60)
<1> QED
  BY <1>0, <1>3, SMTT(60)

\* Total is the last of the sums.
LEMMA TotalIs ==
    ASSUME NEW u, Sizes(u)
    PROVE  \E f : SumsOf(u, f) /\ Total(u) = f[MaxSent] /\ Total(u) \in Nat
<1>0. MaxSent \in Nat
  BY CongestionAssumption
<1> DEFINE Step(f) == [n \in 0 .. MaxSent |-> IF n = 0 THEN 0 ELSE f[n - 1] + SizeAt(u, n)]
           up == CHOOSE f : f = Step(f)
<1>1. PICK h : SumsOf(u, h)
  BY SumsExist
<1>2. h = Step(h)
  <2>1. h = [n \in 0 .. MaxSent |-> h[n]]
    BY <1>1 DEF SumsOf
  <2>2. \A n \in 0 .. MaxSent : h[n] = IF n = 0 THEN 0 ELSE h[n - 1] + SizeAt(u, n)
    BY <1>0, <1>1, SMTT(60) DEF SumsOf
  <2> QED
    BY <2>1, <2>2
<1>3. up = Step(up)
  <2> HIDE DEF Step
  <2> QED
    BY <1>2
<1>4. Total(u) = up[MaxSent]
  BY DEF Total
<1> HIDE DEF up
<1>5. DOMAIN up = 0 .. MaxSent /\ up[0] = 0 /\ \A n \in 1 .. MaxSent : up[n] = up[n - 1] + SizeAt(u, n)
  BY <1>0, <1>3, SMTT(60)
<1>6. up \in [0 .. MaxSent -> Nat]
  <2>1. \A n \in Nat : SizeAt(u, n) \in Nat
    BY DEF Sizes, SizeAt
  <2> DEFINE Bad == {k \in 0 .. MaxSent : up[k] \notin Nat}
  <2>2. Bad = {}
    <3> SUFFICES ASSUME Bad # {} PROVE FALSE
      OBVIOUS
    <3>1. Bad \in SUBSET Nat
      BY SMTT(60)
    <3> HIDE DEF Bad
    <3>2. PICK k \in Bad : \A j \in Bad : k <= j
      BY <3>1, LeastNatural
    <3>3. k \in 0 .. MaxSent /\ up[k] \notin Nat
      BY DEF Bad
    <3>4. k \in 1 .. MaxSent /\ k - 1 \in 0 .. MaxSent /\ ~(k <= k - 1)
      BY <1>0, <1>5, <3>3, SMTT(60)
    <3>5. up[k - 1] \in Nat
      <4>1. k - 1 \notin Bad
        BY <3>2, <3>4
      <4> QED
        BY <3>4, <4>1 DEF Bad
    <3>6. SizeAt(u, k) \in Nat
      BY <2>1, <3>3, SMTT(60)
    <3> QED
      BY <1>5, <3>3, <3>4, <3>5, <3>6, SMTT(60)
  <2>3. up = [n \in 0 .. MaxSent |-> up[n]]
    BY <1>3
  <2> QED
    BY <2>2, <2>3
<1>7. SumsOf(u, up)
  BY <1>5, <1>6 DEF SumsOf
<1> QED
  BY <1>0, <1>4, <1>6, <1>7, SMTT(60)

\* How the total changes with a packet.
LEMMA TotalFacts ==
    ASSUME NEW u, Sizes(u)
    PROVE  /\ Total(u) \in Nat
           /\ DOMAIN u = {} => Total(u) = 0
           /\ \A n \in DOMAIN u : Total(Drop(u, n)) = Total(u) - u[n]
           /\ \A n \in 1 .. MaxSent, s \in Nat : n \notin DOMAIN u =>
                Total([m \in DOMAIN u \cup {n} |-> IF m = n THEN s ELSE u[m]]) = Total(u) + s
<1>0. MaxSent \in Nat
  BY CongestionAssumption
<1>1. PICK f : SumsOf(u, f) /\ Total(u) = f[MaxSent] /\ Total(u) \in Nat
  BY TotalIs
<1>2. ASSUME NEW v, Sizes(v), NEW p \in 1 .. MaxSent, NEW d \in Int,
             SizeAt(v, p) = SizeAt(u, p) + d,
             \A n \in 1 .. MaxSent : n # p => SizeAt(v, n) = SizeAt(u, n)
      PROVE  Total(v) = Total(u) + d
  <2>1. PICK g : SumsOf(v, g) /\ Total(v) = g[MaxSent]
    BY <1>2, TotalIs
  <2>2. g[MaxSent] = f[MaxSent] + d
    BY <1>1, <1>2, <2>1, SumsDiffer, SMTT(60)
  <2> QED
    BY <1>1, <2>1, <2>2
<1>3. ASSUME DOMAIN u = {} PROVE Total(u) = 0
  <2> DEFINE Bad == {k \in 0 .. MaxSent : f[k] # 0}
  <2>2. Bad = {}
    <3> SUFFICES ASSUME Bad # {} PROVE FALSE
      OBVIOUS
    <3>1. Bad \in SUBSET Nat
      BY SMTT(60)
    <3> HIDE DEF Bad
    <3>2. PICK k \in Bad : \A j \in Bad : k <= j
      BY <3>1, LeastNatural
    <3>3. k \in 0 .. MaxSent /\ f[k] # 0
      BY DEF Bad
    <3>4. k \in 1 .. MaxSent /\ k - 1 \in 0 .. MaxSent /\ ~(k <= k - 1)
      BY <1>0, <1>1, <3>3, SMTT(60) DEF SumsOf
    <3>5. f[k - 1] = 0
      <4>1. k - 1 \notin Bad
        BY <3>2, <3>4
      <4> QED
        BY <3>4, <4>1 DEF Bad
    <3>6. SizeAt(u, k) = 0
      BY <1>3 DEF SizeAt
    <3> QED
      BY <1>1, <3>3, <3>4, <3>5, <3>6, SMTT(60) DEF SumsOf
  <2> QED
    BY <1>0, <1>1, <2>2, SMTT(60)
<1>4. ASSUME NEW n \in DOMAIN u PROVE Total(Drop(u, n)) = Total(u) - u[n]
  <2> DEFINE v == Drop(u, n)
  <2>1. u[n] \in Nat /\ n \in 1 .. MaxSent
    BY DEF Sizes
  <2>2. Sizes(v)
    BY DEF Sizes, Drop
  <2>3. SizeAt(v, n) = SizeAt(u, n) + (-u[n])
    BY <2>1, SMTT(60) DEF SizeAt, Drop
  <2>4. \A m \in 1 .. MaxSent : m # n => SizeAt(v, m) = SizeAt(u, m)
    BY DEF SizeAt, Drop
  <2> HIDE DEF v
  <2>5. Total(v) = Total(u) + (-u[n])
    BY <1>2, <2>1, <2>2, <2>3, <2>4, SMTT(60)
  <2> QED
    BY <1>1, <2>1, <2>5 DEF v
<1>5. ASSUME NEW n \in 1 .. MaxSent, NEW s \in Nat, n \notin DOMAIN u
      PROVE  Total([m \in DOMAIN u \cup {n} |-> IF m = n THEN s ELSE u[m]]) = Total(u) + s
  <2> DEFINE v == [m \in DOMAIN u \cup {n} |-> IF m = n THEN s ELSE u[m]]
  <2>2. Sizes(v)
    BY DEF Sizes
  <2>3. SizeAt(v, n) = SizeAt(u, n) + s
    BY <1>5, SMTT(60) DEF SizeAt
  <2>4. \A m \in 1 .. MaxSent : m # n => SizeAt(v, m) = SizeAt(u, m)
    BY DEF SizeAt
  <2> HIDE DEF v
  <2>5. Total(v) = Total(u) + s
    BY <1>2, <2>2, <2>3, <2>4, SMTT(60)
  <2> QED
    BY <2>5 DEF v
<1> QED
  BY <1>1, <1>3, <1>4, <1>5

-----------------------------------------------------------------------------
(* The inductive invariant.                                                *)

\* Packets that are out are told apart by their numbers; a rising slope needs
\* an ack; a cut holds while the controller drains.
CongestionIInv ==
    /\ CongestionTypeOK /\ InFlightAccounted
    /\ packets \in 0 .. MaxSent /\ late_acks \in Nat /\ backed_off \in BOOLEAN
    /\ DOMAIN unacked \subseteq 1 .. packets /\ DOMAIN given_up \subseteq 1 .. packets
    /\ DOMAIN unacked \cap DOMAIN given_up = {}
    /\ overuse + Cardinality(DOMAIN unacked \cup DOMAIN given_up) <= packets
    /\ cwnd >= MIN_CWND
    /\ backed_off => phase = "DRAIN"

Phases == {"SLOW_START", "STEADY", "DRAIN"}
Usages == {"NORMAL", "OVERUSE", "UNDERUSE"}

\* A rate that is decreased does not grow, and the window keeps its floor.
LEMMA RateFacts ==
    /\ \A r \in Nat : Decrease(r) \in Nat /\ Decrease(r) <= r
    /\ \A r, rtt \in Nat : update_cwnd_from_rate(r, rtt) \in Nat /\ update_cwnd_from_rate(r, rtt) >= MIN_CWND
<1>1. \A r \in Nat : Decrease(r) \in Nat /\ Decrease(r) <= r
  BY SMTT(60) DEF Decrease
<1>2. ASSUME NEW r \in Nat, NEW rtt \in Nat
      PROVE  update_cwnd_from_rate(r, rtt) \in Nat /\ update_cwnd_from_rate(r, rtt) >= MIN_CWND
  <2>1. r * rtt \in Nat
    BY SMTT(60)
  <2>2. MIN_CWND \in Nat
    BY CongestionAssumption
  <2> QED
    BY <2>1, <2>2, SMTT(60) DEF update_cwnd_from_rate
<1> QED
  BY <1>1, <1>2

\* A rate that grows does not shrink.
LEMMA GrownFacts ==
    ASSUME NEW r \in Nat, NEW x \in Nat, NEW e \in Nat
    PROVE  r + (x * e) \div 1000 \in Nat /\ r + (x * e) \div 1000 >= r
<1>1. x * e \in Nat
  BY SMTT(60)
<1>2. \A y \in Nat : y \div 1000 \in Nat
  BY SMTT(60)
<1> QED
  BY <1>1, <1>2, SMTT(60)

\* A sample leaves the rate within its limits, cuts it only into DRAIN, and
\* raises it only outside.
LEMMA UpdateRateFacts ==
    ASSUME phase \in Phases, rate \in MIN_RATE .. MAX_RATE, NEW us \in Usages, NEW e \in Nat
    PROVE  /\ update_rate(us, e).phase \in Phases
           /\ update_rate(us, e).rate \in MIN_RATE .. MAX_RATE
           /\ update_rate(us, e).rate < rate => update_rate(us, e).phase = "DRAIN"
           /\ phase = "DRAIN" => /\ update_rate(us, e).rate = rate
                                 /\ us = "OVERUSE" \/ e = 0 => update_rate(us, e).phase = "DRAIN"
<1>0. MIN_RATE \in Nat /\ MAX_RATE \in Nat /\ rate \in Nat /\ ADDITIVE_INCREASE \in Nat /\ MIN_RATE <= MAX_RATE
  BY CongestionAssumption, SMTT(60)
<1>1. CASE e = 0
  <2>1. update_rate(us, e) = [phase |-> phase, rate |-> rate]
    BY <1>1, SMTT(60) DEF update_rate
  <2> QED
    BY <1>0, <1>1, <2>1, SMTT(60)
<1>2. CASE e > 0 /\ phase = "DRAIN"
  <2>1. update_rate(us, e) = [phase |-> IF us = "OVERUSE" THEN "DRAIN" ELSE "STEADY", rate |-> rate]
    BY <1>2, SMTT(60) DEF update_rate
  <2> QED
    BY <1>0, <1>2, <2>1, SMTT(60) DEF Phases
<1>3. CASE e > 0 /\ phase # "DRAIN" /\ us = "OVERUSE"
  <2>1. update_rate(us, e) = [phase |-> "DRAIN", rate |-> Between(MIN_RATE, Decrease(rate), MAX_RATE)]
    BY <1>3, SMTT(60) DEF update_rate
  <2>2. Between(MIN_RATE, Decrease(rate), MAX_RATE) \in MIN_RATE .. MAX_RATE
    <3>1. Decrease(rate) \in Int
      BY <1>0, RateFacts, SMTT(60)
    <3> QED
      BY <1>0, <3>1, SMTT(60) DEF Between
  <2> QED
    BY <1>3, <2>1, <2>2, SMTT(60) DEF Phases
<1>4. CASE e > 0 /\ phase # "DRAIN" /\ us # "OVERUSE"
  <2> DEFINE grown == CASE phase = "SLOW_START" -> rate + (rate * e) \div 1000
                        [] phase = "STEADY" /\ us = "NORMAL" -> rate + (ADDITIVE_INCREASE * e) \div 1000
                        [] OTHER -> rate
  <2>1. update_rate(us, e) = [phase |-> phase, rate |-> Between(MIN_RATE, grown, MAX_RATE)]
    BY <1>4, SMTT(60) DEF update_rate
  <2>2. grown \in Nat /\ grown >= rate
    <3>1. rate + (rate * e) \div 1000 \in Nat /\ rate + (rate * e) \div 1000 >= rate
      BY <1>0, GrownFacts, SMTT(60)
    <3>2. rate + (ADDITIVE_INCREASE * e) \div 1000 \in Nat /\ rate + (ADDITIVE_INCREASE * e) \div 1000 >= rate
      BY <1>0, GrownFacts, SMTT(60)
    <3> DEFINE a == rate + (rate * e) \div 1000
               b == rate + (ADDITIVE_INCREASE * e) \div 1000
    <3>3. grown = a \/ grown = b \/ grown = rate
      <4> HIDE DEF a, b
      <4> QED
        BY SMTT(60) DEF a, b
    <3> HIDE DEF a, b, grown
    <3>4. a \in Nat /\ a >= rate /\ b \in Nat /\ b >= rate
      BY <3>1, <3>2, SMTT(60) DEF a, b
    <3> QED
      BY <1>0, <3>3, <3>4, SMTT(60)
  <2> HIDE DEF grown
  <2>3. Between(MIN_RATE, grown, MAX_RATE) \in MIN_RATE .. MAX_RATE /\ Between(MIN_RATE, grown, MAX_RATE) >= rate
    BY <1>0, <2>2, SMTT(60) DEF Between
  <2> QED
    BY <1>0, <1>4, <2>1, <2>3, SMTT(60)
<1> QED
  BY <1>0, <1>1, <1>2, <1>3, <1>4, SMTT(60)

\* What an ack does to the controller.
LEMMA OnAckFacts ==
    ASSUME CongestionIInv, NEW size \in Nat, NEW slope \in Slope, NEW e \in Elapsed, NEW rtt \in Rtt,
           on_ack(size, slope, e, rtt)
    PROVE  /\ phase' \in Phases /\ rate' \in MIN_RATE .. MAX_RATE
           /\ cwnd' \in Nat /\ cwnd' >= MIN_CWND
           /\ sampled' \in BOOLEAN /\ usage' \in Usages
           /\ overuse' \in Nat /\ overuse' <= overuse + 1
           /\ backed_off' \in BOOLEAN /\ (backed_off' => phase' = "DRAIN")
           /\ (backed_off => ~(rate' > rate))
<1>0. /\ phase \in Phases /\ rate \in MIN_RATE .. MAX_RATE /\ usage \in Usages /\ overuse \in Nat
      /\ cwnd \in Nat /\ cwnd >= MIN_CWND /\ (backed_off => phase = "DRAIN")
  BY SMTT(60) DEF CongestionIInv, CongestionTypeOK, Phases, Usages
<1>1. backed_off \in BOOLEAN
  BY DEF CongestionIInv
<1>2. e \in Nat /\ rtt \in Nat /\ MIN_RATE \in Nat /\ MAX_RATE \in Nat
  BY CongestionAssumption
<1>3. sampled' = TRUE
  BY DEF on_ack
<1>4. CASE ~sampled
  <2>1. UNCHANGED <<usage, overuse, phase, rate, cwnd, backed_off>>
    BY <1>4 DEF on_ack
  <2> QED
    BY <1>0, <1>1, <1>2, <1>3, <2>1, SMTT(60)
<1>5. CASE sampled
  <2> DEFINE d == detect(slope)
             u == update_rate(d.usage, e)
  <2>1. d.usage \in Usages /\ d.timer \in Nat /\ d.timer <= overuse + 1
    BY <1>0, SMTT(60) DEF detect, Slope, Usages
  <2>2. /\ usage' = d.usage /\ overuse' = d.timer /\ phase' = u.phase /\ rate' = u.rate
        /\ cwnd' = IF rtt > 0 THEN update_cwnd_from_rate(u.rate, rtt) ELSE cwnd
        /\ backed_off' = (u.rate < rate \/ (backed_off /\ (d.usage = "OVERUSE" \/ e = 0)))
    BY <1>5 DEF on_ack
  <2> HIDE DEF d
  <2>3. /\ u.phase \in Phases /\ u.rate \in MIN_RATE .. MAX_RATE
        /\ u.rate < rate => u.phase = "DRAIN"
        /\ phase = "DRAIN" => u.rate = rate /\ (d.usage = "OVERUSE" \/ e = 0 => u.phase = "DRAIN")
    BY <1>0, <1>2, <2>1, UpdateRateFacts
  <2> HIDE DEF u
  <2>4. cwnd' \in Nat /\ cwnd' >= MIN_CWND
    <3>1. u.rate \in Nat
      BY <1>2, <2>3, SMTT(60)
    <3>2. update_cwnd_from_rate(u.rate, rtt) \in Nat /\ update_cwnd_from_rate(u.rate, rtt) >= MIN_CWND
      BY <1>2, <3>1, RateFacts
    <3> QED
      BY <1>0, <2>2, <3>2
  <2>5. backed_off' \in BOOLEAN
    BY <2>2
  <2>6. backed_off' => phase' = "DRAIN"
    BY <1>0, <2>2, <2>3
  <2>7. backed_off => ~(rate' > rate)
    BY <1>0, <1>2, <2>2, <2>3, SMTT(60)
  <2> QED
    BY <1>3, <2>1, <2>2, <2>3, <2>4, <2>5, <2>6, <2>7
<1>6. sampled \in BOOLEAN
  BY DEF CongestionIInv, CongestionTypeOK
<1> QED
  BY <1>4, <1>5

\* Subtracting a packet that is out keeps the count right; a packet that was
\* subtracted before is accounted for as late.
LEMMA LandedFacts ==
    ASSUME NEW size \in Nat, NEW out \in Nat, NEW late \in Nat, in_flight \in Nat,
           in_flight <= out, out - late <= in_flight
    PROVE  /\ Landed(size) \in Nat
           /\ size <= out => Landed(size) <= out - size /\ (out - size) - late <= Landed(size)
           /\ Landed(size) <= out /\ out - (late + size) <= Landed(size)
  BY SMTT(60) DEF Landed

\* The packets that are out, and their number.
LEMMA OutFacts ==
    ASSUME CongestionIInv
    PROVE  /\ Sizes(unacked) /\ Sizes(given_up)
           /\ \A n \in DOMAIN unacked : unacked[n] \in PacketSize /\ unacked[n] \in Nat
           /\ \A n \in DOMAIN given_up : given_up[n] \in PacketSize /\ given_up[n] \in Nat
           /\ IsFiniteSet(DOMAIN unacked \cup DOMAIN given_up)
           /\ Cardinality(DOMAIN unacked \cup DOMAIN given_up) \in Nat
<1>1. packets \in 0 .. MaxSent /\ MaxSent \in Nat
  BY CongestionAssumption DEF CongestionIInv
<1>2. DOMAIN unacked \subseteq 1 .. packets /\ DOMAIN given_up \subseteq 1 .. packets
  BY DEF CongestionIInv
<1>3. \A s \in PacketSize : s \in Nat
  BY CongestionAssumption, SMTT(60)
<1>4. \A n \in DOMAIN unacked : unacked[n] \in PacketSize
  BY DEF CongestionIInv, CongestionTypeOK
<1>5. \A n \in DOMAIN given_up : given_up[n] \in PacketSize
  BY DEF CongestionIInv, CongestionTypeOK
<1>6. IsFiniteSet(1 .. packets)
  BY <1>1, FS_Interval, SMTT(60)
<1>7. IsFiniteSet(DOMAIN unacked \cup DOMAIN given_up)
  <2>1. DOMAIN unacked \cup DOMAIN given_up \in SUBSET (1 .. packets)
    BY <1>2
  <2> QED
    BY <1>6, <2>1, FS_Subset
<1>8. Cardinality(DOMAIN unacked \cup DOMAIN given_up) \in Nat
  BY <1>7, FS_CardinalityType
<1>9. 1 .. packets \subseteq 1 .. MaxSent
  BY <1>1, SMTT(60)
<1> QED
  BY <1>2, <1>3, <1>4, <1>5, <1>7, <1>8, <1>9 DEF Sizes

\* A packet is sent.
LEMMA SentKeeps ==
    ASSUME CongestionIInv, NEW size \in PacketSize, on_packet_sent(size)
    PROVE  CongestionIInv'
<1> DEFINE p == packets + 1
           out == DOMAIN unacked \cup DOMAIN given_up
<1>1. /\ packets < MaxSent /\ packets' = p /\ in_flight' = in_flight + size
      /\ unacked' = [n \in DOMAIN unacked \cup {p} |-> IF n = p THEN size ELSE unacked[n]]
      /\ UNCHANGED <<phase, rate, cwnd, sampled, usage, overuse, given_up, late_acks, backed_off>>
  BY DEF on_packet_sent
<1>2. /\ CongestionTypeOK /\ InFlightAccounted /\ packets \in 0 .. MaxSent /\ late_acks \in Nat
      /\ DOMAIN unacked \subseteq 1 .. packets /\ DOMAIN given_up \subseteq 1 .. packets
      /\ overuse + Cardinality(out) <= packets
  BY DEF CongestionIInv
<1>3. /\ Sizes(unacked) /\ IsFiniteSet(out) /\ Cardinality(out) \in Nat
      /\ MaxSent \in Nat /\ size \in Nat
  BY OutFacts, CongestionAssumption, SMTT(60)
<1>4. p \in 1 .. MaxSent /\ p \notin DOMAIN unacked /\ p \notin DOMAIN given_up
  BY <1>1, <1>2, <1>3, SMTT(60)
<1>5. Outstanding' = Outstanding + size /\ Outstanding \in Nat
  <2>1. Outstanding' = Total(unacked')
    BY DEF Outstanding
  <2>2. Total(unacked') = Total(unacked) + size
    BY <1>1, <1>3, <1>4, TotalFacts
  <2>3. Total(unacked) \in Nat
    BY <1>3, TotalFacts
  <2> QED
    BY <2>1, <2>2, <2>3 DEF Outstanding
<1>6. InFlightAccounted'
  <2>1. in_flight \in Nat
    BY <1>2 DEF CongestionTypeOK
  <2> QED
    BY <1>1, <1>2, <1>3, <1>5, <2>1, SMTT(60) DEF InFlightAccounted
<1>7. DOMAIN unacked' \cup DOMAIN given_up' = out \cup {p}
  BY <1>1
<1>8. overuse \in Nat /\ overuse + Cardinality(out \cup {p}) <= p
  <2>1. Cardinality(out \cup {p}) = Cardinality(out) + 1
    BY <1>3, <1>4, FS_AddElement
  <2> QED
    BY <1>2, <1>3, <2>1, SMTT(60) DEF CongestionTypeOK
<1>9. CongestionTypeOK'
  <2>1. unacked' \in [DOMAIN unacked' -> PacketSize]
    BY <1>1, <1>2 DEF CongestionTypeOK
  <2>2. in_flight' \in Nat
    BY <1>1, <1>2, <1>3, SMTT(60) DEF CongestionTypeOK
  <2> QED
    BY <1>1, <1>2, <2>1, <2>2 DEF CongestionTypeOK
<1>10. /\ packets' \in 0 .. MaxSent
       /\ DOMAIN unacked' \subseteq 1 .. packets' /\ DOMAIN given_up' \subseteq 1 .. packets'
       /\ DOMAIN unacked' \cap DOMAIN given_up' = {}
  <2>1. 1 .. packets \subseteq 1 .. p /\ p \in 1 .. p /\ p \in 0 .. MaxSent
    BY <1>2, <1>4, SMTT(60)
  <2> QED
    BY <1>1, <1>2, <1>4, <2>1 DEF CongestionIInv
<1>11. /\ late_acks' \in Nat /\ backed_off' \in BOOLEAN /\ cwnd' >= MIN_CWND
       /\ backed_off' => phase' = "DRAIN"
  BY <1>1 DEF CongestionIInv
<1> QED
  BY <1>1, <1>6, <1>7, <1>8, <1>9, <1>10, <1>11 DEF CongestionIInv

\* A packet is acked that is out.
LEMMA AckedKeeps ==
    ASSUME CongestionIInv, NEW n \in DOMAIN unacked,
           NEW s \in Slope, NEW e \in Elapsed, NEW r \in Rtt, Acked(n, s, e, r)
    PROVE  CongestionIInv'
<1> DEFINE out == DOMAIN unacked \cup DOMAIN given_up
           size == unacked[n]
<1>1. /\ on_ack(size, s, e, r) /\ unacked' = Drop(unacked, n)
      /\ UNCHANGED <<given_up, late_acks, packets>> /\ in_flight' = Landed(size)
  BY DEF Acked, on_ack
<1>2. /\ CongestionTypeOK /\ InFlightAccounted /\ packets \in 0 .. MaxSent /\ late_acks \in Nat
      /\ DOMAIN unacked \subseteq 1 .. packets /\ DOMAIN given_up \subseteq 1 .. packets
      /\ overuse + Cardinality(out) <= packets /\ DOMAIN unacked \cap DOMAIN given_up = {}
  BY DEF CongestionIInv
<1>3. /\ Sizes(unacked) /\ IsFiniteSet(out) /\ Cardinality(out) \in Nat
      /\ MaxSent \in Nat /\ size \in Nat
  BY OutFacts, CongestionAssumption
<1>4. /\ phase' \in Phases /\ rate' \in MIN_RATE .. MAX_RATE
      /\ cwnd' \in Nat /\ cwnd' >= MIN_CWND
      /\ sampled' \in BOOLEAN /\ usage' \in Usages
      /\ overuse' \in Nat /\ overuse' <= overuse + 1
      /\ backed_off' \in BOOLEAN /\ (backed_off' => phase' = "DRAIN")
  BY <1>1, <1>3, OnAckFacts
<1>5. Outstanding' = Outstanding - size /\ Outstanding \in Nat /\ size <= Outstanding
  <2>1. Outstanding' = Total(unacked') /\ Outstanding = Total(unacked)
    BY DEF Outstanding
  <2>2. Total(unacked') = Total(unacked) - size /\ Total(unacked) \in Nat
    BY <1>1, <1>3, TotalFacts
  <2>3. Sizes(unacked')
    BY <1>1, <1>3 DEF Sizes, Drop
  <2>4. Total(unacked') \in Nat
    BY <2>3, TotalFacts
  <2>5. size \in Nat
    BY <1>3
  <2> HIDE DEF size
  <2> QED
    BY <2>1, <2>2, <2>4, <2>5, SMTT(60)
<1>6. InFlightAccounted' /\ in_flight' \in Nat
  <2>1. in_flight \in Nat /\ in_flight <= Outstanding /\ Outstanding - late_acks <= in_flight
    BY <1>2 DEF CongestionTypeOK, InFlightAccounted
  <2>2. /\ Landed(size) \in Nat
        /\ Landed(size) <= Outstanding - size /\ (Outstanding - size) - late_acks <= Landed(size)
    BY <1>2, <1>3, <1>5, <2>1, LandedFacts
  <2> QED
    BY <1>1, <1>5, <2>2 DEF InFlightAccounted
<1>7. /\ DOMAIN unacked' = DOMAIN unacked \ {n}
      /\ DOMAIN unacked' \cup DOMAIN given_up' = out \ {n}
  BY <1>1, <1>2 DEF Drop
<1>8. overuse' + Cardinality(out \ {n}) <= packets /\ overuse' \in 0 .. MaxSent
  <2>1. Cardinality(out \ {n}) = Cardinality(out) - 1 /\ IsFiniteSet(out \ {n})
    BY <1>3, FS_RemoveElement
  <2>2. Cardinality(out \ {n}) \in Nat
    BY <2>1, FS_CardinalityType
  <2>3. overuse \in Nat
    BY <1>2, SMTT(60) DEF CongestionTypeOK
  <2> QED
    BY <1>2, <1>3, <1>4, <2>1, <2>2, <2>3, SMTT(60)
<1>9. CongestionTypeOK'
  <2>1. unacked' \in [DOMAIN unacked' -> PacketSize]
    BY <1>1, <1>2 DEF CongestionTypeOK, Drop
  <2> QED
    BY <1>1, <1>2, <1>4, <1>6, <1>8, <2>1 DEF CongestionTypeOK, Phases, Usages
<1> QED
  BY <1>1, <1>2, <1>4, <1>6, <1>7, <1>8, <1>9 DEF CongestionIInv

\* A packet is acked that was reported lost.
LEMMA AckedLateKeeps ==
    ASSUME CongestionIInv, NEW n \in DOMAIN given_up,
           NEW s \in Slope, NEW e \in Elapsed, NEW r \in Rtt, AckedLate(n, s, e, r)
    PROVE  CongestionIInv'
<1> DEFINE out == DOMAIN unacked \cup DOMAIN given_up
           size == given_up[n]
<1>1. /\ on_ack(size, s, e, r) /\ given_up' = Drop(given_up, n) /\ late_acks' = late_acks + size
      /\ UNCHANGED <<unacked, packets>> /\ in_flight' = Landed(size)
  BY DEF AckedLate, on_ack
<1>2. /\ CongestionTypeOK /\ InFlightAccounted /\ packets \in 0 .. MaxSent /\ late_acks \in Nat
      /\ DOMAIN unacked \subseteq 1 .. packets /\ DOMAIN given_up \subseteq 1 .. packets
      /\ overuse + Cardinality(out) <= packets /\ DOMAIN unacked \cap DOMAIN given_up = {}
  BY DEF CongestionIInv
<1>3. /\ Sizes(unacked) /\ IsFiniteSet(out) /\ Cardinality(out) \in Nat
      /\ MaxSent \in Nat /\ size \in Nat
  BY OutFacts, CongestionAssumption
<1>4. /\ phase' \in Phases /\ rate' \in MIN_RATE .. MAX_RATE
      /\ cwnd' \in Nat /\ cwnd' >= MIN_CWND
      /\ sampled' \in BOOLEAN /\ usage' \in Usages
      /\ overuse' \in Nat /\ overuse' <= overuse + 1
      /\ backed_off' \in BOOLEAN /\ (backed_off' => phase' = "DRAIN")
  BY <1>1, <1>3, OnAckFacts
<1>5. Outstanding' = Outstanding /\ Outstanding \in Nat
  <2>1. Outstanding' = Total(unacked') /\ Outstanding = Total(unacked)
    BY DEF Outstanding
  <2>2. Total(unacked) \in Nat
    BY <1>3, TotalFacts
  <2> QED
    BY <1>1, <2>1, <2>2
<1>6. InFlightAccounted' /\ in_flight' \in Nat
  <2>1. in_flight \in Nat /\ in_flight <= Outstanding /\ Outstanding - late_acks <= in_flight
    BY <1>2 DEF CongestionTypeOK, InFlightAccounted
  <2>2. /\ Landed(size) \in Nat
        /\ Landed(size) <= Outstanding /\ Outstanding - (late_acks + size) <= Landed(size)
    BY <1>2, <1>3, <1>5, <2>1, LandedFacts
  <2> QED
    BY <1>1, <1>5, <2>2 DEF InFlightAccounted
<1>7. /\ DOMAIN given_up' = DOMAIN given_up \ {n}
      /\ DOMAIN unacked' \cup DOMAIN given_up' = out \ {n}
  BY <1>1, <1>2 DEF Drop
<1>8. overuse' + Cardinality(out \ {n}) <= packets /\ overuse' \in 0 .. MaxSent
  <2>1. Cardinality(out \ {n}) = Cardinality(out) - 1 /\ IsFiniteSet(out \ {n})
    BY <1>3, FS_RemoveElement
  <2>2. Cardinality(out \ {n}) \in Nat
    BY <2>1, FS_CardinalityType
  <2>3. overuse \in Nat
    BY <1>2, SMTT(60) DEF CongestionTypeOK
  <2> QED
    BY <1>2, <1>3, <1>4, <2>1, <2>2, <2>3, SMTT(60)
<1>9. CongestionTypeOK'
  <2>1. given_up' \in [DOMAIN given_up' -> PacketSize]
    BY <1>1, <1>2 DEF CongestionTypeOK, Drop
  <2> QED
    BY <1>1, <1>2, <1>4, <1>6, <1>8, <2>1 DEF CongestionTypeOK, Phases, Usages
<1>10. late_acks' \in Nat
  BY <1>1, <1>2, <1>3, SMTT(60)
<1> QED
  BY <1>1, <1>2, <1>4, <1>6, <1>7, <1>8, <1>9, <1>10 DEF CongestionIInv

\* A packet is reported lost.
LEMMA LostKeeps ==
    ASSUME CongestionIInv, NEW n \in DOMAIN unacked, on_packet_lost(n)
    PROVE  CongestionIInv' /\ ~(rate' > rate)
<1> DEFINE out == DOMAIN unacked \cup DOMAIN given_up
           size == unacked[n]
<1>1. /\ phase' = "DRAIN" /\ rate' = Between(MIN_RATE, Decrease(rate), rate)
      /\ cwnd' = update_cwnd_from_rate(rate', 100) /\ unacked' = Drop(unacked, n)
      /\ given_up' = [m \in DOMAIN given_up \cup {n} |-> IF m = n THEN size ELSE given_up[m]]
      /\ backed_off' = TRUE /\ UNCHANGED <<sampled, usage, overuse, late_acks, packets>>
      /\ in_flight' = Landed(size)
  BY DEF on_packet_lost
<1>2. /\ CongestionTypeOK /\ InFlightAccounted /\ packets \in 0 .. MaxSent /\ late_acks \in Nat
      /\ DOMAIN unacked \subseteq 1 .. packets /\ DOMAIN given_up \subseteq 1 .. packets
      /\ overuse + Cardinality(out) <= packets /\ DOMAIN unacked \cap DOMAIN given_up = {}
  BY DEF CongestionIInv
<1>3. Sizes(unacked) /\ size \in Nat /\ size \in PacketSize
  BY OutFacts
<1>4. rate' \in MIN_RATE .. MAX_RATE /\ rate' <= rate /\ rate' \in Nat /\ rate \in Nat
  <2>1. rate \in MIN_RATE .. MAX_RATE /\ MIN_RATE \in Nat /\ MAX_RATE \in Nat
    BY <1>2, CongestionAssumption DEF CongestionTypeOK
  <2>2. Decrease(rate) \in Nat
    BY <2>1, RateFacts, SMTT(60)
  <2>3. rate' = Between(MIN_RATE, Decrease(rate), rate)
    BY <1>1
  <2> QED
    BY <2>1, <2>2, <2>3, SMTT(60) DEF Between
<1>5. cwnd' \in Nat /\ cwnd' >= MIN_CWND
  BY <1>1, <1>4, RateFacts
<1>6. Outstanding' = Outstanding - size /\ Outstanding \in Nat /\ size <= Outstanding
  <2>1. Outstanding' = Total(unacked') /\ Outstanding = Total(unacked)
    BY DEF Outstanding
  <2>2. Total(unacked') = Total(unacked) - size /\ Total(unacked) \in Nat
    BY <1>1, <1>3, TotalFacts
  <2>3. Sizes(unacked')
    BY <1>1, <1>3 DEF Sizes, Drop
  <2>4. Total(unacked') \in Nat
    BY <2>3, TotalFacts
  <2>5. size \in Nat
    BY <1>3
  <2> HIDE DEF size
  <2> QED
    BY <2>1, <2>2, <2>4, <2>5, SMTT(60)
<1>7. InFlightAccounted' /\ in_flight' \in Nat
  <2>1. in_flight \in Nat /\ in_flight <= Outstanding /\ Outstanding - late_acks <= in_flight
    BY <1>2 DEF CongestionTypeOK, InFlightAccounted
  <2>2. /\ Landed(size) \in Nat
        /\ Landed(size) <= Outstanding - size /\ (Outstanding - size) - late_acks <= Landed(size)
    BY <1>2, <1>3, <1>6, <2>1, LandedFacts
  <2> QED
    BY <1>1, <1>6, <2>2 DEF InFlightAccounted
<1>8. /\ DOMAIN unacked' = DOMAIN unacked \ {n} /\ DOMAIN given_up' = DOMAIN given_up \cup {n}
      /\ DOMAIN unacked' \cup DOMAIN given_up' = out
  BY <1>1 DEF Drop
<1>9. CongestionTypeOK'
  <2>1. unacked' \in [DOMAIN unacked' -> PacketSize]
    BY <1>1, <1>2 DEF CongestionTypeOK, Drop
  <2>2. given_up' \in [DOMAIN given_up' -> PacketSize]
    BY <1>1, <1>2, <1>3 DEF CongestionTypeOK
  <2> QED
    BY <1>1, <1>2, <1>4, <1>5, <1>7, <2>1, <2>2 DEF CongestionTypeOK
<1>10. ~(rate' > rate)
  BY <1>4, SMTT(60)
<1> QED
  BY <1>1, <1>2, <1>5, <1>7, <1>8, <1>9, <1>10 DEF CongestionIInv

\* Nothing is out, at the start and after a reset.
LEMMA NothingOut ==
    /\ Total(<<>>) = 0 /\ DOMAIN <<>> = {} /\ <<>> \in [DOMAIN <<>> -> PacketSize]
    /\ IsFiniteSet({} \cup {}) /\ Cardinality({} \cup {}) = 0
<1>1. DOMAIN <<>> = {}
  BY SMTT(60)
<1>2. Sizes(<<>>)
  BY <1>1 DEF Sizes
<1>3. Total(<<>>) = 0
  BY <1>1, <1>2, TotalFacts
<1>4. {} \cup {} = {}
  OBVIOUS
<1>5. <<>> \in [DOMAIN <<>> -> PacketSize]
  <2>1. <<>> = [n \in {} |-> 0]
    BY SMTT(60)
  <2> QED
    BY <1>1, <2>1
<1> QED
  BY <1>1, <1>3, <1>4, <1>5, FS_EmptySet

\* The controller at the start.
LEMMA CongestionStart == CongestionInit => CongestionIInv
<1> SUFFICES ASSUME CongestionInit PROVE CongestionIInv
  OBVIOUS
<1>1. /\ MaxSent \in Nat /\ INITIAL_CWND \in Nat /\ INITIAL_CWND >= MIN_CWND
      /\ INITIAL_RATE \in MIN_RATE .. MAX_RATE
  BY CongestionAssumption
<1>2. DOMAIN unacked = {} /\ DOMAIN given_up = {} /\ Outstanding = 0
      /\ Cardinality(DOMAIN unacked \cup DOMAIN given_up) = 0
  BY NothingOut DEF CongestionInit, Outstanding
<1>3. CongestionTypeOK
  <2>1. unacked \in [DOMAIN unacked -> PacketSize] /\ given_up \in [DOMAIN given_up -> PacketSize]
    BY NothingOut DEF CongestionInit
  <2>2. overuse \in 0 .. MaxSent /\ in_flight \in Nat
    BY <1>1, SMTT(60) DEF CongestionInit
  <2> QED
    BY <1>1, <2>1, <2>2 DEF CongestionInit, CongestionTypeOK
<1>4. InFlightAccounted
  BY <1>2, SMTT(60) DEF CongestionInit, InFlightAccounted
<1>5. /\ packets \in 0 .. MaxSent /\ late_acks \in Nat
      /\ overuse + Cardinality(DOMAIN unacked \cup DOMAIN given_up) <= packets
      /\ cwnd >= MIN_CWND
  BY <1>1, <1>2, SMTT(60) DEF CongestionInit
<1>6. backed_off = FALSE
  BY DEF CongestionInit
<1> QED
  BY <1>2, <1>3, <1>4, <1>5, <1>6 DEF CongestionIInv

\* The controller is reset; the detector keeps its count.
LEMMA ResetKeeps ==
    ASSUME CongestionIInv, congestion_reset
    PROVE  CongestionIInv'
<1>1. /\ phase' = "SLOW_START" /\ rate' = INITIAL_RATE /\ cwnd' = INITIAL_CWND
      /\ in_flight' = 0 /\ sampled' = FALSE
      /\ unacked' = <<>> /\ given_up' = <<>> /\ late_acks' = 0 /\ backed_off' = FALSE
      /\ UNCHANGED <<usage, overuse, packets>>
  BY DEF congestion_reset
<1>2. /\ MaxSent \in Nat /\ INITIAL_CWND \in Nat /\ INITIAL_CWND >= MIN_CWND
      /\ INITIAL_RATE \in MIN_RATE .. MAX_RATE
  BY CongestionAssumption
<1>3. /\ CongestionTypeOK /\ packets \in 0 .. MaxSent
      /\ overuse + Cardinality(DOMAIN unacked \cup DOMAIN given_up) <= packets
  BY DEF CongestionIInv
<1>4. /\ DOMAIN unacked' = {} /\ DOMAIN given_up' = {}
      /\ Cardinality(DOMAIN unacked' \cup DOMAIN given_up') = 0
  BY <1>1, NothingOut
<1>5. Outstanding' = 0
  <2>1. Outstanding' = Total(unacked')
    BY DEF Outstanding
  <2> QED
    BY <1>1, <2>1, NothingOut
<1>6. CongestionTypeOK'
  <2>1. unacked' \in [DOMAIN unacked' -> PacketSize] /\ given_up' \in [DOMAIN given_up' -> PacketSize]
    BY <1>1, NothingOut
  <2>2. in_flight' \in Nat
    BY <1>1
  <2> QED
    BY <1>1, <1>2, <1>3, <2>1, <2>2 DEF CongestionTypeOK
<1>7. InFlightAccounted'
  BY <1>1, <1>5, SMTT(60) DEF InFlightAccounted
<1>8. overuse' + Cardinality(DOMAIN unacked' \cup DOMAIN given_up') <= packets' /\ cwnd' >= MIN_CWND
  <2>1. Cardinality(DOMAIN unacked \cup DOMAIN given_up) \in Nat
    BY OutFacts
  <2> QED
    BY <1>1, <1>2, <1>3, <1>4, <2>1, SMTT(60) DEF CongestionTypeOK
<1> QED
  BY <1>1, <1>3, <1>4, <1>6, <1>7, <1>8 DEF CongestionIInv

\* Every step keeps the invariant.
LEMMA CongestionStep == CongestionIInv /\ [CongestionNext]_congestionVars => CongestionIInv'
<1> SUFFICES ASSUME CongestionIInv, [CongestionNext]_congestionVars PROVE CongestionIInv'
  OBVIOUS
<1>1. CASE \E size \in PacketSize : on_packet_sent(size)
  BY <1>1, SentKeeps
<1>2. CASE \E n \in DOMAIN unacked : on_packet_lost(n)
  BY <1>2, LostKeeps
<1>3. CASE \E n \in DOMAIN unacked, s \in Slope, e \in Elapsed, r \in Rtt : Acked(n, s, e, r)
  BY <1>3, AckedKeeps
<1>4. CASE \E n \in DOMAIN given_up, s \in Slope, e \in Elapsed, r \in Rtt : AckedLate(n, s, e, r)
  BY <1>4, AckedLateKeeps
<1>5. CASE congestion_reset
  BY <1>5, ResetKeeps
<1>6. CASE UNCHANGED congestionVars
  BY <1>6 DEF congestionVars, CongestionIInv, CongestionTypeOK, InFlightAccounted, Outstanding
<1> QED
  BY <1>1, <1>2, <1>3, <1>4, <1>5, <1>6 DEF CongestionNext

\* With nothing outstanding a packet may be sent.
LEMMA CongestionIInvImplies == CongestionIInv => CongestionInv
<1> SUFFICES ASSUME CongestionIInv, DOMAIN unacked = {}, NEW size \in PacketSize PROVE can_send(size)
  BY DEF CongestionInv, CongestionIInv, NeverStuck
<1>1. Outstanding = 0
  BY OutFacts, TotalFacts DEF Outstanding
<1>2. in_flight = 0
  BY <1>1, SMTT(60) DEF CongestionIInv, CongestionTypeOK, InFlightAccounted
<1>3. size \in 1 .. MIN_CWND /\ MIN_CWND \in Nat
  BY CongestionAssumption
<1>4. cwnd >= MIN_CWND /\ cwnd \in Nat
  BY DEF CongestionIInv, CongestionTypeOK
<1> QED
  BY <1>2, <1>3, <1>4, SMTT(60) DEF can_send

\* For every number and size of packets: the bytes in flight are accounted for
\* up to late acks, rate and window stay within their limits, and an idle
\* connection may send.
THEOREM CongestionCorrect == CongestionSpec => []CongestionInv
<1>1. CongestionInit => CongestionIInv
  BY CongestionStart
<1>2. CongestionIInv /\ [CongestionNext]_congestionVars => CongestionIInv'
  BY CongestionStep
<1>3. CongestionIInv => CongestionInv
  BY CongestionIInvImplies
<1> QED
  BY <1>1, <1>2, <1>3, PTL DEF CongestionSpec

\* A cut rate does not rise before a sample without overuse.
THEOREM BackOffKept == CongestionSpec => BackOffHolds
<1>1. CongestionInit => CongestionIInv
  BY CongestionStart
<1>2. CongestionIInv /\ [CongestionNext]_congestionVars => CongestionIInv'
  BY CongestionStep
<1> DEFINE StillCounted == resets \in Nat
<1>3. CongestionInit => StillCounted
  BY SMTT(60) DEF CongestionInit
<1>4. StillCounted /\ [CongestionNext]_congestionVars => StillCounted'
  <2> SUFFICES ASSUME StillCounted, [CongestionNext]_congestionVars PROVE StillCounted'
    OBVIOUS
  <2>1. resets' = resets \/ congestion_reset
    BY DEF CongestionNext, congestionVars, on_packet_sent, on_packet_lost, Acked, AckedLate, on_ack
  <2> QED
    BY <2>1, SMTT(60) DEF congestion_reset
<1>5. CongestionIInv /\ StillCounted /\ [CongestionNext]_congestionVars
        => [rate' > rate /\ resets' = resets => ~backed_off]_congestionVars
  <2> SUFFICES ASSUME CongestionIInv, StillCounted, CongestionNext, rate' > rate, resets' = resets, backed_off
               PROVE  FALSE
    OBVIOUS
  <2>0. ~(rate > rate) /\ rate \in Nat
    BY CongestionAssumption, SMTT(60) DEF CongestionIInv, CongestionTypeOK
  <2>1. CASE \E size \in PacketSize : on_packet_sent(size)
    BY <2>0, <2>1 DEF on_packet_sent
  <2>2. CASE \E n \in DOMAIN unacked : on_packet_lost(n)
    BY <2>2, LostKeeps
  <2>3. CASE \E n \in DOMAIN unacked, s \in Slope, e \in Elapsed, r \in Rtt : Acked(n, s, e, r)
    BY <2>3, OutFacts, OnAckFacts DEF Acked
  <2>4. CASE \E n \in DOMAIN given_up, s \in Slope, e \in Elapsed, r \in Rtt : AckedLate(n, s, e, r)
    BY <2>4, OutFacts, OnAckFacts DEF AckedLate
  <2>5. CASE congestion_reset
    <3>1. resets' = resets + 1
      BY <2>5 DEF congestion_reset
    <3> QED
      BY <3>1, SMTT(60)
  <2> QED
    BY <2>1, <2>2, <2>3, <2>4, <2>5 DEF CongestionNext
<1> HIDE DEF StillCounted
<1> QED
  BY <1>1, <1>2, <1>3, <1>4, <1>5, PTL DEF CongestionSpec, BackOffHolds
=============================================================================
