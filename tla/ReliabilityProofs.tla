------------------------- MODULE ReliabilityProofs --------------------------
(***************************************************************************)
(* Forward error correction, and the outbox of deltas with deadlines.      *)
(***************************************************************************)
EXTENDS Fec, Freshness, FiniteSetTheorems, TLAPS

\* A leaf that names no prover is left to Zenon; the others need arithmetic.
USE ZenonT(60)

-----------------------------------------------------------------------------
(***************************************************************************)
(* Freshness: for every turn of the clock, only stale and superseded       *)
(* deltas are dropped, and the others leave in order.                      *)
(***************************************************************************)

Pushed == [path : OutPath, deadline : Deadline, born : Nat]

\* An entry of the outbox is what was pushed under its number.
EntriesOK ==
    /\ outbox \in Seq(OutEntry) /\ pushed \in Seq(Pushed) /\ out_now \in 0 .. MaxOutTime
    /\ \A i \in 1 .. Len(pushed) : pushed[i].born <= out_now
    /\ \A j \in 1 .. Len(outbox) :
           LET e == outbox[j]
           IN  /\ e.id \in 1 .. Len(pushed)
               /\ e.path = pushed[e.id].path /\ e.deadline = pushed[e.id].deadline
               /\ e.created = pushed[e.id].born % ClockTurn

\* The entries are in the order of their numbers, after the popped ones.
OrderOK ==
    /\ \A i, j \in 1 .. Len(outbox) : i < j => outbox[i].id < outbox[j].id
    /\ \A i \in 1 .. Len(popped), j \in 1 .. Len(outbox) : popped[i][1] < outbox[j].id

\* What FreshnessInv needs to be inductive.
FreshnessIInv == FreshnessInv /\ EntriesOK /\ OrderOK

-----------------------------------------------------------------------------
(* Positions.                                                              *)

\* The k-th position of a finite set of positions.
LEMMA KthFacts ==
    ASSUME NEW S \in SUBSET Nat, IsFiniteSet(S)
    PROVE  /\ Cardinality(S) \in Nat
           /\ \A k \in 1 .. Cardinality(S) : Kth(S, k) \in S
           /\ \A k, m \in 1 .. Cardinality(S) : k < m => Kth(S, k) < Kth(S, m)
           /\ \A i \in S : \E k \in 1 .. Cardinality(S) : Kth(S, k) = i
<1> DEFINE n == Cardinality(S)
           Below(i) == {j \in S : j <= i}
           R(i) == Cardinality(Below(i))
           f == [i \in S |-> R(i)]
<1>1. n \in Nat
  BY FS_CardinalityType
<1>2. ASSUME NEW i \in S PROVE IsFiniteSet(Below(i)) /\ R(i) \in 1 .. n
  <2>1. Below(i) \in SUBSET S /\ i \in Below(i)
    BY SMTT(60)
  <2> DEFINE B == Below(i)
  <2> HIDE DEF B
  <2>2. B \in SUBSET S /\ i \in B
    BY <2>1 DEF B
  <2>3. IsFiniteSet(B) /\ Cardinality(B) <= n
    BY <2>2, FS_Subset
  <2>4. Cardinality(B) \in Nat /\ (Cardinality(B) = 0 <=> B = {})
    BY <2>3, FS_CardinalityType, FS_EmptySet
  <2>5. Cardinality(B) \in 1 .. n
    BY <1>1, <2>2, <2>3, <2>4, SMTT(60)
  <2> QED
    BY <2>3, <2>5 DEF B
<1>3. ASSUME NEW i \in S, NEW j \in S, i < j PROVE R(i) < R(j)
  <2> DEFINE A == Below(i)
             B == Below(j)
  <2>0. i \in Nat /\ j \in Nat
    OBVIOUS
  <2>a. \A k \in Nat : k <= i => k <= j
    BY <1>3, <2>0, SMTT(60)
  <2>b. ~(j <= i) /\ j <= j
    BY <1>3, <2>0, SMTT(60)
  <2>1. A \in SUBSET B /\ j \in B /\ j \notin A
    BY <2>a, <2>b
  <2>2. IsFiniteSet(A) /\ IsFiniteSet(B) /\ Cardinality(A) \in Nat /\ Cardinality(B) \in Nat
    BY <1>2, SMTT(60)
  <2> HIDE DEF A, B
  <2>3. Cardinality(A) <= Cardinality(B) /\ (Cardinality(B) = Cardinality(A) => B = A)
    BY <2>1, <2>2, FS_Subset
  <2>4. Cardinality(A) < Cardinality(B)
    BY <2>1, <2>2, <2>3, SMTT(60)
  <2> QED
    BY <2>4 DEF A, B
<1> HIDE DEF Below, R, n
<1>4. \A i, j \in S : R(i) = R(j) => i = j
  <2> SUFFICES ASSUME NEW i \in S, NEW j \in S, R(i) = R(j), i # j PROVE FALSE
    OBVIOUS
  <2>1. i \in Nat /\ j \in Nat /\ R(i) \in Nat /\ (i < j \/ j < i)
    BY <1>1, <1>2, SMTT(60)
  <2> QED
    BY <1>3, <2>1, SMTT(60)
<1>5. f \in Injection(S, 1 .. n)
  BY <1>2, <1>4 DEF Injection, IsInjective
<1>6. IsFiniteSet(1 .. n) /\ Cardinality(1 .. n) = n
  BY <1>1, FS_Interval, SMTT(60)
<1>7. f \in Surjection(S, 1 .. n)
  <2> HIDE DEF f
  <2> QED
    BY <1>5, <1>6, FS_Injection DEF n
<1>8. \A k \in 1 .. n : \E i \in S : R(i) = k
  BY <1>7 DEF Surjection
<1>9. \A k \in 1 .. n : Kth(S, k) \in S /\ R(Kth(S, k)) = k
  <2> TAKE k \in 1 .. n
  <2>1. Kth(S, k) = CHOOSE i \in S : R(i) = k
    BY DEF Kth, R, Below
  <2> QED
    BY <1>8, <2>1
<1>10. \A i \in S : R(i) \in 1 .. n /\ Kth(S, R(i)) = i
  BY <1>2, <1>4, <1>9
<1>11. ASSUME NEW k \in 1 .. n, NEW m \in 1 .. n, k < m PROVE Kth(S, k) < Kth(S, m)
  <2> DEFINE i == Kth(S, k)
             j == Kth(S, m)
  <2>1. i \in S /\ j \in S /\ R(i) = k /\ R(j) = m
    BY <1>9
  <2> HIDE DEF i, j
  <2>2. i \in Nat /\ j \in Nat
    BY <2>1
  <2>3. i = j \/ j < i \/ i < j
    BY <2>2, SMTT(60)
  <2>4. i < j
    BY <1>1, <1>3, <1>11, <2>1, <2>3, SMTT(60)
  <2> QED
    BY <2>4 DEF i, j
<1>12. \A i \in S : \E k \in 1 .. n : Kth(S, k) = i
  BY <1>10
<1> QED
  BY <1>1, <1>9, <1>11, <1>12 DEF n

\* The entries at some positions are those entries, in their order.
LEMMA AtFacts ==
    ASSUME NEW E, NEW q \in Seq(E), NEW S \in SUBSET (1 .. Len(q)), NEW s, s = At(q, S)
    PROVE  /\ s \in Seq(E) /\ Len(s) <= Len(q) /\ Len(s) \in Nat
           /\ \A k \in 1 .. Len(s) : Kth(S, k) \in S /\ s[k] = q[Kth(S, k)]
           /\ \A k, m \in 1 .. Len(s) : k < m => Kth(S, k) < Kth(S, m)
           /\ \A i \in S : \E k \in 1 .. Len(s) : s[k] = q[i]
<1> DEFINE n == Cardinality(S)
<1>0. Len(q) \in Nat
  BY SMTT(60)
<1>1. IsFiniteSet(1 .. Len(q)) /\ Cardinality(1 .. Len(q)) = Len(q)
  <2> DEFINE m == Len(q)
  <2> HIDE DEF m
  <2>1. m \in Nat
    BY <1>0 DEF m
  <2>2. IsFiniteSet(1 .. m) /\ Cardinality(1 .. m) = m
    BY <2>1, FS_Interval, SMTT(60)
  <2> QED
    BY <2>2 DEF m
<1>2. IsFiniteSet(S) /\ n <= Len(q) /\ S \in SUBSET Nat
  <2> DEFINE I == 1 .. Len(q)
  <2>1. S \in SUBSET I /\ I \in SUBSET Nat
    BY <1>0, SMTT(60)
  <2>2. IsFiniteSet(I) /\ Cardinality(I) = Len(q)
    BY <1>1
  <2> HIDE DEF I
  <2>3. IsFiniteSet(S) /\ Cardinality(S) <= Cardinality(I)
    BY <2>1, <2>2, FS_Subset
  <2> QED
    BY <2>1, <2>2, <2>3
<1>3. /\ n \in Nat
      /\ \A k \in 1 .. n : Kth(S, k) \in S
      /\ \A k, m \in 1 .. n : k < m => Kth(S, k) < Kth(S, m)
      /\ \A i \in S : \E k \in 1 .. n : Kth(S, k) = i
  BY <1>2, KthFacts
<1>4. s = [k \in 1 .. n |-> q[Kth(S, k)]]
  BY DEF At
<1> HIDE DEF n
<1>5. \A k \in 1 .. n : q[Kth(S, k)] \in E
  <2>1. \A i \in S : q[i] \in E
    BY SMTT(60)
  <2> QED
    BY <1>3, <2>1
<1>6. s \in Seq(E) /\ Len(s) = n /\ \A k \in 1 .. n : s[k] = q[Kth(S, k)]
  BY <1>3, <1>4, <1>5, SMTT(60)
<1> QED
  BY <1>2, <1>3, <1>6, SMTT(60)

-----------------------------------------------------------------------------
(* The clock.                                                              *)

\* A remainder is what is left after the largest multiple.
LEMMA ModParts ==
    ASSUME NEW t \in Nat \ {0}, NEW a \in Int
    PROVE  \E k \in Int : a = k * t + (a % t) /\ (a % t) \in 0 .. t - 1
<1>1. a = (a \div t) * t + (a % t) /\ (a % t) \in 0 .. t - 1 /\ (a \div t) \in Int
  BY SMTT(60)
<1> QED
  BY <1>1

\* There is one way to split a number into a multiple and a remainder.
LEMMA ModUnique ==
    ASSUME NEW t \in Nat \ {0}, NEW k \in Int, NEW m \in Int,
           NEW x \in 0 .. t - 1, NEW y \in 0 .. t - 1, k * t + x = m * t + y
    PROVE  x = y
<1>1. (k - m) * t = y - x /\ k - m \in Int
  BY SMTT(60)
<1>2. \A d \in Int : d >= 1 => d * t >= t
  BY SMTT(60)
<1>3. \A d \in Int : d <= -1 => d * t <= -t
  BY SMTT(60)
<1>4. y - x < t /\ y - x > -t
  BY SMTT(60)
<1>5. k - m = 0
  BY <1>1, <1>2, <1>3, <1>4, SMTT(60)
<1> QED
  BY <1>1, <1>5, SMTT(60)

\* The age read on a clock that turns is the true age modulo the turn.
LEMMA AgeRead ==
    ASSUME NEW t \in Nat \ {0}, NEW a \in Nat, NEW b \in Nat, b <= a
    PROVE  /\ ((a % t) - (b % t)) % t = (a - b) % t
           /\ (a - b) % t <= a - b
           /\ a - b < t => (a - b) % t = a - b
<1>0. \A c \in Int : \E k \in Int : c = k * t + (c % t) /\ (c % t) \in 0 .. t - 1
  BY ModParts
<1>1. PICK ka \in Int : a = ka * t + (a % t) /\ (a % t) \in 0 .. t - 1
  <2>1. a \in Int
    BY SMTT(60)
  <2> QED
    BY <1>0, <2>1
<1>2. PICK kb \in Int : b = kb * t + (b % t) /\ (b % t) \in 0 .. t - 1
  <2>1. b \in Int
    BY SMTT(60)
  <2> QED
    BY <1>0, <2>1
<1> DEFINE d == (a % t) - (b % t)
           e == a - b
<1>3. d \in Int /\ e \in Nat
  BY <1>1, <1>2, SMTT(60)
<1>4. PICK kd \in Int : d = kd * t + (d % t) /\ (d % t) \in 0 .. t - 1
  BY <1>0, <1>3
<1>5. PICK ke \in Int : e = ke * t + (e % t) /\ (e % t) \in 0 .. t - 1
  <2>1. e \in Int
    BY <1>3, SMTT(60)
  <2> QED
    BY <1>0, <2>1
<1>6. (ka - kb + kd) * t + (d % t) = ke * t + (e % t)
  <2>1. (ka - kb + kd) * t = ka * t - kb * t + kd * t
    BY SMTT(60)
  <2> DEFINE za == ka * t  zb == kb * t  zd == kd * t  ze == ke * t
             ra == a % t  rb == b % t  rd == d % t  re == e % t
  <2>2. za \in Int /\ zb \in Int /\ zd \in Int /\ ze \in Int
    BY SMTT(60)
  <2>3. ra \in Int /\ rb \in Int /\ rd \in Int /\ re \in Int
    BY <1>1, <1>2, <1>4, <1>5, SMTT(60)
  <2>4. a = za + ra /\ b = zb + rb
    BY <1>1, <1>2
  <2>5. ra - rb = zd + rd /\ a - b = ze + re
    BY <1>4, <1>5
  <2> HIDE DEF za, zb, zd, ze, ra, rb, rd, re, d, e
  <2>6. za - zb + zd + rd = ze + re
    BY <2>2, <2>3, <2>4, <2>5, SMTT(60)
  <2>7. (ka - kb + kd) * t = za - zb + zd
    BY <2>1 DEF za, zb, zd
  <2> QED
    BY <2>6, <2>7 DEF ze, rd, re
<1>7. d % t = e % t
  <2> DEFINE x == d % t
             y == e % t
             k == ka - kb + kd
  <2>1. x \in 0 .. t - 1 /\ y \in 0 .. t - 1 /\ k \in Int /\ k * t + x = ke * t + y
    BY <1>4, <1>5, <1>6, SMTT(60)
  <2> HIDE DEF x, y, k
  <2>2. x = y
    BY <2>1, ModUnique
  <2> QED
    BY <2>2 DEF x, y
<1>8. e % t <= e
  <2>1. ke >= 0 => ke * t >= 0
    BY SMTT(60)
  <2>2. ke <= -1 => ke * t <= -t
    BY SMTT(60)
  <2> HIDE DEF e
  <2> DEFINE y == e % t
             z == ke * t
  <2>3. y \in 0 .. t - 1 /\ e = z + y /\ z \in Int
    BY <1>5, SMTT(60)
  <2> HIDE DEF y, z
  <2>4. ke >= 0 \/ ke <= -1
    BY SMTT(60)
  <2>5. z >= 0 \/ z <= -t
    BY <2>1, <2>2, <2>4 DEF z
  <2>6. y <= e
    BY <1>3, <2>3, <2>5, SMTT(60)
  <2> QED
    BY <2>6 DEF y
<1>9. e < t => e % t = e
  BY <1>3, SMTT(60)
<1> QED
  BY <1>7, <1>8, <1>9

-----------------------------------------------------------------------------
(* The steps.                                                              *)

\* is_fresh is the true test of the deadline until the clock has turned.
LEMMA FreshRead ==
    ASSUME FreshnessIInv, NEW i \in 1 .. Len(outbox)
    PROVE  LET id == outbox[i].id
               age == out_now - pushed[id].born
           IN  /\ ~is_fresh(outbox[i]) => Expired(id)
               /\ is_fresh(outbox[i]) /\ pushed[id].deadline # 0 /\ age > pushed[id].deadline
                      => age >= ClockTurn
<1> DEFINE e == outbox[i]
           b == pushed[e.id].born
           age == out_now - b
           d == e.deadline
<1>1. e.id \in 1 .. Len(pushed) /\ d = pushed[e.id].deadline /\ e.created = b % ClockTurn
  BY DEF FreshnessIInv, EntriesOK
<1>2. b \in Nat /\ b <= out_now /\ out_now \in Nat /\ ClockTurn \in Nat \ {0}
  <2>1. pushed \in Seq(Pushed) /\ out_now \in 0 .. MaxOutTime
        /\ \A j \in 1 .. Len(pushed) : pushed[j].born <= out_now
    BY DEF FreshnessIInv, EntriesOK
  <2>2. pushed[e.id] \in Pushed /\ b <= out_now
    <3> HIDE DEF e
    <3> QED
      BY <1>1, <2>1, SMTT(60)
  <2>3. b \in Nat
    <3> HIDE DEF e
    <3> QED
      BY <2>2 DEF Pushed
  <2> QED
    BY <2>1, <2>2, <2>3, FreshnessAssumption, SMTT(60)
<1>3. d \in Nat
  <2>1. outbox \in Seq(OutEntry)
    BY DEF FreshnessIInv, EntriesOK
  <2>2. e \in OutEntry
    BY <2>1, SMTT(60)
  <2> HIDE DEF e
  <2>3. e.deadline \in Deadline
    BY <2>2 DEF OutEntry
  <2> QED
    BY <2>3, FreshnessAssumption
<1>4. is_fresh(e) <=> d = 0 \/ ((out_now % ClockTurn) - (b % ClockTurn)) % ClockTurn <= d
  BY <1>1 DEF is_fresh, now32
<1>5. Expired(e.id) <=> d # 0 /\ age > d
  BY <1>1 DEF Expired, AgeAt
<1>6. /\ ((out_now % ClockTurn) - (b % ClockTurn)) % ClockTurn = age % ClockTurn
      /\ age % ClockTurn <= age
      /\ age < ClockTurn => age % ClockTurn = age
  <2> HIDE DEF b
  <2> QED
    BY <1>2, AgeRead
<1> DEFINE m == age % ClockTurn
<1>7. is_fresh(e) <=> d = 0 \/ m <= d
  <2> DEFINE x == ((out_now % ClockTurn) - (b % ClockTurn)) % ClockTurn
  <2>1. x = m /\ (is_fresh(e) <=> d = 0 \/ x <= d)
    BY <1>4, <1>6
  <2> HIDE DEF x, m, d
  <2> QED
    BY <2>1
<1>8. age \in Nat /\ m \in Nat /\ ClockTurn \in Nat
  <2> HIDE DEF b
  <2>1. age \in Nat
    BY <1>2, SMTT(60)
  <2> HIDE DEF age
  <2> QED
    BY <1>2, <2>1, SMTT(60)
<1>9. m <= age /\ (age < ClockTurn => m = age)
  BY <1>6
<1> HIDE DEF m, age, d
<1>10. ~is_fresh(e) => d # 0 /\ age > d
  BY <1>3, <1>7, <1>8, <1>9, SMTT(60)
<1>11. is_fresh(e) /\ d # 0 /\ age > d => age >= ClockTurn
  <2>1. is_fresh(e) => d = 0 \/ m <= d
    BY <1>7
  <2> QED
    BY <1>3, <1>8, <1>9, <2>1, SMTT(60)
<1> QED
  BY <1>1, <1>5, <1>10, <1>11 DEF age, d

\* A superseded delta: a newer one of its path was pushed.
Superseded(i) == \E k \in i + 1 .. Len(pushed) : pushed[k].path = pushed[i].path

\* Dropping expired and superseded deltas.
LEMMA DropKeeps ==
    ASSUME FreshnessIInv, UNCHANGED <<out_now, pushed, popped>>,
           NEW S \in SUBSET (1 .. Len(outbox)), outbox' = At(outbox, S),
           \A i \in (1 .. Len(outbox)) \ S : Expired(outbox[i].id) \/ Superseded(outbox[i].id)
    PROVE  FreshnessIInv'
<1> DEFINE s == outbox'
<1>1. outbox \in Seq(OutEntry)
  BY DEF FreshnessIInv, EntriesOK
<1>2. /\ s \in Seq(OutEntry) /\ Len(s) <= Len(outbox) /\ Len(s) \in Nat
      /\ \A k \in 1 .. Len(s) : Kth(S, k) \in S /\ s[k] = outbox[Kth(S, k)]
      /\ \A k, m \in 1 .. Len(s) : k < m => Kth(S, k) < Kth(S, m)
      /\ \A i \in S : \E k \in 1 .. Len(s) : s[k] = outbox[i]
  BY <1>1, AtFacts, SMTT(60)
<1> HIDE DEF s
<1>3. \A k \in 1 .. Len(s) : \E i \in 1 .. Len(outbox) : s[k] = outbox[i]
  BY <1>2
<1>4. EntriesOK'
  <2>1. \A j \in 1 .. Len(s) : LET e == s[j]
                               IN  /\ e.id \in 1 .. Len(pushed)
                                   /\ e.path = pushed[e.id].path /\ e.deadline = pushed[e.id].deadline
                                   /\ e.created = pushed[e.id].born % ClockTurn
    BY <1>3, SMTT(60) DEF FreshnessIInv, EntriesOK
  <2>2. pushed \in Seq(Pushed) /\ out_now \in 0 .. MaxOutTime
        /\ \A i \in 1 .. Len(pushed) : pushed[i].born <= out_now
    BY DEF FreshnessIInv, EntriesOK
  <2> QED
    BY <1>2, <2>1, <2>2 DEF EntriesOK, s
<1>5. OrderOK'
  <2>1. \A i, j \in 1 .. Len(s) : i < j => s[i].id < s[j].id
    <3> SUFFICES ASSUME NEW i \in 1 .. Len(s), NEW j \in 1 .. Len(s), i < j PROVE s[i].id < s[j].id
      OBVIOUS
    <3>1. /\ Kth(S, i) \in 1 .. Len(outbox) /\ Kth(S, j) \in 1 .. Len(outbox)
          /\ Kth(S, i) < Kth(S, j)
      BY <1>2
    <3> QED
      BY <1>2, <3>1 DEF FreshnessIInv, OrderOK
  <2>2. \A i \in 1 .. Len(popped), j \in 1 .. Len(s) : popped[i][1] < s[j].id
    BY <1>3 DEF FreshnessIInv, OrderOK
  <2> QED
    BY <2>1, <2>2 DEF OrderOK, s
<1>6. FreshNeverDropped'
  <2> SUFFICES ASSUME NEW i \in DOMAIN pushed
               PROVE  InOutbox(i)' \/ WasPopped(i) \/ Expired(i) \/ Superseded(i)
    BY SMTT(60) DEF FreshNeverDropped, WasPopped, Expired, AgeAt, Superseded, InOutbox
  <2>1. InOutbox(i) \/ WasPopped(i) \/ Expired(i) \/ Superseded(i)
    BY DEF FreshnessIInv, FreshnessInv, FreshNeverDropped, Superseded
  <2>2. ASSUME InOutbox(i) PROVE InOutbox(i)' \/ Expired(i) \/ Superseded(i)
    <3>1. PICK j \in 1 .. Len(outbox) : outbox[j].id = i
      BY <1>1, <2>2, SMTT(60) DEF InOutbox
    <3>2. CASE j \in S
      <4>1. PICK k \in 1 .. Len(s) : s[k] = outbox[j]
        BY <1>2, <3>2
      <4> QED
        BY <1>2, <3>1, <4>1, SMTT(60) DEF InOutbox, s
    <3>3. CASE j \notin S
      BY <3>1, <3>3
    <3> QED
      BY <3>2, <3>3
  <2> QED
    BY <2>1, <2>2
<1>7. LateOnlyAfterATurn' /\ PoppedInOrder'
  BY DEF FreshnessIInv, FreshnessInv, LateOnlyAfterATurn, PoppedInOrder, AgeAt
<1>8. FreshnessTypeOK'
  <2>1. Len(popped) \in Nat /\ Len(pushed) \in Nat /\ Len(outbox) \in Nat
    BY <1>1, SMTT(60) DEF FreshnessIInv, FreshnessInv, FreshnessTypeOK
  <2>2. Len(s) + Len(popped) <= Len(pushed)
    BY <1>2, <2>1, SMTT(60) DEF FreshnessIInv, FreshnessInv, FreshnessTypeOK
  <2> QED
    BY <1>2, <2>2 DEF FreshnessIInv, FreshnessInv, FreshnessTypeOK, s
<1> QED
  BY <1>4, <1>5, <1>6, <1>7, <1>8 DEF FreshnessIInv, FreshnessInv

\* push adds a delta after all others.
LEMMA PushKeeps ==
    ASSUME FreshnessIInv, NEW p \in OutPath, NEW d \in Deadline, push(p, d)
    PROVE  FreshnessIInv'
<1> DEFINE n == Len(pushed)
           e == [id |-> n + 1, path |-> p, created |-> now32, deadline |-> d]
           h == [path |-> p, deadline |-> d, born |-> out_now]
           m == Len(outbox)
<1>1. /\ outbox \in Seq(OutEntry) /\ pushed \in Seq(Pushed) /\ out_now \in Nat
      /\ n \in Nat /\ m \in Nat /\ n + 1 <= MaxPushes /\ MaxPushes \in Nat
      /\ ClockTurn \in Nat \ {0} /\ out_now <= MaxOutTime
  BY FreshnessAssumption, SMTT(60) DEF FreshnessIInv, EntriesOK, push
<1>2. outbox' = Append(outbox, e) /\ pushed' = Append(pushed, h)
      /\ out_now' = out_now /\ popped' = popped
  BY DEF push
<1>3. now32 \in 0 .. ClockTurn - 1
  BY <1>1, SMTT(60) DEF now32
<1>4. e \in OutEntry /\ h \in Pushed
  BY <1>1, <1>3, SMTT(60) DEF OutEntry, Pushed
<1>5. /\ e.id = n + 1 /\ e.path = p /\ e.created = now32 /\ e.deadline = d
      /\ h.path = p /\ h.deadline = d /\ h.born = out_now
  OBVIOUS
<1> HIDE DEF e, h
<1>6. /\ pushed' \in Seq(Pushed) /\ Len(pushed') = n + 1 /\ pushed'[n + 1] = h
      /\ \A i \in 1 .. n : pushed'[i] = pushed[i]
  BY <1>1, <1>2, <1>4, SMTT(60)
<1>7. /\ outbox' \in Seq(OutEntry) /\ Len(outbox') = m + 1 /\ outbox'[m + 1] = e
      /\ \A i \in 1 .. m : outbox'[i] = outbox[i]
  BY <1>1, <1>2, <1>4, SMTT(60)
<1> HIDE DEF n, m
<1>8. \A j \in 1 .. m : outbox[j].id \in 1 .. n
  BY DEF FreshnessIInv, EntriesOK, n, m
<1>9. EntriesOK'
  <2>1. \A i \in 1 .. n + 1 : pushed'[i].born <= out_now
    <3> TAKE i \in 1 .. n + 1
    <3>1. i \in 1 .. n \/ i = n + 1
      BY <1>1, SMTT(60)
    <3>2. CASE i \in 1 .. n
      BY <1>6, <3>2 DEF FreshnessIInv, EntriesOK, n
    <3>3. CASE i = n + 1
      BY <1>1, <1>5, <1>6, <3>3, SMTT(60)
    <3> QED
      BY <3>1, <3>2, <3>3
  <2>2. ASSUME NEW j \in 1 .. m + 1
        PROVE  LET f == outbox'[j]
               IN  /\ f.id \in 1 .. n + 1
                   /\ f.path = pushed'[f.id].path /\ f.deadline = pushed'[f.id].deadline
                   /\ f.created = pushed'[f.id].born % ClockTurn
    <3>1. j \in 1 .. m \/ j = m + 1
      BY <1>1, SMTT(60)
    <3>2. CASE j \in 1 .. m
      <4>1. outbox'[j] = outbox[j] /\ outbox[j].id \in 1 .. n
        BY <1>7, <1>8, <3>2
      <4>2. pushed'[outbox[j].id] = pushed[outbox[j].id] /\ outbox[j].id \in 1 .. n + 1
        BY <1>1, <1>6, <4>1, SMTT(60)
      <4> QED
        BY <3>2, <4>1, <4>2 DEF FreshnessIInv, EntriesOK, m
    <3>3. CASE j = m + 1
      BY <1>1, <1>5, <1>6, <1>7, <3>3, SMTT(60) DEF now32
    <3> QED
      BY <3>1, <3>2, <3>3
  <2>3. out_now' \in 0 .. MaxOutTime
    BY <1>1, <1>2, FreshnessAssumption, SMTT(60)
  <2> QED
    BY <1>2, <1>6, <1>7, <2>1, <2>2, <2>3 DEF EntriesOK
<1>10. popped \in Seq((1 .. n) \X (0 .. out_now)) /\ Len(popped) \in Nat /\ m + Len(popped) <= n
  BY SMTT(60) DEF FreshnessIInv, FreshnessInv, FreshnessTypeOK, n, m
<1>11. \A i \in 1 .. Len(popped) : popped[i][1] \in 1 .. n
  BY <1>10, SMTT(60)
<1>12. OrderOK'
  <2>1. ASSUME NEW i \in 1 .. m + 1, NEW j \in 1 .. m + 1, i < j
        PROVE  outbox'[i].id < outbox'[j].id
    <3>1. i \in 1 .. m /\ (j \in 1 .. m \/ j = m + 1)
      BY <1>1, <2>1, SMTT(60)
    <3>2. CASE j \in 1 .. m
      BY <1>7, <2>1, <3>1, <3>2 DEF FreshnessIInv, OrderOK, m
    <3>3. CASE j = m + 1
      BY <1>1, <1>5, <1>7, <1>8, <3>1, <3>3, SMTT(60)
    <3> QED
      BY <3>1, <3>2, <3>3
  <2>2. ASSUME NEW i \in 1 .. Len(popped), NEW j \in 1 .. m + 1
        PROVE  popped[i][1] < outbox'[j].id
    <3>1. j \in 1 .. m \/ j = m + 1
      BY <1>1, SMTT(60)
    <3>2. CASE j \in 1 .. m
      BY <1>7, <3>2 DEF FreshnessIInv, OrderOK, m
    <3>3. CASE j = m + 1
      BY <1>1, <1>5, <1>7, <1>11, <3>3, SMTT(60)
    <3> QED
      BY <3>1, <3>2, <3>3
  <2> QED
    BY <1>2, <1>7, <2>1, <2>2 DEF OrderOK
<1>13. FreshNeverDropped'
  <2> SUFFICES ASSUME NEW i \in 1 .. n + 1
               PROVE  InOutbox(i)' \/ WasPopped(i)' \/ Expired(i)' \/ Superseded(i)'
    BY <1>6, SMTT(60) DEF FreshNeverDropped, WasPopped, Expired, AgeAt, Superseded, InOutbox
  <2>1. CASE i = n + 1
    BY <1>1, <1>5, <1>7, <2>1, SMTT(60) DEF InOutbox
  <2>2. CASE i \in 1 .. n
    <3>1. InOutbox(i) \/ WasPopped(i) \/ Expired(i) \/ Superseded(i)
      BY <1>6, <2>2, SMTT(60) DEF FreshnessIInv, FreshnessInv, FreshNeverDropped, Superseded, EntriesOK, n
    <3>2. InOutbox(i) => InOutbox(i)'
      BY <1>1, <1>7, SMTT(60) DEF InOutbox, m
    <3>3. WasPopped(i) => WasPopped(i)'
      BY <1>2 DEF WasPopped
    <3>4. Expired(i) => Expired(i)'
      BY <1>2, <1>6, <2>2 DEF Expired, AgeAt
    <3>5. Superseded(i) => Superseded(i)'
      <4> SUFFICES ASSUME NEW k \in i + 1 .. n, pushed[k].path = pushed[i].path
                   PROVE  Superseded(i)'
        BY DEF Superseded, n
      <4>1. k \in 1 .. n /\ k \in i + 1 .. n + 1
        BY <1>1, <2>2, SMTT(60)
      <4> QED
        BY <1>6, <2>2, <4>1 DEF Superseded
    <3> QED
      BY <3>1, <3>2, <3>3, <3>4, <3>5
  <2> QED
    BY <1>1, <2>1, <2>2, SMTT(60)
<1>14. LateOnlyAfterATurn' /\ PoppedInOrder'
  <2>1. \A j \in DOMAIN popped : pushed'[popped[j][1]] = pushed[popped[j][1]]
    BY <1>6, <1>10, <1>11, SMTT(60)
  <2> QED
    BY <1>2, <2>1 DEF FreshnessIInv, FreshnessInv, LateOnlyAfterATurn, PoppedInOrder, AgeAt
<1>15. FreshnessTypeOK'
  <2>1. popped \in Seq((1 .. n + 1) \X (0 .. out_now))
    <3>1. (1 .. n) \X (0 .. out_now) \subseteq (1 .. n + 1) \X (0 .. out_now)
      BY <1>1, SMTT(60)
    <3> DEFINE A == (1 .. n) \X (0 .. out_now)
               B == (1 .. n + 1) \X (0 .. out_now)
    <3>2. A \subseteq B /\ popped \in Seq(A)
      BY <1>10, <3>1
    <3> HIDE DEF A, B
    <3>3. popped \in Seq(B)
      BY <3>2, SMTT(60)
    <3> QED
      BY <3>3 DEF B
  <2>2. m + 1 + Len(popped) <= n + 1 /\ n + 1 \in 0 .. MaxPushes
    BY <1>1, <1>10, SMTT(60)
  <2>3. out_now \in 0 .. MaxOutTime
    BY DEF FreshnessIInv, EntriesOK
  <2> QED
    BY <1>2, <1>6, <1>7, <2>1, <2>2, <2>3 DEF FreshnessTypeOK
<1> QED
  BY <1>9, <1>12, <1>13, <1>14, <1>15 DEF FreshnessIInv, FreshnessInv

\* What Append does.
LEMMA AppendFacts ==
    ASSUME NEW E, NEW q \in Seq(E), NEW y \in E, NEW s, s = Append(q, y)
    PROVE  /\ s \in Seq(E) /\ Len(s) = Len(q) + 1 /\ s[Len(q) + 1] = y
           /\ \A k \in 1 .. Len(q) : s[k] = q[k]
BY SMTT(60)

\* pop returns the first fresh delta and drops the stale ones before it.
LEMMA PopKeeps ==
    ASSUME FreshnessIInv, UNCHANGED <<out_now, pushed>>,
           NEW i \in FreshAt, \A j \in FreshAt : i <= j,
           outbox' = SubSeq(outbox, i + 1, Len(outbox)),
           popped' = Append(popped, <<outbox[i].id, out_now>>)
    PROVE  FreshnessIInv'
<1> DEFINE n == Len(pushed)
           m == Len(outbox)
           c == Len(popped)
           x == outbox[i].id
           y == <<x, out_now>>
           P == (1 .. n) \X (0 .. out_now)
<1>1. /\ outbox \in Seq(OutEntry) /\ pushed \in Seq(Pushed) /\ out_now \in Nat
      /\ n \in Nat /\ m \in Nat /\ out_now \in 0 .. MaxOutTime
  BY SMTT(60) DEF FreshnessIInv, EntriesOK
<1>2. i \in 1 .. m /\ is_fresh(outbox[i])
  BY <1>1, SMTT(60) DEF FreshAt
<1>3. popped \in Seq(P) /\ c \in Nat /\ m + c <= n
  BY SMTT(60) DEF FreshnessIInv, FreshnessInv, FreshnessTypeOK
<1>4. x \in 1 .. n
  BY <1>2 DEF FreshnessIInv, EntriesOK
<1>5. y \in P /\ y[1] = x /\ y[2] = out_now
  BY <1>1, <1>4, SMTT(60)
<1>6. /\ Len(outbox') = m - i /\ outbox' \in Seq(OutEntry)
      /\ \A k \in 1 .. m - i : outbox'[k] = outbox[k + i]
  BY <1>1, <1>2, SMTT(60)
<1> HIDE DEF n, m, x, y, P
<1>7. /\ popped' \in Seq(P) /\ Len(popped') = c + 1 /\ popped'[c + 1] = y
      /\ \A k \in 1 .. c : popped'[k] = popped[k]
  <2>1. popped' = Append(popped, y) /\ popped \in Seq(P) /\ y \in P
    BY <1>3, <1>5 DEF x, y
  <2> DEFINE z == popped'
             q == popped
  <2>2. z = Append(q, y) /\ q \in Seq(P) /\ y \in P
    BY <2>1
  <2> HIDE DEF z, q
  <2>3. /\ z \in Seq(P) /\ Len(z) = Len(q) + 1 /\ z[Len(q) + 1] = y
        /\ \A k \in 1 .. Len(q) : z[k] = q[k]
    BY <2>2, AppendFacts, SMTT(60)
  <2> QED
    BY <2>3 DEF z, q
<1> HIDE DEF c
<1>a. \A a \in 1 .. c + 1 : a \in 1 .. c \/ a = c + 1
  <2>1. c \in Nat
    BY <1>3
  <2> QED
    BY <2>1, SMTT(60)
<1>8. \A k \in 1 .. m - i : k + i \in 1 .. m /\ i < k + i
  BY <1>1, <1>2, SMTT(60)
<1>9. EntriesOK'
  <2>1. \A j \in 1 .. m - i : LET e == outbox'[j]
                              IN  /\ e.id \in 1 .. Len(pushed)
                                  /\ e.path = pushed[e.id].path /\ e.deadline = pushed[e.id].deadline
                                  /\ e.created = pushed[e.id].born % ClockTurn
    BY <1>6, <1>8 DEF FreshnessIInv, EntriesOK, m
  <2>2. \A j \in 1 .. Len(pushed) : pushed[j].born <= out_now
    BY DEF FreshnessIInv, EntriesOK
  <2> QED
    BY <1>1, <1>6, <2>1, <2>2 DEF EntriesOK
<1>10. OrderOK'
  <2>1. ASSUME NEW a \in 1 .. m - i, NEW b \in 1 .. m - i, a < b
        PROVE  outbox'[a].id < outbox'[b].id
    <3>1. a + i \in 1 .. m /\ b + i \in 1 .. m /\ a + i < b + i
      BY <1>1, <1>2, <1>8, <2>1, SMTT(60)
    <3> QED
      BY <1>6, <3>1 DEF FreshnessIInv, OrderOK, m
  <2>2. ASSUME NEW a \in 1 .. c + 1, NEW b \in 1 .. m - i
        PROVE  popped'[a][1] < outbox'[b].id
    <3>1. b + i \in 1 .. m /\ i < b + i /\ outbox'[b] = outbox[b + i]
      BY <1>6, <1>8
    <3>2. CASE a \in 1 .. c
      BY <1>7, <3>1, <3>2 DEF FreshnessIInv, OrderOK, m, c
    <3>3. CASE a = c + 1
      BY <1>2, <1>5, <1>7, <3>1, <3>3 DEF FreshnessIInv, OrderOK, m, x
    <3> QED
      BY <1>a, <3>2, <3>3
  <2> QED
    BY <1>6, <1>7, <2>1, <2>2 DEF OrderOK
<1>11. PoppedInOrder'
  <2> SUFFICES ASSUME NEW a \in 1 .. c + 1, NEW b \in 1 .. c + 1, a < b
               PROVE  popped'[a][1] < popped'[b][1]
    BY <1>7, SMTT(60) DEF PoppedInOrder
  <2>1. a \in 1 .. c /\ (b \in 1 .. c \/ b = c + 1)
    BY <1>3, SMTT(60)
  <2>2. CASE b \in 1 .. c
    <3>1. a \in DOMAIN popped /\ b \in DOMAIN popped
      BY <1>3, <2>1, <2>2, SMTT(60) DEF c
    <3> QED
      BY <1>7, <2>1, <2>2, <3>1 DEF FreshnessIInv, FreshnessInv, PoppedInOrder
  <2>3. CASE b = c + 1
    BY <1>2, <1>5, <1>7, <2>1, <2>3 DEF FreshnessIInv, OrderOK, m, x, c
  <2> QED
    BY <2>1, <2>2, <2>3
<1>12. LateOnlyAfterATurn'
  <2> SUFFICES ASSUME NEW j \in 1 .. c + 1,
                      pushed[popped'[j][1]].deadline # 0,
                      AgeAt(popped'[j][1], popped'[j][2]) > pushed[popped'[j][1]].deadline
               PROVE  AgeAt(popped'[j][1], popped'[j][2]) >= ClockTurn
    BY <1>7, SMTT(60) DEF LateOnlyAfterATurn, AgeAt
  <2>1. CASE j \in 1 .. c
    <3>1. j \in DOMAIN popped /\ popped'[j] = popped[j]
      BY <1>3, <1>7, <2>1, SMTT(60) DEF c
    <3> QED
      BY <3>1 DEF FreshnessIInv, FreshnessInv, LateOnlyAfterATurn
  <2>2. CASE j = c + 1
    <3>1. popped'[j][1] = x /\ popped'[j][2] = out_now
      BY <1>5, <1>7, <2>2
    <3>2. is_fresh(outbox[i]) /\ pushed[x].deadline # 0 /\ out_now - pushed[x].born > pushed[x].deadline
              => out_now - pushed[x].born >= ClockTurn
      <4>1. i \in 1 .. Len(outbox)
        BY <1>2 DEF m
      <4> QED
        BY <4>1, FreshRead DEF x
    <3> QED
      BY <1>2, <3>1, <3>2 DEF AgeAt
  <2> QED
    BY <1>a, <2>1, <2>2
<1>13. FreshNeverDropped'
  <2> SUFFICES ASSUME NEW k \in DOMAIN pushed
               PROVE  InOutbox(k)' \/ WasPopped(k)' \/ Expired(k) \/ Superseded(k)
    BY DEF FreshNeverDropped, WasPopped, Expired, AgeAt, Superseded, InOutbox
  <2>1. InOutbox(k) \/ WasPopped(k) \/ Expired(k) \/ Superseded(k)
    BY DEF FreshnessIInv, FreshnessInv, FreshNeverDropped, Superseded
  <2>2. WasPopped(k) => WasPopped(k)'
    BY <1>3, <1>7, SMTT(60) DEF WasPopped, c
  <2>3. ASSUME InOutbox(k) PROVE InOutbox(k)' \/ WasPopped(k)' \/ Expired(k)
    <3>1. PICK j \in 1 .. m : outbox[j].id = k
      BY <1>1, <2>3, SMTT(60) DEF InOutbox, m
    <3>2. CASE j < i
      <4>1. j \in 1 .. Len(outbox) /\ j \notin FreshAt
        BY <1>2, <3>2, SMTT(60) DEF m
      <4>2. ~is_fresh(outbox[j])
        BY <1>1, <4>1, SMTT(60) DEF FreshAt
      <4> QED
        BY <3>1, <4>1, <4>2, FreshRead
    <3>3. CASE j = i
      <4>1. c + 1 \in DOMAIN popped' /\ popped'[c + 1][1] = k
        BY <1>3, <1>5, <1>7, <3>1, <3>3, SMTT(60) DEF x
      <4> QED
        BY <4>1 DEF WasPopped
    <3>4. CASE j > i
      <4>1. j - i \in 1 .. m - i /\ (j - i) + i = j
        BY <1>1, <1>2, <3>4, SMTT(60)
      <4>2. outbox'[j - i] = outbox[j]
        BY <1>6, <4>1
      <4> QED
        BY <1>6, <3>1, <4>1, <4>2, SMTT(60) DEF InOutbox
    <3> QED
      BY <1>1, <1>2, <3>2, <3>3, <3>4, SMTT(60)
  <2> QED
    BY <2>1, <2>2, <2>3
<1>14. FreshnessTypeOK'
  <2>1. (m - i) + (c + 1) <= n
    BY <1>1, <1>2, <1>3, SMTT(60)
  <2>2. Len(pushed) \in 0 .. MaxPushes
    BY DEF FreshnessIInv, FreshnessInv, FreshnessTypeOK
  <2> QED
    BY <1>1, <1>6, <1>7, <2>1, <2>2 DEF FreshnessTypeOK, n, P
<1> QED
  BY <1>9, <1>10, <1>11, <1>12, <1>13, <1>14 DEF FreshnessIInv, FreshnessInv

\* Deltas only grow older.
LEMMA OutClockKeeps ==
    ASSUME FreshnessIInv, OutClock
    PROVE  FreshnessIInv'
<1>1. out_now \in Nat /\ out_now' = out_now + 1 /\ out_now' \in 0 .. MaxOutTime
      /\ UNCHANGED <<outbox, pushed, popped>>
  BY FreshnessAssumption, SMTT(60) DEF FreshnessIInv, EntriesOK, OutClock
<1>2. pushed \in Seq(Pushed) /\ \A i \in 1 .. Len(pushed) : pushed[i].born <= out_now
  BY DEF FreshnessIInv, EntriesOK
<1>3. \A i \in 1 .. Len(pushed) : pushed[i].born \in Nat /\ pushed[i].deadline \in Nat
  <2> TAKE i \in 1 .. Len(pushed)
  <2>1. pushed[i] \in Pushed
    BY <1>2, SMTT(60)
  <2> QED
    BY <2>1, FreshnessAssumption DEF Pushed
<1>4. EntriesOK'
  <2>1. \A i \in 1 .. Len(pushed) : pushed[i].born <= out_now + 1
    BY <1>1, <1>2, <1>3, SMTT(60)
  <2> QED
    BY <1>1, <2>1 DEF FreshnessIInv, EntriesOK
<1>5. OrderOK'
  BY <1>1 DEF FreshnessIInv, OrderOK
<1>6. FreshNeverDropped'
  <2> SUFFICES ASSUME NEW k \in DOMAIN pushed
               PROVE  InOutbox(k) \/ WasPopped(k) \/ Expired(k)' \/ Superseded(k)
    BY <1>1 DEF FreshNeverDropped, WasPopped, Expired, AgeAt, Superseded, InOutbox
  <2>1. InOutbox(k) \/ WasPopped(k) \/ Expired(k) \/ Superseded(k)
    BY DEF FreshnessIInv, FreshnessInv, FreshNeverDropped, Superseded
  <2>2. k \in 1 .. Len(pushed)
    BY <1>2, SMTT(60)
  <2>3. Expired(k) => Expired(k)'
    BY <1>1, <1>3, <2>2, SMTT(60) DEF Expired, AgeAt
  <2> QED
    BY <2>1, <2>3
<1>7. LateOnlyAfterATurn' /\ PoppedInOrder'
  BY <1>1 DEF FreshnessIInv, FreshnessInv, LateOnlyAfterATurn, PoppedInOrder, AgeAt
<1>8. FreshnessTypeOK'
  <2> DEFINE A == (1 .. Len(pushed)) \X (0 .. out_now)
             B == (1 .. Len(pushed)) \X (0 .. out_now + 1)
  <2>1. A \subseteq B
    BY <1>1, SMTT(60)
  <2>2. popped \in Seq(A)
    BY DEF FreshnessIInv, FreshnessInv, FreshnessTypeOK
  <2> HIDE DEF A, B
  <2>3. popped \in Seq(B)
    BY <2>1, <2>2, SMTT(60)
  <2> QED
    BY <1>1, <2>3 DEF FreshnessIInv, FreshnessInv, FreshnessTypeOK, B
<1> QED
  BY <1>4, <1>5, <1>6, <1>7, <1>8 DEF FreshnessIInv, FreshnessInv

\* The outbox only lets go of stale and superseded deltas and returns the
\* fresh ones in their order.
THEOREM FreshnessCorrect == FreshnessSpec => []FreshnessInv
<1>1. FreshnessInit => FreshnessIInv
  <2> SUFFICES ASSUME FreshnessInit PROVE FreshnessIInv
    OBVIOUS
  <2>1. outbox = <<>> /\ pushed = <<>> /\ popped = <<>> /\ out_now = 0
    BY DEF FreshnessInit
  <2>2. outbox \in Seq(OutEntry) /\ Len(outbox) = 0
    BY <2>1, SMTT(60)
  <2>3. pushed \in Seq(Pushed) /\ Len(pushed) = 0
    BY <2>1, SMTT(60)
  <2>4. popped \in Seq((1 .. Len(pushed)) \X (0 .. out_now)) /\ Len(popped) = 0
    BY <2>1, SMTT(60)
  <2>5. FreshnessTypeOK
    BY <2>1, <2>2, <2>3, <2>4, FreshnessAssumption, SMTT(60) DEF FreshnessTypeOK
  <2>6. EntriesOK
    BY <2>1, <2>2, <2>3, FreshnessAssumption, SMTT(60) DEF EntriesOK
  <2>7. OrderOK
    BY <2>2, <2>4, SMTT(60) DEF OrderOK
  <2>8. LateOnlyAfterATurn /\ FreshNeverDropped /\ PoppedInOrder
    BY <2>1, SMTT(60) DEF LateOnlyAfterATurn, FreshNeverDropped, PoppedInOrder
  <2> QED
    BY <2>5, <2>6, <2>7, <2>8 DEF FreshnessIInv, FreshnessInv
<1>2. FreshnessIInv /\ [FreshnessNext]_freshnessVars => FreshnessIInv'
  <2> SUFFICES ASSUME FreshnessIInv, [FreshnessNext]_freshnessVars PROVE FreshnessIInv'
    OBVIOUS
  <2>a. outbox \in Seq(OutEntry) /\ DOMAIN outbox = 1 .. Len(outbox)
    BY SMTT(60) DEF FreshnessIInv, EntriesOK
  <2>b. \A i \in (1 .. Len(outbox)) \ FreshAt : Expired(outbox[i].id)
    <3> TAKE i \in (1 .. Len(outbox)) \ FreshAt
    <3>1. ~is_fresh(outbox[i])
      BY <2>a DEF FreshAt
    <3> QED
      BY <3>1, FreshRead
  <2>1. ASSUME NEW p \in OutPath, NEW d \in Deadline, push(p, d) PROVE FreshnessIInv'
    BY <2>1, PushKeeps
  <2>2. CASE pop
    <3>1. CASE FreshAt = {} /\ outbox' = <<>> /\ UNCHANGED popped
      <4> DEFINE S == {}
      <4>1. S \in SUBSET (1 .. Len(outbox)) /\ Cardinality(S) = 0
        BY FS_EmptySet
      <4>2. outbox' = At(outbox, S)
        BY <3>1, <4>1, SMTT(60) DEF At
      <4>3. \A i \in (1 .. Len(outbox)) \ S : Expired(outbox[i].id) \/ Superseded(outbox[i].id)
        BY <2>b, <3>1
      <4>4. UNCHANGED <<out_now, pushed, popped>>
        BY <2>2, <3>1 DEF pop
      <4> HIDE DEF S
      <4> QED
        BY <4>1, <4>2, <4>3, <4>4, DropKeeps
    <3>2. ASSUME NEW i \in FreshAt, \A j \in FreshAt : i <= j,
                 outbox' = SubSeq(outbox, i + 1, Len(outbox)),
                 popped' = Append(popped, <<outbox[i].id, out_now>>)
          PROVE  FreshnessIInv'
      <4>1. UNCHANGED <<out_now, pushed>>
        BY <2>2 DEF pop
      <4> QED
        BY <3>2, <4>1, PopKeeps
    <3> QED
      BY <2>2, <3>1, <3>2 DEF pop
  <2>3. CASE outbox_gc
    <3>1. /\ UNCHANGED <<out_now, pushed, popped>> /\ outbox' = At(outbox, FreshAt)
          /\ FreshAt \in SUBSET (1 .. Len(outbox))
      BY <2>3, <2>a DEF outbox_gc, FreshAt
    <3>2. \A i \in (1 .. Len(outbox)) \ FreshAt : Expired(outbox[i].id) \/ Superseded(outbox[i].id)
      BY <2>b
    <3> QED
      BY <3>1, <3>2, DropKeeps
  <2>4. CASE coalesce
    <3>1. /\ UNCHANGED <<out_now, pushed, popped>> /\ outbox' = At(outbox, LastOfPath)
          /\ LastOfPath \in SUBSET (1 .. Len(outbox))
      BY <2>4, <2>a DEF coalesce, LastOfPath
    <3>2. ASSUME NEW i \in (1 .. Len(outbox)) \ LastOfPath
          PROVE  Superseded(outbox[i].id)
      <4>1. PICK j \in 1 .. Len(outbox) : outbox[j].path = outbox[i].path /\ ~(j <= i)
        BY <2>a DEF LastOfPath
      <4>2. outbox[i].id < outbox[j].id
        <5>1. i < j
          BY <2>a, <4>1, SMTT(60)
        <5> QED
          BY <5>1 DEF FreshnessIInv, OrderOK
      <4>3. /\ outbox[i].id \in 1 .. Len(pushed) /\ outbox[j].id \in 1 .. Len(pushed)
            /\ pushed[outbox[j].id].path = pushed[outbox[i].id].path
        BY <4>1 DEF FreshnessIInv, EntriesOK
      <4>4. outbox[j].id \in outbox[i].id + 1 .. Len(pushed)
        BY <4>2, <4>3, SMTT(60)
      <4> QED
        BY <4>3, <4>4 DEF Superseded
    <3> QED
      BY <3>1, <3>2, DropKeeps
  <2>5. CASE OutClock
    BY <2>5, OutClockKeeps
  <2>6. CASE UNCHANGED freshnessVars
    <3>1. outbox' = outbox /\ out_now' = out_now /\ pushed' = pushed /\ popped' = popped
      BY <2>6 DEF freshnessVars
    <3>2. EntriesOK' /\ OrderOK'
      BY <3>1 DEF FreshnessIInv, EntriesOK, OrderOK
    <3>3. FreshnessTypeOK' /\ LateOnlyAfterATurn' /\ PoppedInOrder'
      BY <3>1 DEF FreshnessIInv, FreshnessInv, FreshnessTypeOK, LateOnlyAfterATurn,
                  PoppedInOrder, AgeAt
    <3>4. FreshNeverDropped'
      BY <3>1 DEF FreshnessIInv, FreshnessInv, FreshNeverDropped, InOutbox, WasPopped, Expired, AgeAt
    <3> QED
      BY <3>2, <3>3, <3>4 DEF FreshnessIInv, FreshnessInv
  <2> QED
    BY <2>1, <2>2, <2>3, <2>4, <2>5, <2>6 DEF FreshnessNext
<1>3. FreshnessIInv => FreshnessInv
  BY DEF FreshnessIInv
<1> QED
  BY <1>1, <1>2, <1>3, PTL DEF FreshnessSpec

-----------------------------------------------------------------------------
(***************************************************************************)
(* Fec: for every group size, what the decoder recovers of a full group is *)
(* the packet that it lacks.                                               *)
(***************************************************************************)

Mark == Nat \X Nat \X Nat

\* The data of all packets of group g, which is what parity has to be.
Whole(g) == UNION {groups[g + 1][i] : i \in DOMAIN groups[g + 1]}

\* Packet i of a group has marks that no other packet of it has; a group is
\* full unless it is the last one or was closed early.
GroupsOK ==
    /\ encoder \in [group_id : Nat, count : Nat, parity : SUBSET Mark]
    /\ encoder.group_id \in 0 .. GroupIds - 1
    /\ groups \in Seq(Seq(SUBSET Mark)) /\ Len(groups) >= 1
    /\ Current = Len(groups) - 1 /\ Current \in Nat
    /\ encoder.count \in 0 .. group_size - 1
    /\ encoder.count = Len(groups[Len(groups)])
    /\ encoder.parity = Whole(Current)
    /\ \A g \in 1 .. Len(groups) : \A i \in 1 .. Len(groups[g]) :
           \A x \in groups[g][i] : x[2] = i - 1
    /\ \A g \in 1 .. Len(groups) - 1 : g - 1 \notin short => Len(groups[g]) = group_size
    /\ short \subseteq 0 .. Current - 1

\* m is a data packet that was sent.
IsData(m) ==
    /\ m.index \in 0 .. group_size - 1 /\ m.group_size = group_size
    /\ m.index + 1 \in DOMAIN groups[m.group + 1]
    /\ m.data = groups[m.group + 1][m.index + 1]

\* m is the parity packet of a group that is complete.
IsParity(m) ==
    /\ m.group_size \in Nat /\ m.index = m.group_size
    /\ m.group < Current
    /\ m.data \subseteq Mark
    /\ m.group \notin short => m.data = Whole(m.group)

Packet == [group_id : Nat, group_size : Nat, index : Nat, data : SUBSET Mark, group : Nat]

\* Packets were sent, and those of one group have one group_id.
NetOK ==
    /\ fec_net \subseteq Packet
    /\ \A m \in fec_net : m.group \in 0 .. Current /\ (IsData(m) \/ IsParity(m))
    /\ \A m, n \in fec_net : m.group = n.group => m.group_id = n.group_id
    /\ \A m \in fec_net : m.group = Current => m.group_id = encoder.group_id

Entry == [index : Nat, data : SUBSET Mark]

DecoderType(d) ==
    /\ d \in [started : BOOLEAN, group_id : Nat, received : Seq(Entry),
              parity : SUBSET (SUBSET Mark), group : Nat]
    /\ d.group \in 0 .. Current
    /\ d.parity = {} \/ \E p : d.parity = {p}

\* Decoder d has packets of one group, and parity only of a complete one.
OneGroup(d) ==
    /\ \A k \in DOMAIN d.received :
           /\ d.received[k].index \in 0 .. group_size - 1
           /\ d.received[k].index + 1 \in DOMAIN groups[d.group + 1]
           /\ d.received[k].data = groups[d.group + 1][d.received[k].index + 1]
    /\ d.parity # {} =>
           /\ d.group < Current
           /\ \E p : d.parity = {p} /\ (d.group \notin short => p = Whole(d.group))

DecoderOK(d) == DecoderType(d) /\ (d.group \notin mixed => OneGroup(d))

\* The groups of which the decoder may have a packet twice.
Spoilt == repeated \cup mixed

\* No packet was received twice.
DistinctIndexes(received) ==
    \A k, l \in DOMAIN received : received[k].index = received[l].index => k = l

\* No packet in flight is one that d has.
NoneLeft(d) ==
    \A m \in fec_net, k \in DOMAIN d.received :
        m.group = d.group /\ m.index < m.group_size => m.index # d.received[k].index

RebuiltOK == RebuiltWasSent /\ \A r \in rebuilt : r.group \in 0 .. Current

\* What FecInv needs to be inductive.
FecIInv ==
    /\ GroupsOK /\ NetOK /\ DecoderOK(decoder)
    /\ decoder.group \notin Spoilt => DistinctIndexes(decoder.received) /\ NoneLeft(decoder)
    /\ RebuiltOK /\ SingleLossRebuilt

-----------------------------------------------------------------------------
(* What the decoder computes.                                              *)

\* XOR of the parity of a group and all its packets but one is that one.
LEMMA XorMissing ==
    ASSUME NEW S \in Seq(SUBSET Mark), Len(S) = group_size,
           \A j \in 1 .. Len(S) : \A x \in S[j] : x[2] = j - 1,
           NEW rec \in Seq(Entry), DistinctIndexes(rec),
           \A k \in DOMAIN rec : rec[k].index \in 0 .. group_size - 1 /\ rec[k].data = S[rec[k].index + 1],
           NEW i \in 0 .. group_size - 1, Present(rec) = (0 .. group_size - 1) \ {i}
    PROVE  XorAll(UNION {S[j] : j \in DOMAIN S}, rec) = S[i + 1]
<1>0. group_size \in Nat /\ DOMAIN S = 1 .. group_size /\ i + 1 \in 1 .. group_size
  BY FecAssumption, SMTT(60)
<1> DEFINE p == UNION {S[j] : j \in DOMAIN S}
           all == UNION {rec[k].data : k \in DOMAIN rec}
           has(x) == {k \in DOMAIN rec : x \in rec[k].data}
<1>1. all \subseteq p
  <2>1. \A k \in DOMAIN rec : rec[k].index + 1 \in DOMAIN S
    BY <1>0, SMTT(60)
  <2> QED
    BY <2>1, SMTT(60)
<1>2. ASSUME NEW x \in p, x \in S[i + 1]
      PROVE  has(x) = {}
  <2>1. \A k \in DOMAIN rec : rec[k].index # i
    BY DEF Present
  <2>2. ASSUME NEW k \in DOMAIN rec, x \in rec[k].data PROVE FALSE
    <3>1. rec[k].index + 1 \in 1 .. Len(S) /\ x \in S[rec[k].index + 1] /\ rec[k].index \in Nat
      BY <1>0, <2>2, SMTT(60)
    <3>2. x[2] = rec[k].index /\ x[2] = i
      BY <1>0, <1>2, <3>1, SMTT(60)
    <3> QED
      BY <2>1, <3>2
  <2> QED
    BY <2>2
<1>3. ASSUME NEW x \in p, x \notin S[i + 1]
      PROVE  \E k \in DOMAIN rec : has(x) = {k}
  <2>1. PICK j \in 1 .. group_size : x \in S[j]
    BY <1>0
  <2>2. j - 1 \in (0 .. group_size - 1) \ {i} /\ x[2] = j - 1
    BY <1>0, <1>3, <2>1, SMTT(60)
  <2>3. PICK k \in DOMAIN rec : rec[k].index = j - 1
    BY <2>2 DEF Present
  <2>4. x \in rec[k].data
    <3>1. rec[k].index + 1 = j
      BY <1>0, <2>1, <2>3, SMTT(60)
    <3>2. rec[k].data = S[rec[k].index + 1]
      OBVIOUS
    <3> QED
      BY <2>1, <3>1, <3>2
  <2>5. ASSUME NEW l \in DOMAIN rec, x \in rec[l].data PROVE l = k
    <3>1. rec[l].index + 1 \in 1 .. Len(S) /\ x \in S[rec[l].index + 1] /\ rec[l].index \in Nat
      BY <1>0, <2>5, SMTT(60)
    <3>2. rec[l].index = j - 1
      BY <2>2, <3>1, SMTT(60)
    <3> QED
      BY <2>3, <3>2 DEF DistinctIndexes
  <2> QED
    BY <2>4, <2>5
<1>4. \A x \in p : Cardinality(has(x)) % 2 = 0 <=> x \in S[i + 1]
  <2> SUFFICES ASSUME NEW x \in p PROVE Cardinality(has(x)) % 2 = 0 <=> x \in S[i + 1]
    OBVIOUS
  <2>1. CASE x \in S[i + 1]
    <3>1. Cardinality(has(x)) = 0
      BY <1>2, <2>1, FS_EmptySet
    <3> QED
      BY <2>1, <3>1, SMTT(60)
  <2>2. CASE x \notin S[i + 1]
    <3>1. Cardinality(has(x)) = 1
      BY <1>3, <2>2, FS_Singleton
    <3> QED
      BY <2>2, <3>1, SMTT(60)
  <2> QED
    BY <2>1, <2>2
<1>5. XorAll(p, rec) = {x \in p \cup all : (x \in p) <=> (Cardinality(has(x)) % 2 = 0)}
  BY DEF XorAll
<1>6. S[i + 1] \subseteq p
  BY <1>0
<1> HIDE DEF p, all, has
<1> QED
  BY <1>1, <1>4, <1>5, <1>6 DEF p

\* Without repetition the number of packets is the number of indexes: all
\* but one are there exactly when their number says so.
LEMMA AllButOne ==
    ASSUME NEW rec \in Seq(Entry), DistinctIndexes(rec),
           \A k \in DOMAIN rec : rec[k].index \in 0 .. group_size - 1
    PROVE  Len(rec) = group_size - 1
               <=> \E i \in 0 .. group_size - 1 : Present(rec) = (0 .. group_size - 1) \ {i}
<1>0. group_size \in Nat \ {0} /\ Len(rec) \in Nat /\ DOMAIN rec = 1 .. Len(rec)
  BY FecAssumption, SMTT(60)
<1> DEFINE all == 0 .. group_size - 1
           f == [k \in 1 .. Len(rec) |-> rec[k].index]
<1>1. IsFiniteSet(all) /\ Cardinality(all) = group_size
  BY <1>0, FS_Interval, SMTT(60)
<1>2. Present(rec) \in SUBSET all
  BY DEF Present
<1>3. f \in Bijection(1 .. Len(rec), Present(rec))
  <2>1. f \in [1 .. Len(rec) -> Present(rec)]
    BY <1>0 DEF Present
  <2>2. \A k, l \in 1 .. Len(rec) : f[k] = f[l] => k = l
    BY <1>0 DEF DistinctIndexes
  <2>3. \A y \in Present(rec) : \E k \in 1 .. Len(rec) : f[k] = y
    BY <1>0 DEF Present
  <2> HIDE DEF f
  <2> QED
    BY <2>1, <2>2, <2>3 DEF Bijection, Injection, Surjection, IsInjective
<1>4. IsFiniteSet(1 .. Len(rec)) /\ Cardinality(1 .. Len(rec)) = Len(rec)
  BY <1>0, FS_Interval, SMTT(60)
<1>5. IsFiniteSet(Present(rec)) /\ Cardinality(Present(rec)) = Len(rec)
  <2> HIDE DEF f
  <2>1. ExistsBijection(1 .. Len(rec), Present(rec))
    BY <1>3 DEF ExistsBijection
  <2> QED
    BY <1>4, <2>1, FS_Bijection
<1>6. ASSUME NEW i \in all, Present(rec) = all \ {i}
      PROVE  Len(rec) = group_size - 1
  <2> HIDE DEF all
  <2>1. Cardinality(all \ {i}) = Cardinality(all) - 1
    BY <1>1, <1>6, FS_RemoveElement
  <2> QED
    BY <1>0, <1>1, <1>5, <1>6, <2>1
<1>7. ASSUME Len(rec) = group_size - 1
      PROVE  \E i \in all : Present(rec) = all \ {i}
  <2>1. /\ IsFiniteSet(all \ Present(rec))
        /\ Cardinality(all \ Present(rec)) = Cardinality(all) - Cardinality(all \cap Present(rec))
    <3> HIDE DEF all
    <3> QED
      BY <1>1, FS_Difference
  <2> HIDE DEF all
  <2>2. all \cap Present(rec) = Present(rec)
    BY <1>2
  <2>3. Cardinality(all \ Present(rec)) = 1
    <3>1. Cardinality(all \cap Present(rec)) = group_size - 1
      BY <1>5, <1>7, <2>2
    <3>2. group_size - (group_size - 1) = 1
      BY <1>0, SMTT(60)
    <3> QED
      BY <1>1, <2>1, <3>1, <3>2
  <2>4. PICK i : all \ Present(rec) = {i}
    BY <2>1, <2>3, FS_Singleton
  <2> QED
    BY <1>2, <2>4
<1> QED
  BY <1>6, <1>7

\* What the decoder returns of a full group without repetition is the packet
\* it lacks, and it returns it as soon as it has the others and the parity.
LEMMA Recovers ==
    ASSUME GroupsOK, NEW d, DecoderType(d), OneGroup(d), DistinctIndexes(d.received), d.group \notin short
    PROVE  /\ \A r \in try_recover(d) : \E i \in DOMAIN groups[d.group + 1] :
                 r = groups[d.group + 1][i]
           /\ \A i \in 0 .. group_size - 1 :
                 d.parity # {} /\ Present(d.received) = (0 .. group_size - 1) \ {i}
                     => groups[d.group + 1][i + 1] \in try_recover(d)
<1> DEFINE g == d.group + 1
           S == groups[g]
           rec == d.received
           all == 0 .. group_size - 1
<1>1. CASE d.parity = {}
  BY <1>1 DEF try_recover
<1>2. CASE d.parity # {}
  <2>1. d.parity = {Whole(d.group)} /\ d.group < Current
    BY <1>2 DEF OneGroup
  <2>2. g \in 1 .. Len(groups) - 1 /\ g - 1 = d.group /\ g \in 1 .. Len(groups)
    BY <2>1, SMTT(60) DEF DecoderType, GroupsOK
  <2>3. S \in Seq(SUBSET Mark) /\ Len(S) = group_size /\ DOMAIN S = 1 .. group_size
    BY <2>2, SMTT(60) DEF GroupsOK
  <2>4. \A j \in 1 .. Len(S) : \A x \in S[j] : x[2] = j - 1
    BY <2>2 DEF GroupsOK
  <2>5. /\ rec \in Seq(Entry) /\ DistinctIndexes(rec)
        /\ \A k \in DOMAIN rec : rec[k].index \in all /\ rec[k].data = S[rec[k].index + 1]
    BY DEF DecoderType, OneGroup
  <2>6. Whole(d.group) = UNION {S[j] : j \in DOMAIN S}
    BY DEF Whole
  <2>7. \A i \in all : i + 1 \in DOMAIN S /\ all # all \ {i}
    <3>1. \A i \in all : i + 1 \in DOMAIN S
      BY <2>3, FecAssumption, SMTT(60)
    <3> HIDE DEF all
    <3> QED
      BY <3>1
  <2> HIDE DEF S, rec, all, g
  <2>8. ASSUME NEW i \in all, Present(rec) = all \ {i}
        PROVE  XorAll(Whole(d.group), rec) = S[i + 1]
    <3>1. XorAll(UNION {S[j] : j \in DOMAIN S}, rec) = S[i + 1]
      BY <2>3, <2>4, <2>5, <2>8, XorMissing DEF all
    <3> QED
      BY <2>6, <3>1
  <2>9. Len(rec) = group_size - 1 <=> \E i \in all : Present(rec) = all \ {i}
    BY <2>5, AllButOne DEF all
  <2>10. try_recover(d) = {XorAll(p, rec) : p \in IF Len(rec) = group_size - 1 /\ all # Present(rec)
                                                  THEN {Whole(d.group)} ELSE {}}
    BY <2>1 DEF try_recover, rec, all
  <2>11. \A r \in try_recover(d) : \E i \in DOMAIN S : r = S[i]
    <3> TAKE r \in try_recover(d)
    <3>1. Len(rec) = group_size - 1 /\ r = XorAll(Whole(d.group), rec)
      BY <2>10
    <3>2. PICK i \in all : Present(rec) = all \ {i}
      BY <2>9, <3>1
    <3> QED
      BY <2>7, <2>8, <3>1, <3>2
  <2>12. \A i \in all : Present(rec) = all \ {i} => S[i + 1] \in try_recover(d)
    <3> SUFFICES ASSUME NEW i \in all, Present(rec) = all \ {i} PROVE S[i + 1] \in try_recover(d)
      OBVIOUS
    <3>1. Len(rec) = group_size - 1 /\ all # Present(rec)
      BY <2>7, <2>9
    <3>2. XorAll(Whole(d.group), rec) \in try_recover(d)
      BY <2>10, <3>1
    <3> QED
      BY <2>8, <3>2
  <2> QED
    BY <2>11, <2>12 DEF S, rec, all, g
<1> QED
  BY <1>1, <1>2

\* A packet in flight is of the kind its index tells.
LEMMA Kinds ==
    ASSUME NetOK, GroupsOK, NEW m \in fec_net
    PROVE  /\ m \in Packet /\ m.group \in 0 .. Current
           /\ m.index >= m.group_size <=> ~(m.index < m.group_size)
           /\ m.index >= m.group_size => IsParity(m)
           /\ m.index < m.group_size => IsData(m)
<1>1. m \in Packet /\ m.group \in 0 .. Current /\ (IsData(m) \/ IsParity(m))
  BY DEF NetOK
<1>2. m.index \in Nat /\ m.group_size \in Nat
  BY <1>1 DEF Packet
<1>3. m.index >= m.group_size => ~IsData(m)
  BY <1>2, FecAssumption, SMTT(60) DEF IsData
<1>4. m.index < m.group_size => ~IsParity(m)
  BY <1>2, SMTT(60) DEF IsParity
<1> QED
  BY <1>1, <1>2, <1>3, <1>4, SMTT(60)

\* The decoder turns to the group of a packet.
LEMMA TurnsTo ==
    ASSUME DecoderType(decoder), NEW m \in Packet, m.group \in 0 .. Current,
           NEW d, d = [(IF NewGroup(decoder, m) THEN Cleared(decoder) ELSE decoder) EXCEPT
                           !.started = TRUE, !.group_id = m.group_id, !.group = m.group]
    PROVE  /\ DecoderType(d) /\ d.group = m.group
           /\ NewGroup(decoder, m) => d.received = <<>> /\ d.parity = {}
           /\ ~NewGroup(decoder, m) => d.received = decoder.received /\ d.parity = decoder.parity
<1> DEFINE c == IF NewGroup(decoder, m) THEN Cleared(decoder) ELSE decoder
           Decoders == [started : BOOLEAN, group_id : Nat, received : Seq(Entry),
                        parity : SUBSET (SUBSET Mark), group : Nat]
<1>1. decoder \in Decoders /\ <<>> \in Seq(Entry) /\ m.group_id \in Nat /\ m.group \in Nat
  BY SMTT(60) DEF DecoderType, Packet
<1>2. /\ c \in Decoders
      /\ NewGroup(decoder, m) => c.received = <<>> /\ c.parity = {}
      /\ ~NewGroup(decoder, m) => c.received = decoder.received /\ c.parity = decoder.parity
  <2>1. CASE NewGroup(decoder, m)
    BY <1>1, <2>1 DEF Cleared
  <2>2. CASE ~NewGroup(decoder, m)
    BY <1>1, <2>2
  <2> QED
    BY <2>1, <2>2
<1>3. d = [c EXCEPT !.started = TRUE, !.group_id = m.group_id, !.group = m.group]
  OBVIOUS
<1> HIDE DEF c
<1>4. /\ d \in Decoders /\ d.group = m.group /\ d.received = c.received /\ d.parity = c.parity
  BY <1>1, <1>2, <1>3
<1>5. d.parity = {} \/ \E p : d.parity = {p}
  BY <1>2, <1>4 DEF DecoderType
<1> QED
  BY <1>2, <1>4, <1>5 DEF DecoderType

\* The decoder takes in a packet.
LEMMA AdmitKeeps ==
    ASSUME GroupsOK, NetOK, DecoderType(decoder), NEW m \in fec_net
    PROVE  /\ DecoderType(Admit(decoder, m)) /\ Admit(decoder, m).group = m.group
           /\ NewGroup(decoder, m) \/ (m.group = decoder.group /\ OneGroup(decoder))
                => OneGroup(Admit(decoder, m))
<1>1. /\ m \in Packet /\ m.group \in 0 .. Current
      /\ m.index >= m.group_size <=> ~(m.index < m.group_size)
      /\ m.index >= m.group_size => IsParity(m)
      /\ m.index < m.group_size => IsData(m)
  BY Kinds
<1> DEFINE d == [(IF NewGroup(decoder, m) THEN Cleared(decoder) ELSE decoder) EXCEPT
                     !.started = TRUE, !.group_id = m.group_id, !.group = m.group]
           e == [index |-> m.index, data |-> m.data]
           Decoders == [started : BOOLEAN, group_id : Nat, received : Seq(Entry),
                        parity : SUBSET (SUBSET Mark), group : Nat]
           Clear == NewGroup(decoder, m) \/ (m.group = decoder.group /\ OneGroup(decoder))
<1>4. Admit(decoder, m) = IF m.index >= m.group_size
                          THEN [d EXCEPT !.parity = {m.data}]
                          ELSE [d EXCEPT !.received = Append(@, e)]
  BY DEF Admit
<1>2. /\ DecoderType(d) /\ d.group = m.group
      /\ NewGroup(decoder, m) => d.received = <<>> /\ d.parity = {}
      /\ ~NewGroup(decoder, m) => d.received = decoder.received /\ d.parity = decoder.parity
  <2> HIDE DEF d
  <2>1. \A x : x = d => /\ DecoderType(x) /\ x.group = m.group
                        /\ NewGroup(decoder, m) => x.received = <<>> /\ x.parity = {}
                        /\ ~NewGroup(decoder, m) => x.received = decoder.received /\ x.parity = decoder.parity
    BY <1>1, TurnsTo DEF d
  <2> QED
    BY <2>1
<1> HIDE DEF d
<1>3. d \in Decoders /\ (Clear => OneGroup(d))
  <2>1. DOMAIN <<>> = {}
    BY SMTT(60)
  <2>2. CASE NewGroup(decoder, m)
    BY <1>2, <2>1, <2>2 DEF OneGroup, DecoderType
  <2>3. CASE ~NewGroup(decoder, m)
    BY <1>2, <2>3 DEF OneGroup, DecoderType
  <2> QED
    BY <2>2, <2>3
<1> HIDE DEF Clear
<1>5. CASE m.index >= m.group_size
  <2> DEFINE a == [d EXCEPT !.parity = {m.data}]
  <2>1. /\ a.parity = {m.data} /\ a.group = d.group /\ a.received = d.received
        /\ a \in Decoders
    BY <1>1, <1>3 DEF Packet
  <2>2. m.group < Current /\ (m.group \notin short => m.data = Whole(m.group))
    BY <1>1, <1>5 DEF IsParity
  <2>3. Admit(decoder, m) = a
    BY <1>4, <1>5
  <2> HIDE DEF a
  <2>4. DecoderType(a)
    BY <1>2, <2>1 DEF DecoderType
  <2>5. Clear => OneGroup(a)
    BY <1>2, <1>3, <2>1, <2>2 DEF OneGroup
  <2> QED
    BY <1>2, <2>1, <2>3, <2>4, <2>5 DEF Clear
<1>6. CASE m.index < m.group_size
  <2> DEFINE a == [d EXCEPT !.received = Append(@, e)]
  <2>1. e \in Entry
    BY <1>1 DEF Packet, Entry
  <2>2. /\ a.parity = d.parity /\ a.group = d.group /\ a.received = Append(d.received, e)
        /\ a \in Decoders
    <3>1. Append(d.received, e) \in Seq(Entry)
      <4> HIDE DEF e
      <4> QED
        BY <1>3, <2>1, SMTT(60)
    <3> HIDE DEF e
    <3> QED
      BY <1>3, <3>1
  <2>3. Admit(decoder, m) = a
    BY <1>1, <1>4, <1>6
  <2>4. /\ e.index \in 0 .. group_size - 1
        /\ e.index + 1 \in DOMAIN groups[d.group + 1]
        /\ e.data = groups[d.group + 1][e.index + 1]
    BY <1>1, <1>2, <1>6 DEF IsData
  <2> HIDE DEF a, e
  <2>5. Clear => \A k \in DOMAIN a.received :
           /\ a.received[k].index \in 0 .. group_size - 1
           /\ a.received[k].index + 1 \in DOMAIN groups[a.group + 1]
           /\ a.received[k].data = groups[a.group + 1][a.received[k].index + 1]
    <3>1. \A k \in DOMAIN a.received : a.received[k] = e \/ (k \in DOMAIN d.received /\ a.received[k] = d.received[k])
      BY <1>3, <2>1, <2>2, SMTT(60)
    <3> QED
      BY <1>3, <2>2, <2>4, <3>1 DEF OneGroup
  <2>6. DecoderType(a)
    BY <1>2, <2>2 DEF DecoderType
  <2>7. Clear => OneGroup(a)
    BY <1>3, <2>2, <2>5 DEF OneGroup
  <2> QED
    BY <1>2, <2>2, <2>3, <2>6, <2>7 DEF Clear
<1> QED
  BY <1>1, <1>5, <1>6

\* Of a group without repetition the packet taken in is a new one, and no
\* other packet in flight is the same.
LEMMA AdmitDistinct ==
    ASSUME GroupsOK, NetOK, DecoderType(decoder), NEW m \in fec_net,
           NewGroup(decoder, m)
               \/ (m.group = decoder.group /\ DistinctIndexes(decoder.received) /\ NoneLeft(decoder))
    PROVE  /\ DistinctIndexes(Admit(decoder, m).received)
           /\ \A n \in fec_net \ {m}, k \in DOMAIN Admit(decoder, m).received :
                 n.group = m.group /\ n.index < n.group_size
                     => n.index # Admit(decoder, m).received[k].index
<1> DEFINE d == [(IF NewGroup(decoder, m) THEN Cleared(decoder) ELSE decoder) EXCEPT
                     !.started = TRUE, !.group_id = m.group_id, !.group = m.group]
           e == [index |-> m.index, data |-> m.data]
<1>0. /\ DecoderType(d)
      /\ NewGroup(decoder, m) => d.received = <<>>
      /\ ~NewGroup(decoder, m) => d.received = decoder.received
  <2> HIDE DEF d
  <2>1. m \in Packet /\ m.group \in 0 .. Current
    BY Kinds
  <2>2. \A x : x = d => /\ DecoderType(x)
                        /\ NewGroup(decoder, m) => x.received = <<>>
                        /\ ~NewGroup(decoder, m) => x.received = decoder.received
    BY <2>1, TurnsTo DEF d
  <2> QED
    BY <2>2
<1>1. /\ d.received \in Seq(Entry) /\ DistinctIndexes(d.received)
      /\ \A n \in fec_net, k \in DOMAIN d.received :
            n.group = m.group /\ n.index < n.group_size => n.index # d.received[k].index
  <2> HIDE DEF d
  <2>1. CASE NewGroup(decoder, m)
    <3>1. <<>> \in Seq(Entry) /\ DOMAIN <<>> = {}
      BY SMTT(60)
    <3> QED
      BY <1>0, <2>1, <3>1 DEF DistinctIndexes
  <2>2. CASE ~NewGroup(decoder, m)
    BY <1>0, <2>2, SMTT(60) DEF NoneLeft, DecoderType
  <2> QED
    BY <2>1, <2>2
<1>2. /\ m \in Packet
      /\ m.index >= m.group_size <=> ~(m.index < m.group_size)
      /\ m.index < m.group_size => IsData(m)
  BY Kinds
<1>3. /\ m.index >= m.group_size => Admit(decoder, m).received = d.received
      /\ m.index < m.group_size => Admit(decoder, m).received = Append(d.received, e)
  <2>1. DOMAIN d = {"started", "group_id", "received", "parity", "group"}
    BY <1>0 DEF DecoderType
  <2>2. Admit(decoder, m) = IF m.index >= m.group_size
                            THEN [d EXCEPT !.parity = {m.data}]
                            ELSE [d EXCEPT !.received = Append(@, e)]
    BY DEF Admit
  <2> HIDE DEF d, e
  <2> QED
    BY <1>2, <2>1, <2>2
<1>4. e \in Entry /\ e.index = m.index
  BY <1>2 DEF Packet, Entry
<1> HIDE DEF d, e
<1>5. CASE m.index >= m.group_size
  BY <1>1, <1>3, <1>5
<1>6. CASE m.index < m.group_size
  <2> DEFINE rec == Append(d.received, e)
             L == Len(d.received)
  <2>1. /\ DOMAIN rec = 1 .. L + 1 /\ rec[L + 1] = e /\ L \in Nat
        /\ DOMAIN d.received = 1 .. L
        /\ \A k \in 1 .. L : rec[k] = d.received[k]
    BY <1>1, <1>4, SMTT(60)
  <2>2. \A k \in 1 .. L : d.received[k].index # e.index
    BY <1>1, <1>4, <1>6, <2>1
  <2>3. ASSUME NEW n \in fec_net, n # m, n.group = m.group, n.index < n.group_size
        PROVE  n.index # e.index
    <3>1. n \in Packet /\ IsData(n) /\ IsData(m) /\ m \in Packet
      BY <1>2, <1>6, <2>3, Kinds
    <3>2. n.index = m.index => n.data = m.data /\ n.group_size = m.group_size
      BY <2>3, <3>1 DEF IsData
    <3>3. n.group_id = m.group_id
      BY <2>3 DEF NetOK
    <3>4. n.index = m.index => n = m
      BY <2>3, <3>1, <3>2, <3>3, SMTT(60) DEF Packet
    <3> QED
      BY <1>4, <2>3, <3>4
  <2>4. \A k \in 1 .. L + 1 : k = L + 1 \/ k \in 1 .. L
    BY <2>1, SMTT(60)
  <2> HIDE DEF rec, L
  <2>5. DistinctIndexes(rec)
    BY <1>1, <2>1, <2>2, <2>4 DEF DistinctIndexes
  <2>6. \A n \in fec_net \ {m}, k \in DOMAIN rec :
            n.group = m.group /\ n.index < n.group_size => n.index # rec[k].index
    BY <1>1, <2>1, <2>3, <2>4, SMTT(60)
  <2> QED
    BY <1>3, <1>6, <2>5, <2>6 DEF rec
<1> QED
  BY <1>2, <1>5, <1>6

\* A packet is decoded, and is gone from the network unless it was repeated.
LEMMA DecodeKeeps ==
    ASSUME FecIInv, NEW m \in fec_net, FecReceive(m) \/ FecRepeat(m)
    PROVE  FecIInv'
<1> DEFINE d == Admit(decoder, m)
<1>1. GroupsOK /\ NetOK /\ DecoderOK(decoder) /\ RebuiltOK
  BY DEF FecIInv
<1>2. /\ decoder' = d /\ UNCHANGED <<encoder, groups, short>>
      /\ rebuilt' = rebuilt \cup {[group |-> m.group, data |-> r] : r \in try_recover(d)}
  BY DEF FecReceive, FecRepeat, decoder_add
<1>3. /\ fec_net' \subseteq fec_net /\ repeated \subseteq repeated' /\ mixed \subseteq mixed'
      /\ m.group \notin repeated' => fec_net' \subseteq fec_net \ {m}
      /\ NewGroup(decoder, m) \/ m.group = decoder.group \/ m.group \in mixed'
  BY DEF FecReceive, FecRepeat, decoder_add
<1>4. /\ DecoderType(d) /\ d.group = m.group /\ m.group \in 0 .. Current
      /\ m.group \notin mixed' => OneGroup(d)
  <2>1. /\ DecoderType(d) /\ d.group = m.group
        /\ NewGroup(decoder, m) \/ (m.group = decoder.group /\ OneGroup(decoder)) => OneGroup(d)
    BY <1>1, AdmitKeeps DEF DecoderOK
  <2>2. m.group \in 0 .. Current
    BY <1>1, Kinds
  <2>3. m.group \notin mixed' => NewGroup(decoder, m) \/ (m.group = decoder.group /\ OneGroup(decoder))
    BY <1>1, <1>3 DEF DecoderOK
  <2> HIDE DEF d
  <2> QED
    BY <2>1, <2>2, <2>3
<1>5. ASSUME m.group \notin Spoilt'
      PROVE  /\ DistinctIndexes(d.received)
             /\ \A n \in fec_net \ {m}, k \in DOMAIN d.received :
                   n.group = m.group /\ n.index < n.group_size => n.index # d.received[k].index
  <2>1. m.group \notin repeated' /\ m.group \notin mixed' /\ m.group \notin Spoilt
    BY <1>3, <1>5 DEF Spoilt
  <2>2. NewGroup(decoder, m)
            \/ (m.group = decoder.group /\ DistinctIndexes(decoder.received) /\ NoneLeft(decoder))
    BY <1>3, <2>1 DEF FecIInv
  <2> QED
    BY <1>1, <2>2, AdmitDistinct DEF DecoderOK
<1> HIDE DEF d
<1>0. \A g : Whole(g)' = Whole(g)
  BY <1>2 DEF Whole
<1>6. GroupsOK'
  BY <1>0, <1>1, <1>2 DEF GroupsOK, Current
<1>7. NetOK'
  <2>0. Current' = Current
    BY <1>2 DEF Current
  <2>1. \A n : (IsData(n)' <=> IsData(n)) /\ (IsParity(n)' <=> IsParity(n))
    BY <1>2, <2>0, SMTT(60) DEF IsData, IsParity, Whole
  <2> QED
    BY <1>1, <1>2, <1>3, <2>0, <2>1 DEF NetOK
<1>8. DecoderOK(decoder)'
  <2>1. Current' = Current
    BY <1>2 DEF Current
  <2>2. DecoderType(decoder)'
    BY <1>2, <1>4, <2>1 DEF DecoderType
  <2>3. decoder'.group \notin mixed' => OneGroup(decoder)'
    BY <1>0, <1>2, <1>4, <2>1 DEF OneGroup
  <2> QED
    BY <2>2, <2>3 DEF DecoderOK
<1>9. (decoder.group \notin Spoilt => DistinctIndexes(decoder.received) /\ NoneLeft(decoder))'
  <2> SUFFICES ASSUME decoder'.group \notin Spoilt'
               PROVE  DistinctIndexes(decoder'.received) /\ NoneLeft(decoder)'
    BY DEF DistinctIndexes
  <2>1. m.group \notin Spoilt' /\ m.group \notin repeated'
    BY <1>2, <1>4 DEF Spoilt
  <2>2. NoneLeft(decoder)'
    BY <1>2, <1>3, <1>4, <1>5, <2>1 DEF NoneLeft
  <2> QED
    BY <1>2, <1>5, <2>1, <2>2
<1>10. RebuiltOK'
  <2>1. ASSUME NEW r \in rebuilt', r.group \notin Unclear'
        PROVE  \E i \in DOMAIN groups'[r.group + 1] : r.data = groups'[r.group + 1][i]
    <3>1. CASE r \in rebuilt
      <4>1. r.group \notin Unclear
        BY <1>2, <1>3, <2>1 DEF Unclear
      <4> QED
        BY <1>1, <1>2, <3>1, <4>1 DEF RebuiltOK, RebuiltWasSent
    <3>2. CASE r \notin rebuilt
      <4>1. PICK x \in try_recover(d) : r = [group |-> m.group, data |-> x]
        BY <1>2, <3>2
      <4>2. /\ r.group = d.group /\ r.data = x /\ d.group \notin short
            /\ m.group \notin Spoilt' /\ m.group \notin mixed'
        BY <1>2, <1>4, <2>1, <4>1 DEF Unclear, Spoilt
      <4>3. \E i \in DOMAIN groups[d.group + 1] : x = groups[d.group + 1][i]
        BY <1>1, <1>4, <1>5, <4>2, Recovers, SMTT(60)
      <4> QED
        BY <1>2, <4>2, <4>3
    <3> QED
      BY <3>1, <3>2
  <2>2. \A r \in rebuilt' : r.group \in 0 .. Current'
    <3>1. Current' = Current
      BY <1>2 DEF Current
    <3> QED
      BY <1>1, <1>2, <1>4, <3>1, SMTT(60) DEF RebuiltOK
  <2> QED
    BY <2>1, <2>2 DEF RebuiltOK, RebuiltWasSent
<1>11. SingleLossRebuilt'
  <2> SUFFICES ASSUME NEW i \in 0 .. group_size - 1,
                      decoder'.group \notin Unclear', decoder'.parity # {},
                      Present(decoder'.received) = (0 .. group_size - 1) \ {i}
               PROVE  [group |-> decoder'.group, data |-> groups'[decoder'.group + 1][i + 1]] \in rebuilt'
    BY DEF SingleLossRebuilt, Present
  <2>1. d.group \notin short /\ m.group \notin Spoilt' /\ m.group \notin mixed'
    BY <1>2, <1>4 DEF Unclear, Spoilt
  <2>2. groups[d.group + 1][i + 1] \in try_recover(d)
    BY <1>1, <1>2, <1>4, <1>5, <2>1, Recovers
  <2> QED
    BY <1>2, <1>4, <2>2
<1> QED
  BY <1>6, <1>7, <1>8, <1>9, <1>10, <1>11 DEF FecIInv

-----------------------------------------------------------------------------
(* What the encoder does.                                                  *)

\* Packets are only added to the last group, and groups after it.
GroupsGrow ==
    /\ \A g \in 1 .. Len(groups) :
          /\ g \in 1 .. Len(groups')
          /\ \A i \in DOMAIN groups[g] : i \in DOMAIN groups'[g] /\ groups'[g][i] = groups[g][i]
    /\ \A g \in 1 .. Len(groups) - 1 : groups'[g] = groups[g]

\* m is sent now: the parity of the last group, or its next packet.
SentNow(m) ==
    /\ m \in Packet /\ m.group = Current /\ m.group_id = encoder.group_id
    /\ IsParity(m)' \/ (IsData(m)' /\ m.index = encoder.count)

\* A step of the encoder keeps what is known of the decoder and the network.
LEMMA GrowKeeps ==
    ASSUME FecIInv, GroupsOK', UNCHANGED <<decoder, repeated, mixed, rebuilt>>,
           Current < Current' \/ (Current' = Current /\ encoder'.group_id = encoder.group_id), short \subseteq short', GroupsGrow,
           \A m \in fec_net' : m \in fec_net \/ SentNow(m)
    PROVE  FecIInv'
<1>1. GroupsOK /\ NetOK /\ DecoderOK(decoder) /\ RebuiltOK /\ SingleLossRebuilt
  BY DEF FecIInv
<1>2. /\ Current \in Nat /\ Current' \in Nat /\ Current <= Current' /\ group_size \in Nat
      /\ Current = Len(groups) - 1 /\ Len(groups) \in Nat
      /\ encoder.count = Len(groups[Len(groups)])
  BY <1>1, FecAssumption, SMTT(60) DEF GroupsOK
<1>3. \A g \in 0 .. Current : g \in 0 .. Current' /\ g + 1 \in 1 .. Len(groups)
  BY <1>2, SMTT(60)
<1>4. \A g \in Nat : g < Current =>
          g < Current' /\ groups'[g + 1] = groups[g + 1] /\ Whole(g)' = Whole(g)
  <2> SUFFICES ASSUME NEW g \in Nat, g < Current
               PROVE  g < Current' /\ groups'[g + 1] = groups[g + 1] /\ Whole(g)' = Whole(g)
    OBVIOUS
  <2>1. g < Current' /\ g + 1 \in 1 .. Len(groups) - 1
    BY <1>2, SMTT(60)
  <2>2. groups'[g + 1] = groups[g + 1]
    BY <2>1 DEF GroupsGrow
  <2> QED
    BY <2>1, <2>2 DEF Whole
<1>5. \A g \in 0 .. Current : \A i \in DOMAIN groups[g + 1] :
          i \in DOMAIN groups'[g + 1] /\ groups'[g + 1][i] = groups[g + 1][i]
  BY <1>3 DEF GroupsGrow
<1>6. NetOK'
  <2>1. ASSUME NEW m \in fec_net
        PROVE  m \in Packet /\ m.group \in 0 .. Current' /\ (IsData(m)' \/ IsParity(m)')
    <3>1. m \in Packet /\ m.group \in 0 .. Current /\ (IsData(m) \/ IsParity(m))
      BY <1>1 DEF NetOK
    <3>2. IsData(m) => IsData(m)'
      BY <1>5, <3>1 DEF IsData
    <3>3. IsParity(m) => IsParity(m)'
      <4>1. m.group \in Nat
        BY <3>1 DEF Packet
      <4> QED
        BY <1>4, <4>1 DEF IsParity
    <3> QED
      BY <1>3, <3>1, <3>2, <3>3
  <2>2. ASSUME NEW m, SentNow(m)
        PROVE  m \in Packet /\ m.group \in 0 .. Current' /\ (IsData(m)' \/ IsParity(m)')
    BY <1>2, <2>2, SMTT(60) DEF SentNow
  <2>3. \A m, n \in fec_net' : m.group = n.group => m.group_id = n.group_id
    BY <1>1 DEF NetOK, SentNow
  <2>4. \A m \in fec_net' : m.group = Current' => m.group_id = encoder'.group_id
    <3>1. \A m \in fec_net' : m.group \in 0 .. Current /\ (m.group = Current => m.group_id = encoder.group_id)
      BY <1>1, <1>2, SMTT(60) DEF NetOK, SentNow
    <3>2. CASE Current < Current'
      <4>1. Current' \notin 0 .. Current
        BY <1>2, <3>2, SMTT(60)
      <4> QED
        BY <3>1, <4>1
    <3>3. CASE Current' = Current /\ encoder'.group_id = encoder.group_id
      BY <3>1, <3>3
    <3> QED
      BY <3>2, <3>3
  <2> QED
    BY <2>1, <2>2, <2>3, <2>4 DEF NetOK
<1>7. DecoderOK(decoder)'
  <2>1. decoder.group \in 0 .. Current /\ decoder.group \in Nat
    BY <1>1 DEF DecoderOK, DecoderType
  <2>2. DecoderType(decoder)'
    <3>1. decoder.group \in 0 .. Current'
      BY <1>3, <2>1
    <3> QED
      BY <1>1, <3>1 DEF DecoderOK, DecoderType
  <2>3. ASSUME OneGroup(decoder) PROVE OneGroup(decoder)'
    <3>1. \A k \in DOMAIN decoder.received :
             /\ decoder.received[k].index \in 0 .. group_size - 1
             /\ decoder.received[k].index + 1 \in DOMAIN groups'[decoder.group + 1]
             /\ decoder.received[k].data = groups'[decoder.group + 1][decoder.received[k].index + 1]
      BY <1>5, <2>1, <2>3 DEF OneGroup
    <3>2. decoder.parity # {} =>
             /\ decoder.group < Current'
             /\ \E p : decoder.parity = {p} /\ (decoder.group \notin short' => p = Whole(decoder.group)')
      BY <1>4, <2>1, <2>3 DEF OneGroup
    <3> QED
      BY <3>1, <3>2 DEF OneGroup
  <2> QED
    BY <1>1, <2>2, <2>3 DEF DecoderOK
<1>8. (decoder.group \notin Spoilt => DistinctIndexes(decoder.received) /\ NoneLeft(decoder))'
  <2> SUFFICES ASSUME decoder.group \notin Spoilt
               PROVE  DistinctIndexes(decoder.received) /\ NoneLeft(decoder)'
    BY DEF DistinctIndexes, Spoilt
  <2>1. DistinctIndexes(decoder.received) /\ NoneLeft(decoder) /\ OneGroup(decoder)
    BY <1>1 DEF FecIInv, DecoderOK, Spoilt
  <2>2. ASSUME NEW m \in fec_net', NEW k \in DOMAIN decoder.received,
               m.group = decoder.group, m.index < m.group_size
        PROVE  m.index # decoder.received[k].index
    <3>1. CASE m \in fec_net
      BY <2>1, <2>2, <3>1 DEF NoneLeft
    <3>2. CASE SentNow(m)
      <4>1. m.index = encoder.count /\ m.group = Current
        BY <2>2, <3>2, SMTT(60) DEF SentNow, IsParity, Packet
      <4>2. decoder.received[k].index + 1 \in DOMAIN groups[decoder.group + 1] /\ decoder.received[k].index \in Nat
        BY <1>2, <2>1, SMTT(60) DEF OneGroup
      <4>3. decoder.group + 1 = Len(groups)
        BY <1>2, <2>2, <4>1, SMTT(60)
      <4>4. decoder.received[k].index < encoder.count
        <5>1. DOMAIN groups[Len(groups)] = 1 .. encoder.count /\ encoder.count \in Nat
          BY <1>1, <1>2, SMTT(60) DEF GroupsOK
        <5> QED
          BY <4>2, <4>3, <5>1, SMTT(60)
      <4> QED
        BY <4>1, <4>2, <4>4, SMTT(60)
    <3> QED
      BY <3>1, <3>2
  <2> QED
    BY <2>1, <2>2 DEF NoneLeft
<1>0. Unclear \subseteq Unclear'
  BY DEF Unclear
<1>9. RebuiltOK'
  BY <1>0, <1>1, <1>3, <1>5, SMTT(60) DEF RebuiltOK, RebuiltWasSent
<1>10. SingleLossRebuilt'
  <2> SUFFICES ASSUME NEW i \in 0 .. group_size - 1,
                      decoder.group \notin Unclear', decoder.parity # {},
                      Present(decoder.received) = (0 .. group_size - 1) \ {i}
               PROVE  [group |-> decoder.group, data |-> groups'[decoder.group + 1][i + 1]] \in rebuilt
    BY DEF SingleLossRebuilt, Present
  <2>1. decoder.group \in Nat /\ decoder.group < Current /\ decoder.group \notin Unclear
    BY <1>0, <1>1 DEF DecoderOK, DecoderType, OneGroup, Unclear
  <2>2. groups'[decoder.group + 1] = groups[decoder.group + 1]
    BY <1>4, <2>1
  <2> QED
    BY <1>1, <2>1, <2>2 DEF SingleLossRebuilt
<1> QED
  BY <1>6, <1>7, <1>8, <1>9, <1>10 DEF FecIInv

\* The groups with one more packet in the last.
Added(data) == [groups EXCEPT ![Len(groups)] = Append(@, data)]

\* The marks of the next packet are new to the group.
LEMMA NextPacket ==
    ASSUME GroupsOK, NEW len \in Nat
    PROVE  LET data == Bytes(Current, encoder.count, len)
           IN  /\ data \in SUBSET Mark /\ \A x \in data : x[2] = encoder.count
               /\ xor(encoder.parity, data) = encoder.parity \cup data
<1> DEFINE data == Bytes(Current, encoder.count, len)
<1>1. Current \in Nat /\ encoder.count \in Nat
  BY DEF GroupsOK
<1>2. data \in SUBSET Mark /\ \A x \in data : x[2] = encoder.count
  BY <1>1, SMTT(60) DEF Bytes, Mark
<1>3. \A x \in encoder.parity : x[2] # encoder.count
  <2> TAKE x \in encoder.parity
  <2>1. encoder.parity = Whole(Current) /\ Current + 1 = Len(groups) /\ Len(groups) \in 1 .. Len(groups)
    BY SMTT(60) DEF GroupsOK
  <2>2. PICK i \in DOMAIN groups[Len(groups)] : x \in groups[Len(groups)][i]
    BY <2>1 DEF Whole
  <2>3. groups[Len(groups)] \in Seq(SUBSET Mark) /\ encoder.count = Len(groups[Len(groups)])
    BY <2>1, SMTT(60) DEF GroupsOK
  <2>4. i \in 1 .. encoder.count
    BY <2>2, <2>3, SMTT(60)
  <2>5. x[2] = i - 1
    BY <2>1, <2>2, <2>3, <2>4 DEF GroupsOK
  <2> QED
    BY <1>1, <2>4, <2>5, SMTT(60)
<1> HIDE DEF data
<1>4. xor(encoder.parity, data) = encoder.parity \cup data
  BY <1>2, <1>3 DEF xor
<1> QED
  BY <1>2, <1>4 DEF data

\* Adding a packet changes the last group only.
LEMMA AddedFacts ==
    ASSUME GroupsOK, NEW data \in SUBSET Mark
    PROVE  /\ Added(data) \in Seq(Seq(SUBSET Mark)) /\ Len(Added(data)) = Len(groups)
           /\ \A g \in 1 .. Len(groups) - 1 : Added(data)[g] = groups[g]
           /\ Added(data)[Len(groups)] \in Seq(SUBSET Mark)
           /\ Len(Added(data)[Len(groups)]) = encoder.count + 1
           /\ Added(data)[Len(groups)][encoder.count + 1] = data
           /\ \A i \in 1 .. encoder.count : Added(data)[Len(groups)][i] = groups[Len(groups)][i]
<1> DEFINE L == Len(groups)
           last == groups[L]
           more == Append(last, data)
<1>1. L \in Nat /\ L \in 1 .. L /\ groups \in Seq(Seq(SUBSET Mark)) /\ DOMAIN groups = 1 .. L
  BY SMTT(60) DEF GroupsOK
<1>2. last \in Seq(SUBSET Mark) /\ encoder.count = Len(last) /\ encoder.count \in Nat
  BY <1>1, SMTT(60) DEF GroupsOK
<1> HIDE DEF last
<1>3. /\ more \in Seq(SUBSET Mark) /\ Len(more) = encoder.count + 1 /\ more[encoder.count + 1] = data
      /\ \A i \in 1 .. encoder.count : more[i] = last[i]
  BY <1>2, SMTT(60)
<1>4. Added(data) = [groups EXCEPT ![L] = more]
  BY DEF Added, last
<1> HIDE DEF more, L
<1>5. /\ Added(data) \in Seq(Seq(SUBSET Mark)) /\ Len(Added(data)) = L
      /\ \A g \in 1 .. L - 1 : Added(data)[g] = groups[g]
      /\ Added(data)[L] = more
  BY <1>1, <1>3, <1>4, SMTT(60)
<1> QED
  BY <1>3, <1>5 DEF L, last

\* A new group is appended.
LEMMA AppendedFacts ==
    ASSUME NEW s \in Seq(Seq(SUBSET Mark))
    PROVE  /\ Append(s, <<>>) \in Seq(Seq(SUBSET Mark)) /\ Len(Append(s, <<>>)) = Len(s) + 1
           /\ \A g \in 1 .. Len(s) : Append(s, <<>>)[g] = s[g]
           /\ Append(s, <<>>)[Len(s) + 1] = <<>>
<1>1. <<>> \in Seq(SUBSET Mark)
  BY SMTT(60)
<1> QED
  BY <1>1, SMTT(60)

\* A group is closed: its parity is sent and the next one is empty.
LEMMA CloseKeeps ==
    ASSUME FecIInv, NEW s \in Seq(Seq(SUBSET Mark)), Len(s) = Len(groups),
           \A g \in 1 .. Len(groups) - 1 : s[g] = groups[g],
           \A i \in DOMAIN groups[Len(groups)] :
               i \in DOMAIN s[Len(groups)] /\ s[Len(groups)][i] = groups[Len(groups)][i],
           \A i \in 1 .. Len(s[Len(groups)]) : \A x \in s[Len(groups)][i] : x[2] = i - 1,
           groups' = Append(s, <<>>),
           NEW id \in 0 .. GroupIds - 1, encoder' = [group_id |-> id, count |-> 0, parity |-> {}],
           short' = short \cup {Current} \/ (short' = short /\ Len(s[Len(groups)]) = group_size)
    PROVE  /\ GroupsOK' /\ GroupsGrow /\ Current < Current' /\ short \subseteq short'
           /\ groups'[Len(groups)] = s[Len(groups)]
<1> DEFINE L == Len(groups)
<1>1. GroupsOK
  BY DEF FecIInv
<1>2. /\ L \in Nat /\ L >= 1 /\ Current = L - 1 /\ Current \in Nat
      /\ groups \in Seq(Seq(SUBSET Mark))
  BY <1>1, SMTT(60) DEF GroupsOK
<1>3. /\ groups' \in Seq(Seq(SUBSET Mark)) /\ Len(groups') = L + 1
      /\ \A g \in 1 .. L : groups'[g] = s[g]
      /\ groups'[L + 1] = <<>>
  BY AppendedFacts
<1>4. /\ encoder'.group_id = id /\ encoder'.count = 0 /\ encoder'.parity = {}
      /\ Current' = L
  <2>1. Current' = Len(groups') - 1
    BY DEF Current
  <2>2. Current' = L
    BY <1>2, <1>3, <2>1, SMTT(60)
  <2> QED
    BY <2>2
<1>5. GroupsGrow
  <2>1. \A g \in 1 .. L : g = L \/ g \in 1 .. L - 1
    BY <1>2, SMTT(60)
  <2>2. \A g \in 1 .. L : g \in 1 .. L + 1 /\ (g \in 1 .. L - 1 => g \in 1 .. L)
    BY <1>2, SMTT(60)
  <2>3. \A g \in 1 .. L - 1 : groups'[g] = groups[g]
    BY <1>2, <1>3, SMTT(60)
  <2>4. L \in 1 .. L
    BY <1>2, SMTT(60)
  <2> QED
    BY <1>3, <2>1, <2>2, <2>3, <2>4, SMTT(60) DEF GroupsGrow
<1>8. \A g \in 1 .. L - 1 : groups'[g] = groups[g]
  BY <1>5 DEF GroupsGrow
<1>9. Len(groups') = L + 1 /\ \A g \in 1 .. L - 1 : g \in 1 .. L
  BY <1>2, <1>3, SMTT(60)
<1>7. short \subseteq short' /\ short' \subseteq short \cup {Current}
  OBVIOUS
<1>6. GroupsOK'
  <2>1. /\ encoder' \in [group_id : Nat, count : Nat, parity : SUBSET Mark]
        /\ encoder'.group_id \in 0 .. GroupIds - 1
    BY <1>4, FecAssumption, SMTT(60)
  <2>2. /\ Len(groups') >= 1 /\ Current' = Len(groups') - 1 /\ Current' \in Nat
        /\ encoder'.count \in 0 .. group_size - 1 /\ encoder'.count = Len(groups'[Len(groups')])
    BY <1>2, <1>3, <1>4, FecAssumption, SMTT(60)
  <2>3. encoder'.parity = Whole(Current)'
    <3>1. groups'[Current' + 1] = <<>>
      BY <1>3, <1>4, SMTT(60)
    <3>2. DOMAIN <<>> = {}
      BY SMTT(60)
    <3> QED
      BY <1>4, <3>1, <3>2, SMTT(60) DEF Whole
  <2>4. ASSUME NEW g \in 1 .. Len(groups')
        PROVE  \A i \in 1 .. Len(groups'[g]) : \A x \in groups'[g][i] : x[2] = i - 1
    <3>1. CASE g \in 1 .. L - 1
      <4>1. groups'[g] = groups[g] /\ g \in 1 .. L
        BY <1>8, <1>9, <3>1
      <4>2. \A h \in 1 .. L : \A i \in 1 .. Len(groups[h]) : \A x \in groups[h][i] : x[2] = i - 1
        BY <1>1 DEF GroupsOK
      <4> HIDE DEF L
      <4> QED
        BY <4>1, <4>2, SMTT(60)
    <3>2. CASE g = L
      BY <1>2, <1>3, <3>2, SMTT(60)
    <3>3. CASE g = L + 1
      <4>1. Len(groups'[g]) = 0
        BY <1>3, <3>3
      <4> QED
        BY <4>1, SMTT(60)
    <3>4. g \in 1 .. L - 1 \/ g = L \/ g = L + 1
      BY <1>2, <1>9, SMTT(60)
    <3> QED
      BY <3>1, <3>2, <3>3, <3>4
  <2>5. ASSUME NEW g \in 1 .. Len(groups') - 1, g - 1 \notin short'
        PROVE  Len(groups'[g]) = group_size
    <3>1. CASE g \in 1 .. L - 1
      <4>1. groups'[g] = groups[g]
        BY <3>1, <1>5 DEF GroupsGrow
      <4>2. g - 1 \notin short
        BY <1>7, <2>5
      <4> QED
        BY <1>1, <3>1, <4>1, <4>2 DEF GroupsOK
    <3>2. CASE g = L
      <4>1. Len(s[L]) = group_size
        BY <1>2, <2>5, <3>2
      <4> QED
        BY <1>2, <1>3, <3>2, <4>1, SMTT(60)
    <3> QED
      BY <1>2, <1>3, <3>1, <3>2, SMTT(60)
  <2>6. short' \subseteq 0 .. Current' - 1
    <3>1. short \subseteq 0 .. Current - 1
      BY <1>1 DEF GroupsOK
    <3>2. Current \in 0 .. Current' - 1
      BY <1>2, <1>4, SMTT(60)
    <3>3. 0 .. Current - 1 \subseteq 0 .. Current' - 1
      BY <1>2, <1>4, SMTT(60)
    <3> QED
      BY <1>7, <3>1, <3>2, <3>3
  <2> QED
    BY <1>3, <2>1, <2>2, <2>3, <2>4, <2>5, <2>6 DEF GroupsOK
<1> QED
  BY <1>2, <1>3, <1>4, <1>5, <1>6, <1>7, SMTT(60)

\* The next group_id, or that of reset().
LEMMA NextId ==
    ASSUME GroupsOK
    PROVE  (encoder.group_id + 1) % GroupIds \in 0 .. GroupIds - 1 /\ 0 \in 0 .. GroupIds - 1
  BY FecAssumption, SMTT(60) DEF GroupsOK

\* A group is closed early, by flush with a parity packet and by reset without.
LEMMA FecFlushKeeps ==
    ASSUME FecIInv, encoder_flush \/ encoder_reset
    PROVE  FecIInv'
<1>1. GroupsOK
  BY DEF FecIInv
<1>2. /\ groups' = Append(groups, <<>>) /\ short' = short \cup {Current}
      /\ \E id \in 0 .. GroupIds - 1 : encoder' = [group_id |-> id, count |-> 0, parity |-> {}]
      /\ fec_net' \subseteq fec_net \cup {Parity(encoder, encoder.count)}
      /\ UNCHANGED <<decoder, repeated, mixed, rebuilt>>
  BY <1>1, NextId DEF encoder_flush, encoder_reset, NextGroup, NewEncoder
<1>3. /\ groups \in Seq(Seq(SUBSET Mark)) /\ Current \in Nat /\ encoder.count \in Nat
      /\ encoder.parity \in SUBSET Mark /\ encoder.group_id \in Nat
      /\ \A i \in 1 .. Len(groups[Len(groups)]) : \A x \in groups[Len(groups)][i] : x[2] = i - 1
  <2>1. Len(groups) \in 1 .. Len(groups)
    BY <1>1, SMTT(60) DEF GroupsOK
  <2>2. \A i \in 1 .. Len(groups[Len(groups)]) : \A x \in groups[Len(groups)][i] : x[2] = i - 1
    BY <1>1, <2>1 DEF GroupsOK
  <2> QED
    BY <1>1, <2>2 DEF GroupsOK
<1>4. GroupsOK' /\ GroupsGrow /\ Current < Current' /\ short \subseteq short'
  <2> DEFINE s == groups
  <2>1. \A i \in DOMAIN groups[Len(groups)] :
            i \in DOMAIN s[Len(groups)] /\ s[Len(groups)][i] = groups[Len(groups)][i]
    OBVIOUS
  <2>2. /\ s \in Seq(Seq(SUBSET Mark)) /\ Len(s) = Len(groups)
        /\ \A g \in 1 .. Len(groups) - 1 : s[g] = groups[g]
        /\ \A i \in 1 .. Len(s[Len(groups)]) : \A x \in s[Len(groups)][i] : x[2] = i - 1
        /\ groups' = Append(s, <<>>)
    BY <1>2, <1>3
  <2>3. PICK id \in 0 .. GroupIds - 1 : encoder' = [group_id |-> id, count |-> 0, parity |-> {}]
    BY <1>2
  <2> HIDE DEF s
  <2> QED
    BY <1>2, <2>1, <2>2, <2>3, CloseKeeps
<1>5. \A m : m = Parity(encoder, encoder.count) => SentNow(m)
  <2> SUFFICES ASSUME NEW m, m = Parity(encoder, encoder.count) PROVE SentNow(m)
    OBVIOUS
  <2>1. /\ m.group = Current /\ m.group_size = encoder.count /\ m.index = encoder.count
        /\ m.data = encoder.parity /\ m \in Packet /\ m.group_id = encoder.group_id
    BY <1>3 DEF Parity, Packet
  <2>2. m.group \in short'
    BY <1>2, <2>1
  <2>3. m.group_size \in Nat /\ m.index = m.group_size /\ m.data \subseteq Mark
    BY <1>3, <2>1
  <2>4. m.group < Current'
    BY <1>4, <2>1
  <2>5. IsParity(m)'
    BY <2>2, <2>3, <2>4 DEF IsParity
  <2> QED
    BY <2>1, <2>5 DEF SentNow
<1>6. \A m \in fec_net' : m \in fec_net \/ SentNow(m)
  BY <1>2, <1>5
<1> QED
  BY <1>2, <1>4, <1>6, GrowKeeps

\* A packet is sent, and the parity of its group if it is the last one.
LEMMA AddKeeps ==
    ASSUME FecIInv, NEW len \in FecLen, encoder_add(len)
    PROVE  FecIInv'
<1> DEFINE L == Len(groups)
           c == encoder.count
           data == Bytes(Current, c, len)
           enc == [group_id |-> encoder.group_id, count |-> c + 1, parity |-> xor(encoder.parity, data)]
           packet == [group_id |-> enc.group_id, group_size |-> group_size, index |-> c, data |-> data,
                      group |-> Current]
           s == Added(data)
<1>1. GroupsOK /\ len \in Nat
  BY FecAssumption DEF FecIInv
<1>2. /\ L \in Nat /\ L >= 1 /\ Current = L - 1 /\ Current \in Nat /\ c \in Nat
      /\ c \in 0 .. group_size - 1 /\ group_size \in Nat
      /\ encoder \in [group_id : Nat, count : Nat, parity : SUBSET Mark]
      /\ c = Len(groups[L]) /\ groups[L] \in Seq(SUBSET Mark)
      /\ encoder.parity = UNION {groups[L][i] : i \in DOMAIN groups[L]}
  BY <1>1, FecAssumption, SMTT(60) DEF GroupsOK, Whole
<1>3. /\ data \in SUBSET Mark /\ \A x \in data : x[2] = c
      /\ xor(encoder.parity, data) = encoder.parity \cup data
  BY <1>1, NextPacket
<1>4. enc.group_id = encoder.group_id /\ enc.count = c + 1 /\ enc.parity = encoder.parity \cup data
  BY <1>2, <1>3
<1>5. /\ s \in Seq(Seq(SUBSET Mark)) /\ Len(s) = L
      /\ \A g \in 1 .. L - 1 : s[g] = groups[g]
      /\ s[L] \in Seq(SUBSET Mark) /\ Len(s[L]) = c + 1 /\ s[L][c + 1] = data
      /\ \A i \in 1 .. c : s[L][i] = groups[L][i]
  BY <1>1, <1>3, AddedFacts
<1>6. /\ UNCHANGED <<decoder, short, repeated, mixed, rebuilt>>
      /\ enc.count >= group_size => /\ encoder' = [group_id |-> (encoder.group_id + 1) % GroupIds, count |-> 0, parity |-> {}]
                                    /\ fec_net' = fec_net \cup {packet, Parity(enc, group_size)}
                                    /\ groups' = Append(s, <<>>)
      /\ ~(enc.count >= group_size) => /\ encoder' = enc
                                       /\ fec_net' = fec_net \cup {packet}
                                       /\ groups' = s
  <2>1. NextGroup(enc) = [group_id |-> (encoder.group_id + 1) % GroupIds, count |-> 0, parity |-> {}]
    BY <1>4 DEF NextGroup
  <2> QED
    BY <2>1 DEF encoder_add, Added
<1>7. /\ packet \in Packet /\ packet.group = Current /\ packet.group_id = encoder.group_id /\ packet.group_size = group_size
      /\ packet.index = c /\ packet.data = data
  BY <1>2, <1>3, <1>4 DEF Packet
<1>8. enc \in [group_id : Nat, count : Nat, parity : SUBSET Mark]
  BY <1>2, <1>3, SMTT(60)
<1> HIDE DEF data, enc, packet, s, L
<1>9. DOMAIN s[L] = 1 .. c + 1 /\ DOMAIN groups[L] = 1 .. c
  BY <1>2, <1>5, SMTT(60)
<1>10. \A i \in DOMAIN groups[L] : i \in DOMAIN s[L] /\ s[L][i] = groups[L][i]
  BY <1>2, <1>5, <1>9, SMTT(60)
<1>11. \A i \in 1 .. Len(s[L]) : \A x \in s[L][i] : x[2] = i - 1
  <2> TAKE i \in 1 .. Len(s[L])
  <2>1. CASE i = c + 1
    BY <1>2, <1>3, <1>5, <2>1, SMTT(60)
  <2>2. CASE i # c + 1
    <3>1. i \in 1 .. c /\ L \in 1 .. L
      BY <1>2, <1>5, <2>2, SMTT(60)
    <3>2. s[L][i] = groups[L][i]
      BY <1>5, <3>1
    <3>3. \A x \in groups[L][i] : x[2] = i - 1
      BY <1>1, <1>2, <3>1 DEF GroupsOK, L
    <3> QED
      BY <3>2, <3>3
  <2> QED
    BY <2>1, <2>2
<1>12. UNION {s[L][i] : i \in DOMAIN s[L]} = encoder.parity \cup data
  <2>1. \A i \in 1 .. c + 1 : i = c + 1 \/ i \in 1 .. c
    BY <1>2, SMTT(60)
  <2>2. c + 1 \in 1 .. c + 1 /\ \A i \in 1 .. c : i \in 1 .. c + 1
    BY <1>2, SMTT(60)
  <2>3. ASSUME NEW x, x \in UNION {s[L][i] : i \in DOMAIN s[L]} PROVE x \in encoder.parity \cup data
    <3>1. PICK i \in DOMAIN s[L] : x \in s[L][i]
      BY <2>3
    <3>2. CASE i = c + 1
      BY <1>5, <3>1, <3>2
    <3>3. CASE i \in 1 .. c
      <4>1. x \in groups[L][i] /\ i \in DOMAIN groups[L]
        BY <1>5, <1>9, <3>1, <3>3
      <4> QED
        BY <1>2, <4>1
    <3> QED
      BY <1>9, <2>1, <3>1, <3>2, <3>3
  <2>4. ASSUME NEW x, x \in encoder.parity \cup data PROVE x \in UNION {s[L][i] : i \in DOMAIN s[L]}
    <3>1. CASE x \in data
      BY <1>5, <1>9, <2>2, <3>1
    <3>2. CASE x \in encoder.parity
      <4>1. PICK i \in DOMAIN groups[L] : x \in groups[L][i]
        BY <1>2, <3>2, SMTT(60)
      <4> QED
        BY <1>10, <4>1
    <3> QED
      BY <2>4, <3>1, <3>2
  <2> QED
    BY <2>3, <2>4
<1>13. CASE enc.count >= group_size
  <2>0. c + 1 = group_size
    BY <1>2, <1>4, <1>13, SMTT(60)
  <2>1. /\ encoder' = [group_id |-> (encoder.group_id + 1) % GroupIds, count |-> 0, parity |-> {}]
        /\ fec_net' = fec_net \cup {packet, Parity(enc, group_size)}
        /\ groups' = Append(s, <<>>) /\ short' = short /\ UNCHANGED <<decoder, repeated, mixed, rebuilt>>
    BY <1>6, <1>13
  <2>2. /\ GroupsOK' /\ GroupsGrow /\ Current < Current' /\ short \subseteq short'
        /\ groups'[L] = s[L]
    <3>1. Len(s[L]) = group_size
      BY <1>5, <2>0
    <3>2. (encoder.group_id + 1) % GroupIds \in 0 .. GroupIds - 1
      BY <1>1, NextId
    <3> QED
      BY <1>5, <1>10, <1>11, <2>1, <3>1, <3>2, CloseKeeps DEF L
  <2>3. \A m : m = packet => SentNow(m)
    <3> SUFFICES ASSUME NEW m, m = packet PROVE SentNow(m)
      OBVIOUS
    <3>1. m.index \in 0 .. group_size - 1 /\ m.group_size = group_size /\ m.group + 1 = L
          /\ m.index = c /\ m.data = data /\ m \in Packet /\ m.group = Current /\ m.group_id = encoder.group_id
      BY <1>2, <1>7, SMTT(60)
    <3>2. m.index + 1 \in DOMAIN groups'[L] /\ groups'[L][c + 1] = data
      BY <1>2, <1>5, <1>9, <2>2, <3>1, SMTT(60)
    <3>3. IsData(m)'
      BY <3>1, <3>2 DEF IsData
    <3> QED
      BY <3>1, <3>3 DEF SentNow
  <2>4. \A m : m = Parity(enc, group_size) => SentNow(m)
    <3> SUFFICES ASSUME NEW m, m = Parity(enc, group_size) PROVE SentNow(m)
      OBVIOUS
    <3>1. /\ m.group = Current /\ m.group_size = group_size /\ m.index = group_size
          /\ m.data = encoder.parity \cup data /\ m \in Packet /\ m.group_id = encoder.group_id
      BY <1>2, <1>3, <1>4 DEF Parity, Packet
    <3>2. m.data = Whole(m.group)'
      <4>1. m.group + 1 = L
        BY <1>2, <3>1, SMTT(60)
      <4> QED
        BY <1>12, <2>2, <3>1, <4>1, SMTT(60) DEF Whole
    <3>3. m.group_size \in Nat /\ m.index = m.group_size /\ m.data \subseteq Mark
      BY <1>2, <1>3, <3>1
    <3>4. m.group < Current'
      BY <2>2, <3>1
    <3>5. IsParity(m)'
      BY <3>2, <3>3, <3>4 DEF IsParity
    <3> QED
      BY <3>1, <3>5 DEF SentNow
  <2>5. \A m \in fec_net' : m \in fec_net \/ SentNow(m)
    BY <2>1, <2>3, <2>4
  <2> QED
    BY <2>1, <2>2, <2>5, GrowKeeps
<1>14. CASE ~(enc.count >= group_size)
  <2>0. c + 1 \in 0 .. group_size - 1
    BY <1>2, <1>4, <1>14, SMTT(60)
  <2>1. /\ encoder' = enc /\ fec_net' = fec_net \cup {packet}
        /\ groups' = s /\ short' = short /\ UNCHANGED <<decoder, repeated, mixed, rebuilt>>
    BY <1>6, <1>14
  <2>2. /\ Len(groups') = L /\ Current' = Current /\ encoder'.count = c + 1
        /\ encoder'.group_id = encoder.group_id
    <3>1. Current' = Len(groups') - 1 /\ Current = L - 1
      BY DEF Current, L
    <3> QED
      BY <1>4, <1>5, <2>1, <3>1
  <2>3. GroupsGrow
    <3>1. ASSUME NEW g \in 1 .. L
          PROVE  \A i \in DOMAIN groups[g] : i \in DOMAIN groups'[g] /\ groups'[g][i] = groups[g][i]
      <4>1. CASE g = L
        BY <1>10, <2>1, <4>1
      <4>2. CASE g # L
        <5>1. g \in 1 .. L - 1
          BY <1>2, <4>2, SMTT(60)
        <5> QED
          BY <1>5, <2>1, <5>1
      <4> QED
        BY <4>1, <4>2
    <3> QED
      BY <1>5, <2>1, <2>2, <3>1 DEF GroupsGrow, L
  <2>4. GroupsOK'
    <3>1. /\ encoder' \in [group_id : Nat, count : Nat, parity : SUBSET Mark]
          /\ encoder'.group_id \in 0 .. GroupIds - 1
      BY <1>1, <1>8, <2>1, <2>2 DEF GroupsOK
    <3>2. /\ groups' \in Seq(Seq(SUBSET Mark)) /\ Len(groups') >= 1 /\ Current' = Len(groups') - 1
          /\ Current' \in Nat
      BY <1>2, <1>5, <2>1, <2>2
    <3>3. encoder'.count \in 0 .. group_size - 1 /\ encoder'.count = Len(groups'[Len(groups')])
      BY <1>5, <2>0, <2>1, <2>2
    <3>4. encoder'.parity = Whole(Current)'
      <4>1. Current' + 1 = L
        BY <1>2, <2>2, SMTT(60)
      <4> QED
        BY <1>4, <1>12, <2>1, <4>1, SMTT(60) DEF Whole
    <3>5. \A g \in 1 .. L : g = L \/ g \in 1 .. L - 1
      BY <1>2, SMTT(60)
    <3>6. \A g \in 1 .. Len(groups') : \A i \in 1 .. Len(groups'[g]) :
             \A x \in groups'[g][i] : x[2] = i - 1
      <4> SUFFICES ASSUME NEW g \in 1 .. L PROVE \A i \in 1 .. Len(s[g]) : \A x \in s[g][i] : x[2] = i - 1
        BY <2>1, <2>2
      <4>1. CASE g = L
        BY <1>11, <4>1
      <4>2. CASE g \in 1 .. L - 1
        <5>1. s[g] = groups[g]
          BY <1>5, <4>2
        <5>2. \A i \in 1 .. Len(groups[g]) : \A x \in groups[g][i] : x[2] = i - 1
          BY <1>1 DEF GroupsOK, L
        <5> QED
          BY <5>1, <5>2
      <4> QED
        BY <3>5, <4>1, <4>2
    <3>7. \A g \in 1 .. L - 1 : g - 1 \notin short' => Len(groups'[g]) = group_size
      BY <1>1, <1>5, <2>1 DEF GroupsOK, L
    <3>8. short' \subseteq 0 .. Current' - 1
      BY <1>1, <2>1, <2>2 DEF GroupsOK
    <3> QED
      BY <2>2, <3>1, <3>2, <3>3, <3>4, <3>6, <3>7, <3>8 DEF GroupsOK
  <2>5. \A m : m = packet => SentNow(m)
    <3> SUFFICES ASSUME NEW m, m = packet PROVE SentNow(m)
      OBVIOUS
    <3>1. m.index \in 0 .. group_size - 1 /\ m.group_size = group_size /\ m.group + 1 = L
          /\ m.index = c /\ m.data = data /\ m \in Packet /\ m.group = Current /\ m.group_id = encoder.group_id
      BY <1>2, <1>7, SMTT(60)
    <3>2. m.index + 1 \in DOMAIN groups'[L] /\ groups'[L][c + 1] = data
      BY <1>2, <1>5, <1>9, <2>1, <3>1, SMTT(60)
    <3>3. IsData(m)'
      BY <3>1, <3>2 DEF IsData
    <3> QED
      BY <3>1, <3>3 DEF SentNow
  <2>6. \A m \in fec_net' : m \in fec_net \/ SentNow(m)
    BY <2>1, <2>5
  <2> QED
    BY <2>1, <2>2, <2>3, <2>4, <2>6, GrowKeeps
<1> QED
  BY <1>13, <1>14

\* The start.
LEMMA FecStarts ==
    ASSUME FecInit
    PROVE  FecIInv
<1> USE DEF FecInit
<1>0. group_size \in Nat /\ group_size >= 2
  BY FecAssumption, SMTT(60)
<1>1. /\ encoder.group_id = 0 /\ encoder.count = 0 /\ encoder.parity = {}
      /\ encoder \in [group_id : Nat, count : Nat, parity : SUBSET Mark]
  BY DEF NewEncoder
<1>2. /\ decoder.group = 0 /\ decoder.received = <<>> /\ decoder.parity = {} /\ decoder.started = FALSE
      /\ decoder \in [started : BOOLEAN, group_id : Nat, received : Seq(Entry),
                      parity : SUBSET (SUBSET Mark), group : Nat]
  BY SMTT(60) DEF NewDecoder
<1>3. Len(groups) = 1 /\ groups[1] = <<>> /\ groups \in Seq(Seq(SUBSET Mark)) /\ Len(groups[1]) = 0
  <2>1. <<>> \in Seq(SUBSET Mark) /\ Len(<<>>) = 0
    BY SMTT(60)
  <2> QED
    BY <2>1, SMTT(60)
<1>4. Current = 0 /\ Whole(Current) = {} /\ 0 \in 0 .. GroupIds - 1
  <2>1. Current = 0 /\ 0 \in 0 .. GroupIds - 1
    BY <1>3, FecAssumption, SMTT(60) DEF Current
  <2>2. DOMAIN groups[1] = {} /\ 0 + 1 = 1
    BY <1>3, SMTT(60)
  <2> QED
    BY <2>1, <2>2 DEF Whole
<1>5. GroupsOK
  BY <1>0, <1>1, <1>3, <1>4, SMTT(60) DEF GroupsOK
<1>6. NetOK
  BY DEF NetOK
<1>7. DecoderType(decoder) /\ OneGroup(decoder) /\ DistinctIndexes(decoder.received) /\ NoneLeft(decoder)
  BY <1>2, <1>4, SMTT(60) DEF DecoderType, OneGroup, DistinctIndexes, NoneLeft
<1>8. RebuiltOK /\ SingleLossRebuilt
  BY <1>2 DEF RebuiltOK, RebuiltWasSent, SingleLossRebuilt
<1> QED
  BY <1>5, <1>6, <1>7, <1>8 DEF FecIInv, DecoderOK

\* reset() of the decoder: it has nothing.
LEMMA DecoderResetKeeps ==
    ASSUME FecIInv, decoder_reset
    PROVE  FecIInv'
<1> DEFINE c == Cleared(decoder)
<1>1. /\ decoder' = c /\ UNCHANGED <<encoder, fec_net, groups, short, repeated, mixed, rebuilt>>
      /\ Current' = Current
  BY DEF decoder_reset, Current
<1>2. /\ c \in [started : BOOLEAN, group_id : Nat, received : Seq(Entry),
                parity : SUBSET (SUBSET Mark), group : Nat]
      /\ c.received = <<>> /\ c.parity = {} /\ c.group = decoder.group
  <2>1. <<>> \in Seq(Entry)
    BY SMTT(60)
  <2> QED
    BY <2>1 DEF Cleared, FecIInv, DecoderOK, DecoderType
<1> HIDE DEF c
<1>3. \A g : Whole(g)' = Whole(g)
  BY <1>1 DEF Whole
<1>4. GroupsOK' /\ NetOK'
  <2>1. \A n : (IsData(n)' <=> IsData(n)) /\ (IsParity(n)' <=> IsParity(n))
    BY <1>1, <1>3 DEF IsData, IsParity
  <2>2. GroupsOK'
    BY <1>1, <1>3 DEF FecIInv, GroupsOK
  <2> QED
    BY <1>1, <2>1, <2>2 DEF FecIInv, NetOK
<1>5. DOMAIN <<>> = {}
  BY SMTT(60)
<1>6. DecoderType(decoder)'
  BY <1>1, <1>2 DEF DecoderType, FecIInv, DecoderOK
<1>7. OneGroup(decoder)' /\ DistinctIndexes(decoder'.received) /\ NoneLeft(decoder)'
  BY <1>1, <1>2, <1>5 DEF OneGroup, DistinctIndexes, NoneLeft
<1>8. RebuiltOK'
  BY <1>1 DEF FecIInv, RebuiltOK, RebuiltWasSent, Unclear
<1>9. SingleLossRebuilt'
  BY <1>1, <1>2 DEF SingleLossRebuilt
<1> QED
  BY <1>4, <1>6, <1>7, <1>8, <1>9 DEF FecIInv, DecoderOK, DistinctIndexes

\* A loss takes a packet from the network.
LEMMA LoseKeeps ==
    ASSUME FecIInv, NEW m \in fec_net, FecLose(m)
    PROVE  FecIInv'
<1>1. /\ fec_net' = fec_net \ {m}
      /\ UNCHANGED <<encoder, decoder, groups, short, repeated, mixed, rebuilt>>
  BY DEF FecLose
<1>2. \A g : Whole(g)' = Whole(g)
  BY <1>1 DEF Whole
<1>3. GroupsOK'
  BY <1>1, <1>2 DEF FecIInv, GroupsOK, Current
<1>4. Current' = Current /\ encoder'.group_id = encoder.group_id /\ short \subseteq short'
  BY <1>1 DEF Current
<1>5. GroupsGrow
  BY <1>1 DEF GroupsGrow
<1>6. \A x \in fec_net' : x \in fec_net \/ SentNow(x)
  BY <1>1
<1> QED
  BY <1>1, <1>3, <1>4, <1>5, <1>6, GrowKeeps

\* Every step keeps the inductive invariant.
LEMMA FecStep ==
    ASSUME FecIInv, [FecNext]_fecVars
    PROVE  FecIInv'
<1>1. CASE encoder_reset \/ decoder_reset
  BY <1>1, FecFlushKeeps, DecoderResetKeeps
<1>2. CASE \E len \in FecLen : encoder_add(len)
  BY <1>2, AddKeeps
<1>3. CASE encoder_flush
  BY <1>3, FecFlushKeeps
<1>4. CASE \E m \in fec_net : FecReceive(m) \/ FecRepeat(m) \/ FecLose(m)
  BY <1>4, DecodeKeeps, LoseKeeps
<1>5. CASE UNCHANGED fecVars
  <2>1. /\ UNCHANGED <<decoder, repeated, mixed, rebuilt>>
        /\ encoder' = encoder /\ groups' = groups /\ short' = short /\ fec_net' = fec_net
    BY <1>5 DEF fecVars
  <2>2. \A g : Whole(g)' = Whole(g)
    BY <2>1 DEF Whole
  <2>3. GroupsOK'
    BY <2>1, <2>2 DEF FecIInv, GroupsOK, Current
  <2>4. Current' = Current /\ encoder'.group_id = encoder.group_id /\ short \subseteq short'
    BY <2>1 DEF Current
  <2>5. GroupsGrow
    BY <2>1 DEF GroupsGrow
  <2>6. \A x \in fec_net' : x \in fec_net \/ SentNow(x)
    BY <2>1
  <2> QED
    BY <2>1, <2>3, <2>4, <2>5, <2>6, GrowKeeps
<1> QED
  BY <1>1, <1>2, <1>3, <1>4, <1>5 DEF FecNext

\* The inductive invariant says what the runs check.
LEMMA FecIInvImplies ==
    ASSUME FecIInv
    PROVE  FecInv
<1>1. GroupsOK /\ NetOK /\ DecoderOK(decoder)
  BY DEF FecIInv
<1>2. \A m \in fec_net : m.index < m.group_size => m.data = groups[m.group + 1][m.index + 1]
  BY <1>1, SMTT(60) DEF NetOK, IsData, IsParity
<1>3. Cardinality(decoder.parity) <= 1
  <2>1. CASE decoder.parity = {}
    BY <2>1, FS_EmptySet, SMTT(60)
  <2>2. CASE decoder.parity # {}
    <3>1. PICK p : decoder.parity = {p}
      BY <1>1, <2>2 DEF DecoderOK, DecoderType
    <3>2. Cardinality({p}) = 1
      BY FS_Singleton
    <3> QED
      BY <3>1, <3>2, SMTT(60)
  <2> QED
    BY <2>1, <2>2
<1>4. FecTypeOK
  BY <1>1, <1>2, <1>3 DEF FecTypeOK, GroupsOK, DecoderOK, OneGroup
<1> QED
  BY <1>4 DEF FecInv, FecIInv, RebuiltOK

\* Forward error correction is correct for every group size, any number of
\* group ids, any lengths of packets, losses, reorderings and resets of either
\* end: when the decoder has the parity and all but one packet of a group that
\* was not closed early, repeated or mixed up with another of the same id, it
\* has returned the missing one; and of such a group it returns nothing else
\* (FecDecoder::try_recover).
THEOREM FecCorrect == FecSpec => []FecInv
<1>1. FecInit => FecIInv
  BY FecStarts
<1>2. FecIInv /\ [FecNext]_fecVars => FecIInv'
  BY FecStep
<1>3. FecIInv => FecInv
  BY FecIInvImplies
<1> QED
  BY <1>1, <1>2, <1>3, PTL DEF FecSpec
=============================================================================
