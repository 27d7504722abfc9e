---------------------------- MODULE RegionProofs ----------------------------
(***************************************************************************)
(* What a region is guarded and watched by, and the replicated register:   *)
(* the store of capabilities, the tables of subscriptions and of           *)
(* observers, and the last writer that wins.                               *)
(***************************************************************************)
EXTENDS LwwReplication, Capabilities, Subscriptions, Observers, TLAPS

\* A leaf that names no prover is left to Zenon; the others need arithmetic.
USE ZenonT(60)

-----------------------------------------------------------------------------
(***************************************************************************)
(* Capabilities, for any limits, issuers and paths, and chains of          *)
(* derivations of any length: a derived token has no permission, lifetime  *)
(* or depth of pattern that the token it descends from did not have, and   *)
(* gc() is not noticed on a clock that has reached its time.               *)
(***************************************************************************)

\* A token has no permission, lifetime or depth of pattern that its root has not.
Within(t) ==
    /\ t.limits.permissions \subseteq t.root.permissions
    /\ t.root.expiry # 0 => t.limits.expiry \in 1 .. t.root.expiry
    /\ Len(t.limits.pattern) = Len(t.root.pattern)

\* The inductive invariant: the store holds copies of tokens in hand, and it is
\* for the tokens in hand, which attenuate() takes as parents even after they
\* are revoked, that the properties have to be kept.  What gc() removed has
\* expired on every clock that had reached its time.
InHand == \A id \in DOMAIN tokens : tokens[id] \in hand
HandGood == \A t \in hand : Within(t)
GoneExpired == \A c \in CapConn : \A l \in collected[c] : is_expired(l, conn_us[c])

CapIInv == CapTypeOK /\ InHand /\ HandGood /\ GoneExpired

-----------------------------------------------------------------------------
(* Tokens.                                                                 *)

\* What the proofs use of the limits of a token.
LEMMA LimitFacts ==
    ASSUME NEW l \in CapLimits
    PROVE  l.expiry \in Nat
  BY CapAssumption, SMTT(60)

\* A new token, and its fields.
LEMMA TokenFacts ==
    ASSUME NEW id \in Nat \ {0}, NEW i \in CapIssuer, NEW l \in CapLimits, NEW r \in CapLimits
    PROVE  LET t == [token_id |-> id, issuer |-> i, limits |-> l, root |-> r]
           IN  /\ t \in Token
               /\ t.token_id = id /\ t.issuer = i /\ t.limits = l /\ t.root = r
  BY DEF Token

\* A token with the limits of its root is within them.
LEMMA RootWithin ==
    ASSUME NEW t \in Token, t.limits = t.root
    PROVE  Within(t)
<1>1. t.root \in CapLimits
  BY DEF Token
<1>2. t.root.expiry \in Nat
  BY <1>1, LimitFacts
<1> QED
  BY <1>2, SMTT(60) DEF Within

\* The checks of attenuate() carry the limits of the root over to the child.
LEMMA ChildWithin ==
    ASSUME NEW t \in Token, NEW c \in Token, Within(t), narrower(t.limits, c.limits),
           c.root = t.root
    PROVE  Within(c)
<1>1. t.root.expiry \in Nat /\ t.limits.expiry \in Nat /\ c.limits.expiry \in Nat
  BY LimitFacts DEF Token
<1>2. c.limits.permissions \subseteq c.root.permissions
  BY DEF Within, narrower
<1>3. t.limits.expiry # 0 => c.limits.expiry # 0 /\ c.limits.expiry <= t.limits.expiry
  BY DEF narrower
<1>4. c.root.expiry # 0 => c.limits.expiry \in 1 .. c.root.expiry
  BY <1>1, <1>3, SMTT(60) DEF Within
<1>5. Len(c.limits.pattern) = Len(c.root.pattern)
  BY DEF Within, narrower, matches
<1> QED
  BY <1>2, <1>4, <1>5 DEF Within

-----------------------------------------------------------------------------
(* The steps.                                                              *)

\* A good token is kept.
LEMMA KeepStep ==
    ASSUME CapIInv, NEW t \in Token, Keep(t), Within(t), next_token_id' \in Nat \ {0},
           UNCHANGED <<peer_keys, conn_us, collected>>
    PROVE  CapIInv'
<1>1. /\ DOMAIN tokens' = DOMAIN tokens \cup {t.token_id}
      /\ \A id \in DOMAIN tokens' : tokens'[id] = IF id = t.token_id THEN t ELSE tokens[id]
      /\ hand' = hand \cup {t}
  BY DEF Keep
<1>2. t.token_id \in Nat \ {0}
  BY DEF Token
<1>3. CapTypeOK'
  BY <1>1, <1>2 DEF CapIInv, CapTypeOK
<1>4. InHand' /\ HandGood'
  BY <1>1 DEF CapIInv, InHand, HandGood, Within
<1>5. GoneExpired'
  BY DEF CapIInv, GoneExpired
<1> QED
  BY <1>3, <1>4, <1>5 DEF CapIInv

\* Tokens leave the store.
LEMMA RevokeStep ==
    ASSUME CapIInv, NEW S \in SUBSET DOMAIN tokens, tokens' = Remaining(S),
           UNCHANGED <<next_token_id, peer_keys, hand, conn_us>>,
           collected' \in [CapConn -> SUBSET CapLimits], GoneExpired'
    PROVE  CapIInv'
<1>1. DOMAIN tokens' = S /\ \A id \in S : tokens'[id] = tokens[id]
  BY DEF Remaining
<1>2. CapTypeOK'
  BY <1>1 DEF CapIInv, CapTypeOK
<1>3. InHand' /\ HandGood'
  BY <1>1 DEF CapIInv, InHand, HandGood, Within
<1> QED
  BY <1>2, <1>3 DEF CapIInv

\* A token is issued.
LEMMA IssueStep ==
    ASSUME CapIInv, NEW l \in CapLimits, issue(l)
    PROVE  CapIInv'
<1> DEFINE t == [token_id |-> next_token_id, issuer |-> CapSelf, limits |-> l, root |-> l]
<1>1. next_token_id \in Nat \ {0} /\ next_token_id' \in Nat \ {0}
  BY SMTT(60) DEF CapIInv, CapTypeOK, issue
<1>2. t \in Token /\ t.issuer = CapSelf /\ t.limits = l /\ t.root = l
  BY <1>1, CapAssumption, TokenFacts
<1>3. Keep(t) /\ UNCHANGED <<peer_keys, conn_us, collected>>
  BY DEF issue
<1> HIDE DEF t
<1>4. Within(t)
  BY <1>2, RootWithin
<1> QED
  BY <1>1, <1>2, <1>3, <1>4, KeepStep DEF CapIInv

\* A token is derived from one in hand.
LEMMA AttenuateStep ==
    ASSUME CapIInv, NEW l \in CapLimits, NEW parent \in hand, attenuate(parent, l)
    PROVE  CapIInv'
<1> DEFINE t == [token_id |-> next_token_id, issuer |-> CapSelf, limits |-> l,
                 root |-> parent.root]
<1>1. next_token_id \in Nat \ {0} /\ next_token_id' \in Nat \ {0}
  BY SMTT(60) DEF CapIInv, CapTypeOK, attenuate
<1>2. parent \in Token /\ parent.root \in CapLimits /\ Within(parent)
  BY DEF CapIInv, CapTypeOK, HandGood, Token
<1>3. t \in Token /\ t.issuer = CapSelf /\ t.limits = l /\ t.root = parent.root
  BY <1>1, <1>2, CapAssumption, TokenFacts
<1>4. Keep(t) /\ UNCHANGED <<peer_keys, conn_us, collected>> /\ narrower(parent.limits, l)
  BY DEF attenuate
<1> HIDE DEF t
<1>5. Within(t)
  BY <1>2, <1>3, <1>4, ChildWithin
<1> QED
  BY <1>1, <1>3, <1>4, <1>5, KeepStep DEF CapIInv

\* A good token is received.
LEMMA ReceiveStep ==
    ASSUME CapIInv, NEW t \in Token, Within(t), Receive(t)
    PROVE  CapIInv'
<1>1. Keep(t) /\ UNCHANGED <<next_token_id, peer_keys, conn_us, collected>>
  BY DEF Receive
<1>2. next_token_id' \in Nat \ {0}
  BY <1>1 DEF CapIInv, CapTypeOK
<1> QED
  BY <1>1, <1>2, KeepStep

\* A token of another node is received, whatever it descends from.
LEMMA GrantStep ==
    ASSUME CapIInv, NEW l \in CapLimits, NEW i \in CapIssuer, NEW id \in Nat \ {0},
           NEW r \in CapLimits, Grant(i, id, l, r)
    PROVE  CapIInv'
<1> DEFINE t == [token_id |-> id, issuer |-> i, limits |-> l, root |-> r]
           first == [token_id |-> id, issuer |-> i, limits |-> r, root |-> r]
<1>1. t \in Token /\ t.limits = l /\ t.root = r
  BY TokenFacts
<1>2. first \in Token /\ first.limits = r /\ first.root = r
  BY TokenFacts
<1>3. Receive(t)
  BY DEF Grant
<1> HIDE DEF t, first
<1>4. CASE l = r
  BY <1>1, <1>3, <1>4, RootWithin, ReceiveStep
<1>5. CASE narrower(r, l)
  <2>1. Within(first)
    BY <1>2, RootWithin
  <2>2. Within(t)
    BY <1>1, <1>2, <1>5, <2>1, ChildWithin
  <2> QED
    BY <1>1, <1>3, <2>2, ReceiveStep
<1>6. CASE \E parent \in hand : parent.root = r /\ narrower(parent.limits, l)
  <2>1. PICK parent \in hand : parent.root = r /\ narrower(parent.limits, l)
    BY <1>6
  <2>2. parent \in Token /\ Within(parent)
    BY DEF CapIInv, CapTypeOK, HandGood
  <2>3. Within(t)
    BY <1>1, <2>1, <2>2, ChildWithin
  <2> QED
    BY <1>1, <1>3, <2>3, ReceiveStep
<1> QED
  BY <1>4, <1>5, <1>6 DEF Grant

\* What gc() removes has expired at its time, and so on every clock that has
\* reached that time.
LEMMA GcStep ==
    ASSUME CapIInv, NEW now \in 0 .. CapTurn - 1, cap_gc(now)
    PROVE  CapIInv'
<1> DEFINE S == {id \in DOMAIN tokens : is_expired(tokens[id].limits, now)}
           L == {tokens[id].limits : id \in S}
<1>1. /\ tokens' = Remaining(DOMAIN tokens \ S)
      /\ collected' = [c \in CapConn |-> IF now <= conn_us[c] THEN collected[c] \cup L ELSE collected[c]]
      /\ UNCHANGED <<next_token_id, peer_keys, hand, conn_us>>
  BY DEF cap_gc, Collect
<1>2. \A l \in L : l \in CapLimits /\ is_expired(l, now)
  BY DEF CapIInv, CapTypeOK, Token
<1>3. DOMAIN tokens \ S \subseteq DOMAIN tokens
  OBVIOUS
<1> HIDE DEF S, L
<1>4. collected \in [CapConn -> SUBSET CapLimits] /\ conn_us \in [CapConn -> 0 .. CapTurn - 1]
  BY DEF CapIInv, CapTypeOK
<1>5. collected' \in [CapConn -> SUBSET CapLimits]
  BY <1>1, <1>2, <1>4
<1>6. ASSUME NEW c \in CapConn, NEW l \in collected'[c]
      PROVE  is_expired(l, conn_us'[c])
  <2>1. CASE l \in collected[c]
    BY <1>1, <2>1 DEF CapIInv, GoneExpired
  <2>2. CASE l \notin collected[c]
    <3>1. l \in L /\ now <= conn_us[c]
      BY <1>1, <1>6, <2>2
    <3>2. l.expiry \in Nat /\ is_expired(l, now) /\ conn_us[c] \in Int /\ now \in Int
      BY <1>2, <1>4, <3>1, LimitFacts, CapAssumption, SMTT(60)
    <3>3. is_expired(l, conn_us[c])
      BY <3>1, <3>2, SMTT(60) DEF is_expired
    <3> QED
      BY <1>1, <3>3
  <2> QED
    BY <2>1, <2>2
<1>7. GoneExpired'
  BY <1>6 DEF GoneExpired
<1> QED
  BY <1>1, <1>3, <1>5, <1>7, RevokeStep

\* A clock goes on, wraps or begins anew.
LEMMA ClockStep ==
    ASSUME CapIInv, NEW c \in CapConn, NEW t \in 0 .. CapTurn - 1, SetClock(c, t),
           t = 0 \/ t = conn_us[c] + 1
    PROVE  CapIInv'
<1>1. collected \in [CapConn -> SUBSET CapLimits] /\ conn_us \in [CapConn -> 0 .. CapTurn - 1]
  BY DEF CapIInv, CapTypeOK
<1>2. /\ conn_us' \in [CapConn -> 0 .. CapTurn - 1]
      /\ collected' \in [CapConn -> SUBSET CapLimits]
      /\ conn_us'[c] = t
      /\ collected'[c] = IF t = 0 THEN {} ELSE collected[c]
      /\ \A d \in CapConn \ {c} : conn_us'[d] = conn_us[d] /\ collected'[d] = collected[d]
      /\ UNCHANGED <<tokens, next_token_id, peer_keys, hand>>
  BY <1>1 DEF SetClock
<1>3. CapTypeOK' /\ InHand' /\ HandGood'
  BY <1>2 DEF CapIInv, CapTypeOK, InHand, HandGood, Within
<1>4. ASSUME NEW l \in collected'[c]
      PROVE  is_expired(l, t)
  <2>1. l \in collected[c] /\ t = conn_us[c] + 1
    BY <1>2, <1>4
  <2>2. is_expired(l, conn_us[c]) /\ l \in CapLimits
    BY <1>1, <2>1 DEF CapIInv, GoneExpired
  <2>3. l.expiry \in Nat /\ conn_us[c] \in Int
    BY <1>1, <2>2, LimitFacts, CapAssumption, SMTT(60)
  <2> QED
    BY <2>1, <2>2, <2>3, SMTT(60) DEF is_expired
<1>5. GoneExpired'
  BY <1>2, <1>4 DEF CapIInv, GoneExpired
<1> QED
  BY <1>3, <1>5 DEF CapIInv

\* Every action keeps the invariant.
LEMMA CapInductive == CapIInv /\ [CapNext]_capVars => CapIInv'
<1> SUFFICES ASSUME CapIInv, [CapNext]_capVars PROVE CapIInv'
  OBVIOUS
<1>1. CASE \E now \in 0 .. CapTurn - 1 : cap_gc(now)
  BY <1>1, GcStep
<1>2. CASE \E id \in 1 .. MaxTokens : revoke(id)
  <2>1. PICK id \in 1 .. MaxTokens : revoke(id)
    BY <1>2
  <2>2. GoneExpired' /\ collected' \in [CapConn -> SUBSET CapLimits]
    BY <2>1 DEF revoke, CapIInv, CapTypeOK, GoneExpired
  <2> QED
    BY <2>1, <2>2, RevokeStep DEF revoke
<1>3. CASE \E c \in CapConn : CapClock(c) \/ CapReconnect(c)
  <2>1. PICK c \in CapConn : CapClock(c) \/ CapReconnect(c)
    BY <1>3
  <2>2. conn_us[c] \in 0 .. CapTurn - 1
    BY DEF CapIInv, CapTypeOK
  <2> DEFINE t == (conn_us[c] + 1) % CapTurn
  <2>3. t \in 0 .. CapTurn - 1 /\ (t = 0 \/ t = conn_us[c] + 1) /\ 0 \in 0 .. CapTurn - 1
    BY <2>2, CapAssumption, SMTT(60)
  <2>4. CASE CapClock(c)
    <3>1. SetClock(c, t)
      BY <2>4 DEF CapClock
    <3> QED
      BY <2>3, <3>1, ClockStep
  <2>5. CASE CapReconnect(c)
    BY <2>3, <2>5, ClockStep DEF CapReconnect
  <2> QED
    BY <2>1, <2>4, <2>5
<1>4. CASE \E issuer \in CapIssuer : register_cap_key(issuer)
  BY <1>4 DEF register_cap_key, CapIInv, CapTypeOK, InHand, HandGood, Within, GoneExpired
<1>5. CASE \E l \in CapLimits : issue(l)
  BY <1>5, IssueStep
<1>6. CASE \E l \in CapLimits : \E parent \in hand : attenuate(parent, l)
  BY <1>6, AttenuateStep
<1>7. CASE \E l \in CapLimits, i \in CapIssuer, id \in 1 .. MaxTokens, r \in CapLimits :
                 Grant(i, id, l, r)
  <2>1. \A id \in 1 .. MaxTokens : id \in Nat \ {0}
    BY CapAssumption, SMTT(60)
  <2> QED
    BY <1>7, <2>1, GrantStep
<1>8. CASE \E token \in hand : Receive(token)
  BY <1>8, ReceiveStep DEF CapIInv, CapTypeOK, HandGood
<1>9. CASE UNCHANGED capVars
  BY <1>9 DEF capVars, CapIInv, CapTypeOK, InHand, HandGood, Within, GoneExpired
<1> QED
  BY <1>1, <1>2, <1>3, <1>4, <1>5, <1>6, <1>7, <1>8, <1>9 DEF CapNext

\* The invariant holds at the start.
LEMMA CapInitially == CapInit => CapIInv
<1> SUFFICES ASSUME CapInit PROVE CapIInv
  OBVIOUS
<1>1. DOMAIN tokens = {} /\ hand = {}
  BY DEF CapInit
<1>2. 0 \in 0 .. CapTurn - 1 /\ next_token_id \in Nat \ {0}
  BY CapAssumption, SMTT(60) DEF CapInit
<1>3. peer_keys \in SUBSET CapIssuer
  BY CapAssumption DEF CapInit
<1>4. /\ conn_us \in [CapConn -> 0 .. CapTurn - 1]
      /\ collected \in [CapConn -> SUBSET CapLimits] /\ GoneExpired
  BY <1>2 DEF CapInit, GoneExpired
<1> QED
  BY <1>1, <1>2, <1>3, <1>4 DEF CapIInv, CapTypeOK, InHand, HandGood

-----------------------------------------------------------------------------
(* The theorems.                                                           *)

\* Every token of the store has the permissions, the lifetime and the depth of
\* pattern of the token its derivation started from, or less.
THEOREM StoreCorrect == CapSpec => []CapInv
<1>1. CapSpec => []CapIInv
  BY CapInitially, CapInductive, PTL DEF CapSpec
<1>2. CapIInv => CapInv
  BY DEF CapIInv, InHand, HandGood, Within, CapInv, DerivedWithinRoot
<1> QED
  BY <1>1, <1>2, PTL

\* gc() is not noticed on the connections whose clock had reached its time, until
\* their clock wraps or they begin anew.
THEOREM GcUnseen == CapSpec => []GcInvisible
<1>1. CapSpec => []CapIInv
  BY CapInitially, CapInductive, PTL DEF CapSpec
<1>2. CapIInv => GcInvisible
  BY DEF CapIInv, GoneExpired, GcInvisible, usable
<1> QED
  BY <1>1, <1>2, PTL

-----------------------------------------------------------------------------
(***************************************************************************)
(* Subscriptions: credits are neither lost nor made.                       *)
(***************************************************************************)

\* What SubInv needs to be inductive: a subscription that was ended is out of
\* the table, and an id that was never given away was never matched.
SubIInv ==
    /\ SubTypeOK /\ CreditsBalance
    /\ DOMAIN subs \cap ended = {}
    /\ \A i \in 1 .. MaxSubs : i >= next_id => delivered[i] = 0

\* The new subscription has its own id, and all its credits.
LEMMA SubscribeKeeps ==
    ASSUME SubIInv, NEW who \in SubConn, NEW pattern \in SubPattern,
           NEW credits \in SubCredit, subscribe(who, pattern, credits)
    PROVE  SubIInv'
<1> DEFINE new == [conn |-> who, pattern |-> pattern, credits |-> credits]
<1>1. /\ next_id \in 1 .. MaxSubs + 1 /\ DOMAIN subs \subseteq 1 .. next_id - 1
      /\ MaxSubs \in Nat /\ ended \subseteq 1 .. next_id - 1
      /\ delivered \in [1 .. MaxSubs -> Nat] /\ granted \in [1 .. MaxSubs -> Int]
      /\ \A i \in DOMAIN subs : subs[i] \in Subscription
      /\ credits \in Int
  BY SubAssumption, SMTT(60) DEF SubIInv, SubTypeOK
<1>2. /\ next_id <= MaxSubs /\ next_id' = next_id + 1
      /\ DOMAIN subs' = DOMAIN subs \cup {next_id} /\ subs'[next_id] = new
      /\ \A i \in DOMAIN subs : i # next_id /\ subs'[i] = subs[i]
      /\ granted' = [granted EXCEPT ![next_id] = credits]
      /\ UNCHANGED <<ended, delivered>>
  <2>1. \A i \in DOMAIN subs : i # next_id
    BY <1>1, SMTT(60)
  <2> QED
    BY <2>1 DEF subscribe
<1>3. next_id \in 1 .. MaxSubs /\ granted'[next_id] = credits /\ granted' \in [1 .. MaxSubs -> Int]
      /\ \A i \in DOMAIN subs : granted'[i] = granted[i]
  <2>1. next_id \in 1 .. MaxSubs /\ \A i \in DOMAIN subs : i \in 1 .. MaxSubs /\ i # next_id
    BY <1>1, <1>2, SMTT(60)
  <2> QED
    BY <1>1, <1>2, <2>1
<1>4. new \in Subscription /\ new.credits = credits /\ new.conn = who
  BY <1>1 DEF Subscription
<1>5. SubTypeOK'
  BY <1>1, <1>2, <1>3, <1>4, SMTT(60) DEF SubTypeOK
<1>6. CreditsBalance'
  <2> SUFFICES ASSUME NEW i \in DOMAIN subs'
               PROVE  IF subs'[i].credits >= 0 THEN delivered'[i] + subs'[i].credits = granted'[i]
                      ELSE delivered'[i] + subs'[i].credits >= granted'[i]
    BY DEF CreditsBalance
  <2>1. CASE i = next_id
    <3>1. delivered'[i] = 0
      BY <1>1, <1>2, <1>3, <2>1, SMTT(60) DEF SubIInv
    <3> QED
      BY <1>1, <1>2, <1>3, <1>4, <2>1, <3>1, SMTT(60)
  <2>2. CASE i \in DOMAIN subs
    BY <1>2, <1>3, <2>2 DEF SubIInv, CreditsBalance
  <2> QED
    BY <1>2, <2>1, <2>2
<1>7. DOMAIN subs' \cap ended' = {}
  <2>1. next_id \notin ended
    BY <1>1, SMTT(60)
  <2> QED
    BY <1>2, <2>1 DEF SubIInv
<1>8. \A i \in 1 .. MaxSubs : i >= next_id' => delivered'[i] = 0
  BY <1>1, <1>2, SMTT(60) DEF SubIInv
<1> QED
  BY <1>5, <1>6, <1>7, <1>8 DEF SubIInv

\* What remains of the subscriptions stays as it is.
LEMMA UnsubscribeKeeps ==
    ASSUME SubIInv, NEW gone \in SUBSET DOMAIN subs, subs' = [i \in DOMAIN subs \ gone |-> subs[i]],
           UNCHANGED <<next_id, delivered, granted>>, ended' = ended \cup gone
    PROVE  SubIInv'
<1>1. /\ DOMAIN subs' = DOMAIN subs \ gone
      /\ \A i \in DOMAIN subs' : i \in DOMAIN subs /\ subs'[i] = subs[i]
  OBVIOUS
<1>2. SubTypeOK'
  BY <1>1 DEF SubIInv, SubTypeOK
<1>3. CreditsBalance'
  BY <1>1 DEF SubIInv, CreditsBalance
<1>4. DOMAIN subs' \cap ended' = {}
  BY <1>1 DEF SubIInv
<1>5. \A i \in 1 .. MaxSubs : i >= next_id' => delivered'[i] = 0
  BY DEF SubIInv
<1> QED
  BY <1>2, <1>3, <1>4, <1>5 DEF SubIInv

\* A grant, positive or negative, to a subscription with a limit or without.
LEMMA CreditsKeep ==
    ASSUME SubIInv, NEW i \in 1 .. MaxSubs, NEW n \in SubCredit, add_credits(i, n)
    PROVE  SubIInv'
<1> DEFINE was == subs[i].credits
           now == IF was >= 0 THEN was + n ELSE was
           total == IF was >= 0 THEN granted[i] + n ELSE granted[i]
<1>1. /\ i \in DOMAIN subs /\ subs' = [subs EXCEPT ![i].credits = IF @ >= 0 THEN @ + n ELSE @]
      /\ granted' = [granted EXCEPT ![i] = IF was >= 0 THEN @ + n ELSE @]
      /\ UNCHANGED <<next_id, ended, delivered>>
  BY DEF add_credits
<1>2. /\ next_id \in 1 .. MaxSubs + 1 /\ DOMAIN subs \subseteq 1 .. next_id - 1 /\ MaxSubs \in Nat
      /\ delivered \in [1 .. MaxSubs -> Nat] /\ granted \in [1 .. MaxSubs -> Int]
      /\ \A j \in DOMAIN subs : subs[j] \in Subscription
      /\ was \in Int /\ subs[i] \in Subscription /\ n \in Int
  BY <1>1, SubAssumption DEF SubIInv, SubTypeOK, Subscription
<1>3. /\ DOMAIN subs' = DOMAIN subs /\ subs'[i] = [subs[i] EXCEPT !.credits = now]
      /\ \A j \in DOMAIN subs : j # i => subs'[j] = subs[j]
  BY <1>1
<1>4. subs'[i] \in Subscription /\ subs'[i].credits = now /\ now \in Int
  <2>1. now \in Int
    BY <1>2, SMTT(60)
  <2> HIDE DEF now
  <2> QED
    BY <1>2, <1>3, <2>1 DEF Subscription
<1>5. granted'[i] = total /\ total \in Int /\ granted[i] \in Int /\ delivered[i] \in Nat
      /\ granted' \in [1 .. MaxSubs -> Int]
      /\ \A j \in DOMAIN subs : j # i => granted'[j] = granted[j]
  <2>1. \A j \in DOMAIN subs : j \in 1 .. MaxSubs
    BY <1>2, SMTT(60)
  <2>2. granted[i] \in Int /\ delivered[i] \in Nat
    BY <1>2
  <2>3. total \in Int
    BY <1>2, <2>2, SMTT(60)
  <2>4. granted' = [granted EXCEPT ![i] = total]
    BY <1>1
  <2> HIDE DEF total
  <2> QED
    BY <1>2, <2>1, <2>2, <2>3, <2>4
<1>6. SubTypeOK'
  <2>1. \A j \in DOMAIN subs' : subs'[j] \in Subscription
    BY <1>2, <1>3, <1>4
  <2> QED
    BY <1>1, <1>3, <1>5, <2>1 DEF SubIInv, SubTypeOK
<1>7. CreditsBalance'
  <2>1. IF was >= 0 THEN delivered[i] + was = granted[i] ELSE delivered[i] + was >= granted[i]
    BY <1>1 DEF SubIInv, CreditsBalance
  <2>2. IF now >= 0 THEN delivered[i] + now = total ELSE delivered[i] + now >= total
    BY <1>2, <1>5, <2>1, SMTT(60)
  <2> HIDE DEF now, total, was
  <2> SUFFICES ASSUME NEW j \in DOMAIN subs
               PROVE  IF subs'[j].credits >= 0 THEN delivered[j] + subs'[j].credits = granted'[j]
                      ELSE delivered[j] + subs'[j].credits >= granted'[j]
    BY <1>1, <1>3 DEF CreditsBalance
  <2>3. CASE j = i
    BY <1>4, <1>5, <2>2, <2>3
  <2>4. CASE j # i
    <3>1. subs'[j] = subs[j] /\ granted'[j] = granted[j]
      BY <1>3, <1>5, <2>4
    <3> QED
      BY <3>1 DEF SubIInv, CreditsBalance
  <2> QED
    BY <2>3, <2>4
<1>8. DOMAIN subs' \cap ended' = {}
  BY <1>1, <1>3 DEF SubIInv
<1>9. \A j \in 1 .. MaxSubs : j >= next_id' => delivered'[j] = 0
  BY <1>1 DEF SubIInv
<1> QED
  BY <1>6, <1>7, <1>8, <1>9 DEF SubIInv

\* Each subscription that is matched with a change pays for it, if it pays.
LEMMA MatchKeeps ==
    ASSUME SubIInv, NEW path \in SubPath, match_and_consume(path)
    PROVE  SubIInv'
<1> DEFINE M == match(path)
<1>1. /\ DOMAIN subs' = DOMAIN subs
      /\ \A i \in DOMAIN subs : subs'[i] = IF i \in M THEN [subs[i] EXCEPT !.credits = consume_credit(@)]
                                           ELSE subs[i]
      /\ delivered' = [i \in DOMAIN delivered |-> delivered[i] + IF i \in M THEN 1 ELSE 0]
      /\ UNCHANGED <<next_id, ended, granted>>
  BY DEF match_and_consume
<1>2. /\ next_id \in 1 .. MaxSubs + 1 /\ DOMAIN subs \subseteq 1 .. next_id - 1 /\ MaxSubs \in Nat
      /\ delivered \in [1 .. MaxSubs -> Nat] /\ granted \in [1 .. MaxSubs -> Int]
      /\ \A j \in DOMAIN subs : subs[j] \in Subscription
  BY SubAssumption DEF SubIInv, SubTypeOK
<1>3. M \subseteq DOMAIN subs /\ \A i \in M : subs[i].credits # 0
  BY DEF match
<1> HIDE DEF M
<1>4. ASSUME NEW i \in DOMAIN subs
      PROVE  /\ subs'[i] \in Subscription
             /\ subs[i].credits \in Int /\ subs'[i].credits \in Int
             /\ i \in M => subs'[i].credits = consume_credit(subs[i].credits)
             /\ i \notin M => subs'[i].credits = subs[i].credits
             /\ delivered[i] \in Nat /\ delivered'[i] = delivered[i] + (IF i \in M THEN 1 ELSE 0)
  <2>1. subs[i] \in Subscription /\ i \in 1 .. MaxSubs /\ subs[i].credits \in Int
    BY <1>2, SMTT(60) DEF Subscription
  <2>2. consume_credit(subs[i].credits) \in Int
    BY <2>1, SMTT(60) DEF consume_credit
  <2>3. CASE i \in M
    BY <1>1, <1>2, <2>1, <2>2, <2>3 DEF Subscription
  <2>4. CASE i \notin M
    BY <1>1, <1>2, <2>1, <2>4
  <2> QED
    BY <2>3, <2>4
<1>5. SubTypeOK'
  <2>1. \A i \in DOMAIN subs' : subs'[i] \in Subscription
    BY <1>1, <1>4
  <2>2. delivered' \in [1 .. MaxSubs -> Nat]
    BY <1>1, <1>2, SMTT(60)
  <2> QED
    BY <1>1, <2>1, <2>2 DEF SubIInv, SubTypeOK
<1>6. CreditsBalance'
  <2> SUFFICES ASSUME NEW i \in DOMAIN subs
               PROVE  IF subs'[i].credits >= 0 THEN delivered'[i] + subs'[i].credits = granted[i]
                      ELSE delivered'[i] + subs'[i].credits >= granted[i]
    BY <1>1 DEF CreditsBalance
  <2>1. IF subs[i].credits >= 0 THEN delivered[i] + subs[i].credits = granted[i]
        ELSE delivered[i] + subs[i].credits >= granted[i]
    BY DEF SubIInv, CreditsBalance
  <2>2. granted[i] \in Int
    BY <1>2, SMTT(60)
  <2>3. CASE i \in M
    <3>1. subs[i].credits # 0
      BY <1>3, <2>3
    <3> QED
      BY <1>4, <2>1, <2>2, <2>3, <3>1, SMTT(60) DEF consume_credit
  <2>4. CASE i \notin M
    BY <1>4, <2>1, <2>2, <2>4, SMTT(60)
  <2> QED
    BY <2>3, <2>4
<1>7. DOMAIN subs' \cap ended' = {}
  BY <1>1 DEF SubIInv
<1>8. \A i \in 1 .. MaxSubs : i >= next_id' => delivered'[i] = 0
  <2> SUFFICES ASSUME NEW i \in 1 .. MaxSubs, i >= next_id PROVE delivered'[i] = 0
    BY <1>1
  <2>1. delivered[i] = 0 /\ i \notin M
    BY <1>2, <1>3, SMTT(60) DEF SubIInv
  <2> QED
    BY <1>1, <1>2, <2>1, SMTT(60)
<1> QED
  BY <1>5, <1>6, <1>7, <1>8 DEF SubIInv

\* Credits balance, whatever the initial credits and the grants, positive or
\* negative, and a subscription that was ended is sent nothing, for any
\* connections, patterns and bounds (subscription.cpp).
THEOREM SubCorrect == SubSpec => []SubInv
<1>1. SubInit => SubIInv
  <2> SUFFICES ASSUME SubInit PROVE SubIInv
    OBVIOUS
  <2>1. DOMAIN subs = {} /\ next_id = 1 /\ ended = {}
        /\ delivered = [i \in 1 .. MaxSubs |-> 0] /\ granted = [i \in 1 .. MaxSubs |-> 0]
    BY DEF SubInit
  <2>2. SubTypeOK
    BY <2>1, SubAssumption, SMTT(60) DEF SubTypeOK
  <2> QED
    BY <2>1, <2>2 DEF SubIInv, CreditsBalance
<1>2. SubIInv /\ [SubNext]_subVars => SubIInv'
  <2> SUFFICES ASSUME SubIInv, [SubNext]_subVars PROVE SubIInv'
    OBVIOUS
  <2>1. ASSUME NEW who \in SubConn, remove_connection(who) PROVE SubIInv'
    <3>1. SubsOf(who) \in SUBSET DOMAIN subs
      BY DEF SubsOf
    <3> QED
      BY <2>1, <3>1, UnsubscribeKeeps DEF remove_connection
  <2>2. ASSUME NEW i \in 1 .. MaxSubs, unsubscribe(i) PROVE SubIInv'
    <3>1. {i} \in SUBSET DOMAIN subs
      BY <2>2 DEF unsubscribe
    <3> QED
      BY <2>2, <3>1, UnsubscribeKeeps DEF unsubscribe
  <2>3. CASE UNCHANGED subVars
    BY <2>3 DEF subVars, SubIInv, SubTypeOK, CreditsBalance
  <2> QED
    BY <2>1, <2>2, <2>3, SubscribeKeeps, CreditsKeep, MatchKeeps DEF SubNext
<1>3. SubIInv => SubInv
  BY DEF SubIInv, SubInv, NoneForEnded, match
<1> QED
  BY <1>1, <1>2, <1>3, PTL DEF SubSpec

-----------------------------------------------------------------------------
(***************************************************************************)
(* Observers, which may call back into the table that calls them.          *)
(***************************************************************************)

\* How often h was called back: what its limit was less what remains, and one
\* more while its callback runs.
ShotsBalance ==
    \A h \in DOMAIN watches \ again :
        limit[h] >= 0 =>
            /\ watches[h].remaining >= 0
            /\ fired[h] + watches[h].remaining = limit[h] + (IF h \in Busy THEN 1 ELSE 0)

\* A running callback is of a watch that has no other call running, is in the
\* table unless it was taken away, and has notifications left.
RunningOK ==
    \A i \in DOMAIN calls : calls[i].at \notin again \cup {None0} =>
        /\ calls[i].at \in DOMAIN limit
        /\ \A j \in DOMAIN calls : calls[j].at = calls[i].at => j = i
        /\ calls[i].at \in DOMAIN watches \cup dropped
        /\ calls[i].at \in DOMAIN watches => watches[calls[i].at].remaining # 0

\* What is scheduled for removal has no notifications left; without nested
\* loops, everything that has had its notifications is scheduled.
PendingOK ==
    /\ pending \subseteq DOMAIN limit
    /\ \A h \in pending \cap DOMAIN watches : watches[h].remaining = 0
    /\ Idle => pending = {}
    /\ ~nested => /\ Len(calls) <= 1
                  /\ \A h \in DOMAIN watches : fired[h] > 0 /\ watches[h].remaining = 0 => h \in pending

LimitsOK ==
    /\ \A h \in DOMAIN limit : limit[h] \in Nat \cup {-1}
    /\ \A h \in Handle : h \notin DOMAIN limit => fired[h] = 0

\* What ObserverInv needs to be inductive.
ObserverIInv == ObserverTypeOK /\ AtMostNShots /\ LimitsOK /\ ShotsBalance /\ RunningOK /\ PendingOK

-----------------------------------------------------------------------------

\* The types that the steps need.
LEMMA ObserverTypes ==
    ASSUME ObserverIInv
    PROVE  /\ MaxWatches \in Nat /\ limit \in Seq(Int) /\ Len(limit) \in 0 .. MaxWatches
           /\ DOMAIN limit = 1 .. Len(limit) /\ DOMAIN limit \subseteq Handle
           /\ DOMAIN watches \subseteq DOMAIN limit
           /\ calls \in Seq(Loop) /\ Len(calls) \in Nat /\ DOMAIN calls = 1 .. Len(calls)
           /\ fired \in [Handle -> Nat]
           /\ \A h \in Handle : h \in Int /\ h # None0
           /\ \A h \in DOMAIN watches :
                  /\ h \in Handle /\ watches[h] \in Watch /\ fired[h] \in Nat /\ limit[h] \in Nat \cup {-1}
                  /\ watches[h].remaining \in Nat \cup {-1} /\ watches[h].remaining <= limit[h]
<1>1. /\ MaxWatches \in Nat /\ limit \in Seq(Int) /\ Len(limit) \in 0 .. MaxWatches
      /\ DOMAIN limit = 1 .. Len(limit) /\ DOMAIN limit \subseteq Handle
      /\ DOMAIN watches \subseteq DOMAIN limit
      /\ calls \in Seq(Loop) /\ Len(calls) \in Nat /\ DOMAIN calls = 1 .. Len(calls)
      /\ fired \in [Handle -> Nat]
  BY ObserverAssumption, SMTT(60) DEF ObserverIInv, ObserverTypeOK, Handle
<1>2. \A h \in Handle : h \in Int /\ h # None0
  BY <1>1, SMTT(60) DEF Handle, None0
<1>3. \A h \in DOMAIN watches : watches[h] \in Watch /\ watches[h].remaining <= limit[h]
  BY DEF ObserverIInv, ObserverTypeOK
<1>4. \A h \in DOMAIN limit : limit[h] \in Nat \cup {-1}
  BY DEF ObserverIInv, LimitsOK
<1>5. \A h \in DOMAIN watches : watches[h].remaining \in Nat \cup {-1}
  BY <1>3 DEF Watch
<1> QED
  BY <1>1, <1>2, <1>3, <1>4, <1>5

\* A round of the innermost loop.
LEMMA RoundFacts ==
    ASSUME ObserverIInv, ~Idle, NEW todo \in SUBSET Handle, NEW at \in Handle \cup {None0},
           calls' = Round(todo, at)
    PROVE  /\ Len(calls) >= 1 /\ Len(calls) \in DOMAIN calls
           /\ calls' \in Seq(Loop) /\ Len(calls') = Len(calls) /\ DOMAIN calls' = DOMAIN calls /\ ~Idle'
           /\ \A i \in DOMAIN calls : i # Len(calls) => calls'[i].at = calls[i].at
           /\ calls'[Len(calls)].at = at
<1> DEFINE n == Len(calls)
           top == [path |-> Top.path, type |-> Top.type, todo |-> todo, at |-> at]
<1>1. calls \in Seq(Loop) /\ n \in Nat /\ DOMAIN calls = 1 .. n
  BY ObserverTypes
<1>2. n >= 1 /\ n \in DOMAIN calls
  BY <1>1, SMTT(60) DEF Idle
<1>3. Top = calls[n] /\ calls[n] \in Loop
  BY <1>1, <1>2, SMTT(60) DEF Top
<1>4. top \in Loop /\ top.at = at
  BY <1>3 DEF Loop
<1>5. calls' = [calls EXCEPT ![n] = top]
  BY DEF Round
<1> HIDE DEF top
<1>6. calls' \in Seq(Loop) /\ Len(calls') = n /\ DOMAIN calls' = DOMAIN calls
  BY <1>1, <1>2, <1>4, <1>5, SMTT(60)
<1>7. calls'[n] = top /\ \A i \in DOMAIN calls : i # n => calls'[i] = calls[i]
  BY <1>1, <1>2, <1>5
<1>8. ~Idle'
  BY <1>2, <1>6, SMTT(60) DEF Idle
<1> QED
  BY <1>2, <1>4, <1>6, <1>7, <1>8

\* The watches stay what they are, and the calls too; only the innermost loop,
\* which is in no callback, may have gone.
LEMMA DropWatches ==
    ASSUME ObserverIInv, NEW gone, watches' = Without(gone),
           UNCHANGED <<limit, fired, notices, rehashed, nested, again>>,
           dropped \subseteq dropped', dropped' \subseteq Handle,
           \A g \in gone : g \notin Busy \/ g \in dropped' \cup again \cup {None0},
           calls' \in Seq(Loop), DOMAIN calls' \subseteq DOMAIN calls, Len(calls') <= Len(calls),
           \A i \in DOMAIN calls' : calls'[i] = calls[i],
           \A i \in DOMAIN calls : i \in DOMAIN calls' \/ calls[i].at = None0,
           \/ pending' = pending /\ calls' = calls
           \/ pending' = {} /\ pending \cap DOMAIN watches \subseteq gone
    PROVE  ObserverIInv'
<1>1. /\ DOMAIN watches' = DOMAIN watches \ gone
      /\ \A h \in DOMAIN watches' : h \in DOMAIN watches /\ h \notin gone /\ watches'[h] = watches[h]
  BY DEF Without
<1>2. \A h \in Handle : h \in Busy' <=> h \in Busy
  BY ObserverTypes DEF Busy
<1>3. ObserverTypeOK'
  BY <1>1 DEF ObserverIInv, ObserverTypeOK
<1>4. AtMostNShots' /\ LimitsOK'
  BY DEF ObserverIInv, AtMostNShots, LimitsOK
<1>5. ShotsBalance'
  <2> SUFFICES ASSUME NEW h \in DOMAIN watches' \ again, limit[h] >= 0
               PROVE  /\ watches'[h].remaining >= 0
                      /\ fired[h] + watches'[h].remaining = limit[h] + (IF h \in Busy' THEN 1 ELSE 0)
    BY DEF ShotsBalance
  <2>1. h \in DOMAIN watches /\ watches'[h] = watches[h] /\ (h \in Busy' <=> h \in Busy)
    BY <1>1, <1>2, ObserverTypes
  <2> QED
    BY <2>1 DEF ObserverIInv, ShotsBalance
<1>6. RunningOK'
  <2> SUFFICES ASSUME NEW i \in DOMAIN calls', calls'[i].at \notin again \cup {None0}
               PROVE  /\ calls'[i].at \in DOMAIN limit
                      /\ \A j \in DOMAIN calls' : calls'[j].at = calls'[i].at => j = i
                      /\ calls'[i].at \in DOMAIN watches' \cup dropped'
                      /\ calls'[i].at \in DOMAIN watches' => watches'[calls'[i].at].remaining # 0
    BY DEF RunningOK
  <2>1. i \in DOMAIN calls /\ calls'[i] = calls[i]
    OBVIOUS
  <2>2. calls[i].at \in Busy
    BY <2>1 DEF Busy
  <2>3. /\ calls[i].at \in DOMAIN limit /\ calls[i].at \in DOMAIN watches \cup dropped
        /\ \A j \in DOMAIN calls : calls[j].at = calls[i].at => j = i
        /\ calls[i].at \in DOMAIN watches => watches[calls[i].at].remaining # 0
    BY <2>1 DEF ObserverIInv, RunningOK
  <2> QED
    BY <1>1, <2>1, <2>2, <2>3
<1>7. PendingOK'
  <2>1. /\ pending' \subseteq DOMAIN limit'
        /\ \A h \in pending' \cap DOMAIN watches' : watches'[h].remaining = 0
        /\ Idle' => pending' = {}
    BY <1>1 DEF ObserverIInv, PendingOK, Idle
  <2>2. ASSUME ~nested' PROVE Len(calls') <= 1
    BY <2>2, ObserverTypes, SMTT(60) DEF ObserverIInv, PendingOK
  <2>3. ASSUME ~nested', NEW h \in DOMAIN watches', fired'[h] > 0, watches'[h].remaining = 0
        PROVE  h \in pending'
    BY <1>1, <2>3 DEF ObserverIInv, PendingOK
  <2> QED
    BY <2>1, <2>2, <2>3 DEF PendingOK
<1> QED
  BY <1>3, <1>4, <1>5, <1>6, <1>7 DEF ObserverIInv

\* unwatch, the end of a loop and clear take watches from the table.
LEMMA RemovalsKeep ==
    ASSUME ObserverIInv, (\E h \in Handle : unwatch(h)) \/ cleanup_expired \/ clear_watches
    PROVE  ObserverIInv'
<1>0. calls \in Seq(Loop) /\ Len(calls) \in Nat /\ DOMAIN calls = 1 .. Len(calls)
  BY ObserverTypes
<1>a. dropped \subseteq Handle /\ DOMAIN watches \subseteq Handle
  BY ObserverTypes DEF ObserverIInv, ObserverTypeOK
<1>b. Len(calls) <= Len(calls)
  BY <1>0, SMTT(60)
<1>1. ASSUME NEW h \in Handle, unwatch(h) PROVE ObserverIInv'
  <2> DEFINE gone == {h}
  <2>1. /\ watches' = Without(gone) /\ UNCHANGED <<limit, fired, notices, rehashed, nested, again>>
        /\ pending' = pending /\ calls' = calls /\ dropped' = dropped \cup (Busy \cap gone)
    BY <1>1 DEF unwatch
  <2>2. gone \subseteq Handle
    OBVIOUS
  <2> HIDE DEF gone
  <2>3. /\ \A g \in gone : g \notin Busy \/ g \in dropped' \cup again \cup {None0}
        /\ dropped \subseteq dropped' /\ dropped' \subseteq Handle
    BY <1>a, <2>1, <2>2
  <2> QED
    BY <1>0, <1>b, <2>1, <2>3, DropWatches
<1>2. ASSUME cleanup_expired PROVE ObserverIInv'
  <2> DEFINE n == Len(calls)
  <2>1. /\ ~Idle /\ Top.at = None0 /\ watches' = Without(pending) /\ pending' = {}
        /\ calls' = SubSeq(calls, 1, n - 1) /\ dropped' = dropped
        /\ UNCHANGED <<limit, fired, notices, rehashed, nested, again>>
    BY <1>2 DEF cleanup_expired
  <2>2. n >= 1 /\ calls[n].at = None0
    BY <1>0, <2>1, SMTT(60) DEF Idle, Top
  <2>3. calls' \in Seq(Loop) /\ Len(calls') = n - 1 /\ DOMAIN calls' = 1 .. n - 1
        /\ \A i \in 1 .. n - 1 : calls'[i] = calls[i]
    BY <1>0, <2>1, <2>2, SMTT(60)
  <2>4. \A i \in DOMAIN calls : i \in DOMAIN calls' \/ calls[i].at = None0
    BY <1>0, <2>2, <2>3, SMTT(60)
  <2>5. ASSUME NEW g \in pending, g \in Busy PROVE g \in dropped \cup again \cup {None0}
    <3>1. PICK i \in DOMAIN calls : calls[i].at = g
      BY <2>5 DEF Busy
    <3>2. g \in DOMAIN watches => watches[g].remaining = 0
      BY DEF ObserverIInv, PendingOK
    <3> QED
      BY <3>1, <3>2 DEF ObserverIInv, RunningOK
  <2>6. DOMAIN calls' \subseteq DOMAIN calls /\ Len(calls') <= Len(calls)
    BY <1>0, <2>2, <2>3, SMTT(60)
  <2> QED
    BY <1>a, <2>1, <2>3, <2>4, <2>5, <2>6, DropWatches
<1>3. ASSUME clear_watches PROVE ObserverIInv'
  <2> DEFINE gone == DOMAIN watches
  <2>1. /\ watches' = [h \in {} |-> {}] /\ pending' = {} /\ calls' = calls
        /\ dropped' = dropped \cup (Busy \cap gone)
        /\ UNCHANGED <<limit, fired, notices, rehashed, nested, again>>
    BY <1>3 DEF clear_watches
  <2>2. watches' = Without(gone)
    BY <2>1 DEF Without
  <2>3. pending \cap DOMAIN watches \subseteq gone /\ gone \subseteq Handle
    BY <1>a
  <2> HIDE DEF gone
  <2>4. /\ \A g \in gone : g \notin Busy \/ g \in dropped' \cup again \cup {None0}
        /\ dropped \subseteq dropped' /\ dropped' \subseteq Handle
    BY <1>a, <2>1, <2>3
  <2> QED
    BY <1>0, <1>b, <2>1, <2>2, <2>3, <2>4, DropWatches
<1> QED
  BY <1>1, <1>2, <1>3

\* A new watch has a handle of its own.
LEMMA WatchKeeps ==
    ASSUME ObserverIInv, NEW w \in WatchChoice, watch(w)
    PROVE  ObserverIInv'
<1> DEFINE new == Len(limit) + 1
<1>1. /\ MaxWatches \in Nat /\ limit \in Seq(Int) /\ Len(limit) \in 0 .. MaxWatches
      /\ DOMAIN limit = 1 .. Len(limit) /\ DOMAIN limit \subseteq Handle
      /\ DOMAIN watches \subseteq DOMAIN limit
      /\ calls \in Seq(Loop) /\ Len(calls) \in Nat /\ DOMAIN calls = 1 .. Len(calls)
      /\ fired \in [Handle -> Nat]
  BY ObserverTypes
<1>2. /\ Len(limit) < MaxWatches /\ limit' = Append(limit, w.remaining)
      /\ rehashed' \in {rehashed, Len(calls)}
      /\ UNCHANGED <<pending, fired, notices, nested, again, dropped>>
      /\ watches' = [h \in DOMAIN watches \cup {new} |-> IF h = new THEN w ELSE watches[h]]
  BY DEF watch
<1>3. w \in Watch /\ w.remaining \in Nat \cup {-1}
  BY ObserverAssumption DEF Watch
<1>4. new \in Handle /\ new \notin DOMAIN limit /\ fired[new] = 0 /\ \A h \in DOMAIN limit : h # new
  <2>1. new \in Handle /\ new \notin DOMAIN limit
    BY <1>1, <1>2, SMTT(60) DEF Handle
  <2> QED
    BY <2>1 DEF ObserverIInv, LimitsOK
<1>5. /\ limit' \in Seq(Int) /\ Len(limit') = Len(limit) + 1 /\ DOMAIN limit' = DOMAIN limit \cup {new}
      /\ limit'[new] = w.remaining /\ \A h \in DOMAIN limit : limit'[h] = limit[h]
  BY <1>1, <1>2, <1>3, SMTT(60)
<1>6. /\ DOMAIN watches' = DOMAIN watches \cup {new} /\ watches'[new] = w
      /\ \A h \in DOMAIN watches : h \in DOMAIN limit /\ h # new /\ watches'[h] = watches[h]
  BY <1>1, <1>2, <1>4
<1>7. PICK late \in SUBSET DOMAIN calls :
          calls' = [i \in DOMAIN calls |-> IF i \in late THEN [calls[i] EXCEPT !.todo = @ \cup {new}]
                                           ELSE calls[i]]
  BY DEF watch
<1> HIDE DEF new
<1>8. /\ calls' \in Seq(Loop) /\ Len(calls') = Len(calls) /\ DOMAIN calls' = DOMAIN calls
      /\ \A i \in DOMAIN calls : calls'[i].at = calls[i].at
  <2>1. ASSUME NEW c \in Loop
        PROVE  [c EXCEPT !.todo = @ \cup {new}] \in Loop /\ [c EXCEPT !.todo = @ \cup {new}].at = c.at
    BY <1>4 DEF Loop
  <2>2. \A i \in DOMAIN calls : calls[i] \in Loop
    BY <1>1, SMTT(60)
  <2>3. DOMAIN calls' = 1 .. Len(calls) /\ \A i \in DOMAIN calls : calls'[i] \in Loop /\ calls'[i].at = calls[i].at
    BY <1>1, <1>7, <2>1, <2>2
  <2>4. calls' = [i \in 1 .. Len(calls) |-> calls'[i]]
    BY <1>1, <1>7, <2>3
  <2>5. calls' \in Seq(Loop) /\ Len(calls') = Len(calls)
    BY <1>1, <2>3, <2>4, SMTT(60)
  <2> QED
    BY <1>1, <2>3, <2>5
<1>9. Busy' = Busy /\ (Idle' <=> Idle)
  <2>1. Busy' = Busy
    BY <1>8 DEF Busy
  <2>2. Idle' <=> Idle
    BY <1>1, <1>8, SMTT(60) DEF Idle
  <2> QED
    BY <2>1, <2>2
<1>10. ObserverTypeOK'
  <2>1. \A h \in DOMAIN watches' : watches'[h] \in Watch /\ watches'[h].remaining <= limit'[h]
    BY <1>3, <1>5, <1>6, SMTT(60) DEF ObserverIInv, ObserverTypeOK
  <2>2. DOMAIN watches' \subseteq DOMAIN limit' /\ Len(limit') <= MaxWatches
    BY <1>1, <1>2, <1>5, <1>6, SMTT(60)
  <2>3. rehashed' \in Nat
    BY <1>1, <1>2 DEF ObserverIInv, ObserverTypeOK
  <2> QED
    BY <1>2, <1>5, <1>8, <2>1, <2>2, <2>3 DEF ObserverIInv, ObserverTypeOK
<1>11. AtMostNShots' /\ LimitsOK'
  <2>1. AtMostNShots'
    BY <1>2, <1>3, <1>4, <1>5 DEF ObserverIInv, AtMostNShots
  <2>2. LimitsOK'
    BY <1>2, <1>3, <1>4, <1>5 DEF ObserverIInv, LimitsOK
  <2> QED
    BY <2>1, <2>2
<1>12. \A i \in DOMAIN calls : calls[i].at = new => new \in again
  <2>1. new # None0
    BY <1>4, ObserverTypes
  <2> QED
    BY <1>4, <2>1 DEF ObserverIInv, RunningOK
<1>13. ShotsBalance'
  <2>0. \A h \in DOMAIN watches' : limit'[h] \in Int
    <3>1. \A h \in DOMAIN limit : limit[h] \in Int
      BY ObserverTypes, SMTT(60)
    <3> QED
      BY <1>3, <1>5, <1>6, <3>1, SMTT(60)
  <2> SUFFICES ASSUME NEW h \in DOMAIN watches' \ again, limit'[h] >= 0
               PROVE  /\ watches'[h].remaining >= 0
                      /\ fired[h] + watches'[h].remaining = limit'[h] + (IF h \in Busy THEN 1 ELSE 0)
    BY <1>2, <1>9 DEF ShotsBalance
  <2>1. CASE h = new
    <3>1. h \notin Busy
      BY <1>12, <2>1 DEF Busy
    <3>2. w.remaining >= 0 /\ fired[h] = 0 /\ watches'[h].remaining = w.remaining /\ limit'[h] = w.remaining
      BY <1>4, <1>5, <1>6, <2>1
    <3> QED
      BY <1>3, <3>1, <3>2, SMTT(60)
  <2>2. CASE h \in DOMAIN watches
    BY <1>5, <1>6, <2>2 DEF ObserverIInv, ShotsBalance
  <2> QED
    BY <1>6, <2>1, <2>2
<1>14. RunningOK'
  <2> SUFFICES ASSUME NEW i \in DOMAIN calls, calls[i].at \notin again \cup {None0}
               PROVE  /\ calls[i].at \in DOMAIN limit'
                      /\ \A j \in DOMAIN calls : calls[j].at = calls[i].at => j = i
                      /\ calls[i].at \in DOMAIN watches' \cup dropped
                      /\ calls[i].at \in DOMAIN watches' => watches'[calls[i].at].remaining # 0
    BY <1>2, <1>8 DEF RunningOK
  <2>1. calls[i].at # new
    BY <1>12
  <2>2. /\ calls[i].at \in DOMAIN limit /\ calls[i].at \in DOMAIN watches \cup dropped
        /\ \A j \in DOMAIN calls : calls[j].at = calls[i].at => j = i
        /\ calls[i].at \in DOMAIN watches => watches[calls[i].at].remaining # 0
    BY DEF ObserverIInv, RunningOK
  <2> QED
    BY <1>5, <1>6, <2>1, <2>2
<1>15. PendingOK'
  <2>0. new \notin pending
    BY <1>4 DEF ObserverIInv, PendingOK
  <2>1. pending' \subseteq DOMAIN limit' /\ (Idle' => pending' = {})
    BY <1>2, <1>5, <1>9 DEF ObserverIInv, PendingOK
  <2>2. \A h \in pending' \cap DOMAIN watches' : watches'[h].remaining = 0
    BY <1>2, <1>6, <2>0 DEF ObserverIInv, PendingOK
  <2>3. ~nested' => Len(calls') <= 1
    BY <1>2, <1>8 DEF ObserverIInv, PendingOK
  <2>4. ASSUME ~nested', NEW h \in DOMAIN watches', fired'[h] > 0, watches'[h].remaining = 0
        PROVE  h \in pending'
    <3>1. CASE h = new
      BY <1>2, <1>4, <2>4, <3>1, SMTT(60)
    <3>2. CASE h \in DOMAIN watches
      BY <1>2, <1>6, <2>4, <3>2 DEF ObserverIInv, PendingOK
    <3> QED
      BY <1>6, <3>1, <3>2
  <2> QED
    BY <2>1, <2>2, <2>3, <2>4 DEF PendingOK
<1> QED
  BY <1>10, <1>11, <1>13, <1>14, <1>15 DEF ObserverIInv

\* A new loop, also from a callback.
LEMMA NotifyKeeps ==
    ASSUME ObserverIInv, NEW path \in EventPath, NEW type \in EventType, notify(path, type)
    PROVE  ObserverIInv'
<1> DEFINE n == Len(calls)
           frame == [path |-> path, type |-> type, todo |-> DOMAIN watches, at |-> None0]
<1>1. /\ calls \in Seq(Loop) /\ n \in Nat /\ DOMAIN calls = 1 .. n
      /\ DOMAIN watches \subseteq DOMAIN limit /\ DOMAIN limit \subseteq Handle
  BY ObserverTypes
<1>2. /\ Idle \/ Calling
      /\ notices < MaxNotices /\ notices' = notices + 1
      /\ pending' = {} /\ calls' = Append(calls, frame)
      /\ nested' = (nested \/ Calling) /\ UNCHANGED <<watches, limit, fired, rehashed, again, dropped>>
  BY DEF notify, Free
<1>3. frame \in Loop /\ frame.at = None0
  BY <1>1 DEF Loop
<1> HIDE DEF frame
<1>4. /\ calls' \in Seq(Loop) /\ Len(calls') = n + 1 /\ DOMAIN calls' = 1 .. n + 1
      /\ calls'[n + 1] = frame /\ \A i \in 1 .. n : calls'[i] = calls[i]
  BY <1>1, <1>2, <1>3, SMTT(60)
<1>5. \A i \in 1 .. n + 1 : i \in 1 .. n \/ i = n + 1
  BY <1>1, SMTT(60)
<1>6. \A h \in Handle : h \in Busy' <=> h \in Busy
  <2> SUFFICES ASSUME NEW h \in Handle PROVE h \in Busy' <=> h \in Busy
    OBVIOUS
  <2>1. h # None0
    BY ObserverTypes
  <2>2. ASSUME NEW i \in DOMAIN calls', calls'[i].at = h PROVE \E k \in DOMAIN calls : calls[k].at = h
    BY <1>1, <1>3, <1>4, <1>5, <2>1, <2>2
  <2>3. ASSUME NEW i \in DOMAIN calls, calls[i].at = h PROVE i \in DOMAIN calls' /\ calls'[i].at = h
    BY <1>1, <1>4, <2>3, SMTT(60)
  <2> QED
    BY <2>2, <2>3 DEF Busy
<1>7. ObserverTypeOK'
  <2>1. notices' \in 0 .. MaxNotices
    BY <1>2, ObserverAssumption, SMTT(60) DEF ObserverIInv, ObserverTypeOK
  <2>2. nested' \in BOOLEAN
    BY <1>2
  <2> QED
    BY <1>2, <1>4, <2>1, <2>2 DEF ObserverIInv, ObserverTypeOK
<1>8. AtMostNShots' /\ LimitsOK'
  BY <1>2 DEF ObserverIInv, AtMostNShots, LimitsOK
<1>9. ShotsBalance'
  <2> SUFFICES ASSUME NEW h \in DOMAIN watches \ again, limit[h] >= 0
               PROVE  /\ watches[h].remaining >= 0
                      /\ fired[h] + watches[h].remaining = limit[h] + (IF h \in Busy' THEN 1 ELSE 0)
    BY <1>2 DEF ShotsBalance
  <2>1. h \in Busy' <=> h \in Busy
    BY <1>1, <1>6
  <2> QED
    BY <2>1 DEF ObserverIInv, ShotsBalance
<1>10. RunningOK'
  <2> SUFFICES ASSUME NEW i \in DOMAIN calls', calls'[i].at \notin again \cup {None0}
               PROVE  /\ calls'[i].at \in DOMAIN limit
                      /\ \A j \in DOMAIN calls' : calls'[j].at = calls'[i].at => j = i
                      /\ calls'[i].at \in DOMAIN watches \cup dropped
                      /\ calls'[i].at \in DOMAIN watches => watches[calls'[i].at].remaining # 0
    BY <1>2 DEF RunningOK
  <2>1. i \in DOMAIN calls /\ calls'[i] = calls[i]
    BY <1>1, <1>3, <1>4, <1>5
  <2>2. /\ calls[i].at \in DOMAIN limit /\ calls[i].at \in DOMAIN watches \cup dropped
        /\ \A j \in DOMAIN calls : calls[j].at = calls[i].at => j = i
        /\ calls[i].at \in DOMAIN watches => watches[calls[i].at].remaining # 0
    BY <2>1 DEF ObserverIInv, RunningOK
  <2>3. ASSUME NEW j \in DOMAIN calls', calls'[j].at = calls'[i].at PROVE j = i
    BY <1>1, <1>3, <1>4, <1>5, <2>1, <2>2, <2>3
  <2> QED
    BY <2>1, <2>2, <2>3
<1>11. PendingOK'
  <2>1. ~Idle'
    BY <1>1, <1>4, SMTT(60) DEF Idle
  <2>2. ASSUME ~nested' PROVE Idle /\ ~nested
    BY <1>2, <2>2
  <2>3. ASSUME ~nested' PROVE Len(calls') <= 1
    BY <1>4, <2>2, <2>3, SMTT(60) DEF Idle
  <2>4. ASSUME ~nested', NEW h \in DOMAIN watches PROVE ~(fired[h] > 0 /\ watches[h].remaining = 0)
    BY <2>2, <2>4 DEF ObserverIInv, PendingOK
  <2> QED
    BY <1>2, <2>1, <2>3, <2>4 DEF PendingOK
<1> QED
  BY <1>7, <1>8, <1>9, <1>10, <1>11 DEF ObserverIInv

\* A round of a loop, up to the callback.
LEMMA VisitKeeps ==
    ASSUME ObserverIInv, NEW h \in Handle, Visit(h)
    PROVE  ObserverIInv'
<1> DEFINE n == Len(calls)
           hit == wanted(watches[h], Top.path, Top.type)
           calling == hit /\ watches[h].remaining # 0
           at == IF calling THEN h ELSE None0
           todo == Top.todo \ {h}
<1>1. /\ ~Idle /\ Top.at = None0 /\ h \in Top.todo /\ h \in DOMAIN watches
      /\ pending' = (IF hit /\ ~calling THEN pending \cup {h} ELSE pending)
      /\ fired' = (IF calling THEN [fired EXCEPT ![h] = @ + 1] ELSE fired)
      /\ again' = (IF calling THEN again \cup (Busy \cap {h}) ELSE again)
      /\ calls' = Round(todo, at) /\ UNCHANGED <<watches, limit, notices, rehashed, nested, dropped>>
  BY DEF Visit
<1>2. /\ calls \in Seq(Loop) /\ n \in Nat /\ DOMAIN calls = 1 .. n /\ n >= 1 /\ n \in DOMAIN calls
      /\ Top = calls[n] /\ calls[n] \in Loop
  <2>1. calls \in Seq(Loop) /\ n \in Nat /\ DOMAIN calls = 1 .. n
    BY ObserverTypes
  <2>2. n >= 1
    BY <1>1, <2>1, SMTT(60) DEF Idle
  <2> QED
    BY <2>1, <2>2, SMTT(60) DEF Top
<1>3. todo \in SUBSET Handle /\ at \in Handle \cup {None0}
  BY <1>2 DEF Loop
<1> HIDE DEF todo, at
<1>4. /\ calls' \in Seq(Loop) /\ Len(calls') = n /\ DOMAIN calls' = DOMAIN calls /\ ~Idle'
      /\ \A i \in DOMAIN calls : i # n => calls'[i].at = calls[i].at
      /\ calls'[n].at = at
  BY <1>1, <1>3, RoundFacts
<1>5. /\ h # None0 /\ fired \in [Handle -> Nat] /\ fired[h] \in Nat /\ limit[h] \in Nat \cup {-1}
      /\ watches[h].remaining \in Nat \cup {-1} /\ watches[h].remaining <= limit[h]
      /\ h \in DOMAIN limit /\ DOMAIN limit \subseteq Handle
  BY <1>1, ObserverTypes
<1>6. /\ again \subseteq again' /\ \A g \in again' : g \in again \/ g = h
      /\ calling /\ h \notin again' => h \notin Busy
  BY <1>1
<1>7. \A g \in Handle : g \in Busy' <=> g \in Busy \/ (calling /\ g = h)
  <2> SUFFICES ASSUME NEW g \in Handle PROVE g \in Busy' <=> g \in Busy \/ (calling /\ g = h)
    OBVIOUS
  <2>1. g # None0
    BY ObserverTypes
  <2>2. ASSUME NEW i \in DOMAIN calls', calls'[i].at = g PROVE g \in Busy \/ (calling /\ g = h)
    <3>1. CASE i = n
      BY <1>4, <2>1, <2>2, <3>1 DEF at
    <3>2. CASE i # n
      BY <1>4, <2>2, <3>2 DEF Busy
    <3> QED
      BY <3>1, <3>2
  <2>3. ASSUME NEW i \in DOMAIN calls, calls[i].at = g PROVE i \in DOMAIN calls' /\ calls'[i].at = g
    BY <1>1, <1>2, <1>4, <2>1, <2>3
  <2>4. ASSUME calling, g = h PROVE n \in DOMAIN calls' /\ calls'[n].at = g
    BY <1>2, <1>4, <2>4 DEF at
  <2> QED
    BY <2>2, <2>3, <2>4 DEF Busy
<1>8. /\ fired' \in [Handle -> Nat] /\ \A g \in Handle : g # h => fired'[g] = fired[g]
      /\ fired'[h] = fired[h] + (IF calling THEN 1 ELSE 0)
  <2> HIDE DEF calling, n, hit
  <2> QED
    BY <1>1, <1>5, SMTT(60)
<1>9. ObserverTypeOK'
  <2>1. pending' \subseteq Handle /\ again' \subseteq Handle
    BY <1>1, <1>6 DEF ObserverIInv, ObserverTypeOK
  <2> QED
    BY <1>1, <1>4, <1>8, <2>1 DEF ObserverIInv, ObserverTypeOK
<1>10. ShotsBalance'
  <2> SUFFICES ASSUME NEW g \in DOMAIN watches \ again', limit[g] >= 0
               PROVE  /\ watches[g].remaining >= 0
                      /\ fired'[g] + watches[g].remaining = limit[g] + (IF g \in Busy' THEN 1 ELSE 0)
    BY <1>1 DEF ShotsBalance
  <2>1. g \in Handle /\ fired[g] \in Nat /\ limit[g] \in Int /\ watches[g].remaining \in Int
    BY ObserverTypes, SMTT(60)
  <2>2. /\ watches[g].remaining >= 0
        /\ fired[g] + watches[g].remaining = limit[g] + (IF g \in Busy THEN 1 ELSE 0)
    BY <1>6 DEF ObserverIInv, ShotsBalance
  <2>3. CASE calling /\ g = h
    <3>1. g \notin Busy /\ g \in Busy' /\ fired'[g] = fired[g] + 1
      BY <1>6, <1>7, <1>8, <2>1, <2>3
    <3> QED
      BY <2>1, <2>2, <3>1, SMTT(60)
  <2>4. CASE ~(calling /\ g = h)
    <3>1. (g \in Busy <=> g \in Busy') /\ fired'[g] = fired[g]
      BY <1>7, <1>8, <2>1, <2>4, SMTT(60)
    <3> QED
      BY <2>2, <3>1
  <2> QED
    BY <2>3, <2>4
<1>11. AtMostNShots'
  <2> SUFFICES ASSUME NEW g \in DOMAIN limit \ again', limit[g] >= 0 PROVE fired'[g] <= limit[g]
    BY <1>1 DEF AtMostNShots
  <2>0. g \notin again
    BY <1>6
  <2>1. g \in Handle /\ fired[g] <= limit[g] /\ fired[g] \in Nat /\ limit[g] \in Int
    BY <1>5, <2>0, ObserverTypes, SMTT(60) DEF ObserverIInv, AtMostNShots
  <2>2. CASE calling /\ g = h
    <3>1. watches[g].remaining >= 0 /\ fired[g] + watches[g].remaining = limit[g] + 0
      BY <1>1, <1>6, <2>0, <2>2 DEF ObserverIInv, ShotsBalance
    <3>2. watches[g].remaining # 0 /\ watches[g].remaining \in Int /\ fired'[g] = fired[g] + 1
      BY <1>5, <1>8, <2>2, SMTT(60)
    <3> QED
      BY <2>1, <3>1, <3>2, SMTT(60)
  <2>3. CASE ~(calling /\ g = h)
    BY <1>8, <2>1, <2>3, SMTT(60)
  <2> QED
    BY <2>2, <2>3
<1>12. LimitsOK'
  <2>1. \A g \in Handle : g \notin DOMAIN limit => g # h
    BY <1>5
  <2> QED
    BY <1>1, <1>8, <2>1 DEF ObserverIInv, LimitsOK
<1>13. RunningOK'
  <2> SUFFICES ASSUME NEW i \in DOMAIN calls, calls'[i].at \notin again' \cup {None0}
               PROVE  /\ calls'[i].at \in DOMAIN limit
                      /\ \A j \in DOMAIN calls : calls'[j].at = calls'[i].at => j = i
                      /\ calls'[i].at \in DOMAIN watches \cup dropped
                      /\ calls'[i].at \in DOMAIN watches => watches[calls'[i].at].remaining # 0
    BY <1>1, <1>4 DEF RunningOK
  <2>1. CASE i = n
    <3>1. calling /\ calls'[i].at = h /\ h \notin Busy
      BY <1>4, <1>6, <2>1 DEF at
    <3>2. ASSUME NEW j \in DOMAIN calls, calls'[j].at = h, j # n PROVE FALSE
      BY <1>4, <3>1, <3>2 DEF Busy
    <3> QED
      BY <1>1, <1>5, <2>1, <3>1, <3>2
  <2>2. CASE i # n
    <3>1. calls'[i].at = calls[i].at /\ calls[i].at \in Busy
      BY <1>4, <2>2 DEF Busy
    <3>2. /\ calls[i].at \in DOMAIN limit /\ calls[i].at \in DOMAIN watches \cup dropped
          /\ \A j \in DOMAIN calls : calls[j].at = calls[i].at => j = i
          /\ calls[i].at \in DOMAIN watches => watches[calls[i].at].remaining # 0
      BY <1>6, <3>1 DEF ObserverIInv, RunningOK
    <3>3. calling => calls[i].at # h
      BY <1>6, <3>1
    <3>4. ASSUME NEW j \in DOMAIN calls, calls'[j].at = calls[i].at PROVE j = i
      BY <1>4, <3>1, <3>2, <3>3, <3>4 DEF at
    <3> QED
      BY <3>1, <3>2, <3>4
  <2> QED
    BY <2>1, <2>2
<1>14. PendingOK'
  <2>1. pending' \subseteq DOMAIN limit'
    BY <1>1, <1>5 DEF ObserverIInv, PendingOK
  <2>2. \A g \in pending' \cap DOMAIN watches' : watches'[g].remaining = 0
    BY <1>1 DEF ObserverIInv, PendingOK
  <2>3. ASSUME ~nested, NEW g \in DOMAIN watches, fired'[g] > 0, watches[g].remaining = 0
        PROVE  g \in pending'
    <3>1. pending \subseteq pending'
      BY <1>1
    <3>2. ~(calling /\ g = h) /\ g \in Handle
      BY <2>3, ObserverTypes
    <3>3. fired'[g] = fired[g]
      BY <1>5, <1>8, <3>2, SMTT(60)
    <3> QED
      BY <2>3, <3>1, <3>3 DEF ObserverIInv, PendingOK
  <2>4. ~nested => Len(calls') <= 1
    BY <1>4 DEF ObserverIInv, PendingOK
  <2> QED
    BY <1>1, <1>4, <2>1, <2>2, <2>3, <2>4 DEF PendingOK
<1> QED
  BY <1>9, <1>10, <1>11, <1>12, <1>13, <1>14 DEF ObserverIInv

\* The callback of h returns.
LEMMA ReturnKeeps ==
    ASSUME ObserverIInv, Return
    PROVE  ObserverIInv'
<1> DEFINE n == Len(calls)
           h == Top.at
           r == watches[h].remaining
           left == IF r > 0 THEN r - 1 ELSE r
           todo == Top.todo
<1>1. /\ ~Idle /\ h # None0 /\ h \in DOMAIN watches
      /\ watches' = [watches EXCEPT ![h].remaining = IF @ > 0 THEN @ - 1 ELSE @]
      /\ pending' = (IF r = 1 THEN pending \cup {h} ELSE pending)
      /\ calls' = Round(todo, None0) /\ UNCHANGED <<limit, fired, notices, rehashed, nested, again, dropped>>
  BY DEF Return, Calling
<1>2. /\ calls \in Seq(Loop) /\ n \in Nat /\ DOMAIN calls = 1 .. n /\ n >= 1 /\ n \in DOMAIN calls
      /\ Top = calls[n] /\ calls[n] \in Loop /\ h = calls[n].at
  <2>1. calls \in Seq(Loop) /\ n \in Nat /\ DOMAIN calls = 1 .. n
    BY ObserverTypes
  <2>2. n >= 1
    BY <1>1, <2>1, SMTT(60) DEF Idle
  <2> QED
    BY <2>1, <2>2, SMTT(60) DEF Top
<1>3. todo \in SUBSET Handle
  BY <1>2 DEF Loop
<1>4. h \notin again => r # 0 /\ \A i \in DOMAIN calls : i # n => calls[i].at # h
  BY <1>1, <1>2 DEF ObserverIInv, RunningOK
<1>5. /\ h \in Handle /\ fired[h] \in Nat /\ limit[h] \in Nat \cup {-1} /\ watches[h] \in Watch
      /\ r \in Nat \cup {-1} /\ r <= limit[h] /\ h \in DOMAIN limit /\ DOMAIN limit \subseteq Handle
  BY <1>1, ObserverTypes
<1>6. /\ DOMAIN watches' = DOMAIN watches /\ watches'[h] = [watches[h] EXCEPT !.remaining = left]
      /\ \A g \in DOMAIN watches : g # h => watches'[g] = watches[g]
  BY <1>1
<1>7. /\ left \in Nat \cup {-1} /\ left <= limit[h] /\ (left = 0 => r \in {0, 1}) /\ (r > 0 => left = r - 1)
      /\ r \in {0, 1} => left = 0
  BY <1>5, SMTT(60)
<1> HIDE DEF left, todo, h
<1>8. /\ calls' \in Seq(Loop) /\ Len(calls') = n /\ DOMAIN calls' = DOMAIN calls /\ ~Idle'
      /\ \A i \in DOMAIN calls : i # n => calls'[i].at = calls[i].at
      /\ calls'[n].at = None0
  BY <1>1, <1>3, RoundFacts
<1>9. /\ watches'[h] \in Watch /\ watches'[h].remaining = left
  BY <1>5, <1>6, <1>7 DEF Watch
<1>10. h \in Busy /\ (h \notin again => h \notin Busy') /\ \A g \in Handle : g # h => (g \in Busy' <=> g \in Busy)
  <2>1. h \in Busy
    BY <1>2 DEF Busy
  <2>2. h \notin again => h \notin Busy'
    BY <1>1, <1>2, <1>4, <1>8 DEF Busy
  <2>3. ASSUME NEW g \in Handle, g # h PROVE g \in Busy' <=> g \in Busy
    <3>1. g # None0
      BY ObserverTypes
    <3>2. ASSUME NEW i \in DOMAIN calls PROVE calls'[i].at = g <=> calls[i].at = g
      BY <1>2, <1>8, <2>3, <3>1
    <3> QED
      BY <1>8, <3>2 DEF Busy
  <2> QED
    BY <2>1, <2>2, <2>3
<1>12. ObserverTypeOK'
  <2>1. \A g \in DOMAIN watches' : watches'[g] \in Watch /\ watches'[g].remaining <= limit'[g]
    BY <1>1, <1>6, <1>7, <1>9 DEF ObserverIInv, ObserverTypeOK
  <2>2. pending' \subseteq Handle
    BY <1>1, <1>5 DEF ObserverIInv, ObserverTypeOK
  <2> QED
    BY <1>1, <1>6, <1>8, <2>1, <2>2 DEF ObserverIInv, ObserverTypeOK
<1>13. AtMostNShots' /\ LimitsOK'
  BY <1>1 DEF ObserverIInv, AtMostNShots, LimitsOK
<1>14. ShotsBalance'
  <2> SUFFICES ASSUME NEW g \in DOMAIN watches \ again, limit[g] >= 0
               PROVE  /\ watches'[g].remaining >= 0
                      /\ fired[g] + watches'[g].remaining = limit[g] + (IF g \in Busy' THEN 1 ELSE 0)
    BY <1>1, <1>6 DEF ShotsBalance
  <2>1. g \in Handle /\ fired[g] \in Nat /\ limit[g] \in Int /\ watches[g].remaining \in Int
    BY ObserverTypes, SMTT(60)
  <2>2. /\ watches[g].remaining >= 0
        /\ fired[g] + watches[g].remaining = limit[g] + (IF g \in Busy THEN 1 ELSE 0)
    BY DEF ObserverIInv, ShotsBalance
  <2>3. CASE g = h
    <3>1. r > 0 /\ left = r - 1 /\ r \in Int
      BY <1>4, <1>5, <1>7, <2>2, <2>3, SMTT(60)
    <3>2. fired[g] + r = limit[g] + 1 /\ watches'[g].remaining = left
      BY <1>9, <1>10, <2>2, <2>3
    <3>3. g \notin Busy'
      BY <1>10, <2>3
    <3>4. left >= 0 /\ fired[g] + left = limit[g] + 0
      BY <2>1, <3>1, <3>2, SMTT(60)
    <3> QED
      BY <3>2, <3>3, <3>4
  <2>4. CASE g # h
    <3>1. (g \in Busy <=> g \in Busy') /\ watches'[g] = watches[g]
      BY <1>6, <1>10, <2>1, <2>4
    <3> QED
      BY <2>2, <3>1
  <2> QED
    BY <2>3, <2>4
<1>15. RunningOK'
  <2> SUFFICES ASSUME NEW i \in DOMAIN calls, calls'[i].at \notin again \cup {None0}
               PROVE  /\ calls'[i].at \in DOMAIN limit
                      /\ \A j \in DOMAIN calls : calls'[j].at = calls'[i].at => j = i
                      /\ calls'[i].at \in DOMAIN watches \cup dropped
                      /\ calls'[i].at \in DOMAIN watches => watches'[calls'[i].at].remaining # 0
    BY <1>1, <1>6, <1>8 DEF RunningOK
  <2>1. i # n /\ calls'[i].at = calls[i].at
    BY <1>8
  <2>2. /\ calls[i].at \in DOMAIN limit /\ calls[i].at \in DOMAIN watches \cup dropped
        /\ \A j \in DOMAIN calls : calls[j].at = calls[i].at => j = i
        /\ calls[i].at \in DOMAIN watches => watches[calls[i].at].remaining # 0
    BY <2>1 DEF ObserverIInv, RunningOK
  <2>3. calls[i].at # h
    BY <1>4, <2>1
  <2>4. ASSUME NEW j \in DOMAIN calls, calls'[j].at = calls[i].at PROVE j = i
    BY <1>8, <2>1, <2>2, <2>4
  <2> QED
    BY <1>6, <2>1, <2>2, <2>3, <2>4
<1>16. PendingOK'
  <2>1. pending' \subseteq DOMAIN limit' /\ pending \subseteq pending'
    BY <1>1, <1>5 DEF ObserverIInv, PendingOK
  <2>2. ASSUME NEW g \in pending', g \in DOMAIN watches' PROVE watches'[g].remaining = 0
    <3>1. CASE g = h
      <4>1. r \in {0, 1}
        BY <1>1, <2>2, <3>1 DEF ObserverIInv, PendingOK
      <4> QED
        BY <1>7, <1>9, <3>1, <4>1
    <3>2. CASE g # h
      BY <1>1, <1>6, <2>2, <3>2 DEF ObserverIInv, PendingOK
    <3> QED
      BY <3>1, <3>2
  <2>3. ASSUME ~nested, NEW g \in DOMAIN watches, fired[g] > 0, watches'[g].remaining = 0
        PROVE  g \in pending'
    <3>1. CASE g = h
      <4>1. r \in {0, 1}
        BY <1>7, <1>9, <2>3, <3>1
      <4>2. CASE r = 1
        BY <1>1, <3>1, <4>2
      <4>3. CASE r = 0
        BY <2>1, <2>3, <3>1, <4>3 DEF ObserverIInv, PendingOK
      <4> QED
        BY <4>1, <4>2, <4>3
    <3>2. CASE g # h
      BY <1>6, <2>1, <2>3, <3>2 DEF ObserverIInv, PendingOK
    <3> QED
      BY <3>1, <3>2
  <2>4. ~nested => Len(calls') <= 1
    BY <1>8 DEF ObserverIInv, PendingOK
  <2> QED
    BY <1>1, <1>6, <1>8, <2>1, <2>2, <2>3, <2>4 DEF PendingOK
<1> QED
  BY <1>12, <1>13, <1>14, <1>15, <1>16 DEF ObserverIInv

\* The table of watches before the first one.
LEMMA ObserverStart ==
    ASSUME ObserverInit
    PROVE  ObserverIInv
<1>1. /\ DOMAIN watches = {} /\ limit = <<>> /\ pending = {} /\ calls = <<>> /\ notices = 0
      /\ fired = [h \in Handle |-> 0] /\ nested = FALSE /\ rehashed = 0 /\ again = {} /\ dropped = {}
  BY DEF ObserverInit
<1>2. Len(limit) = 0 /\ DOMAIN limit = {} /\ limit \in Seq(Int) /\ Len(calls) = 0 /\ DOMAIN calls = {}
      /\ calls \in Seq(Loop)
  BY <1>1, SMTT(60)
<1>3. ObserverTypeOK
  <2>1. notices \in 0 .. MaxNotices /\ Len(limit) <= MaxWatches
    BY <1>1, <1>2, ObserverAssumption, SMTT(60)
  <2>2. nested \in BOOLEAN /\ pending \subseteq Handle /\ again \subseteq Handle /\ dropped \subseteq Handle
    BY <1>1
  <2>4. rehashed \in Nat
    BY <1>1
  <2>3. fired \in [Handle -> Nat]
    BY <1>1
  <2> QED
    BY <1>1, <1>2, <2>1, <2>2, <2>3, <2>4 DEF ObserverTypeOK
<1>4. AtMostNShots /\ LimitsOK /\ ShotsBalance /\ RunningOK
  BY <1>1, <1>2 DEF AtMostNShots, LimitsOK, ShotsBalance, RunningOK
<1>5. PendingOK
  BY <1>1, <1>2, SMTT(60) DEF PendingOK
<1> QED
  BY <1>3, <1>4, <1>5 DEF ObserverIInv

\* A watch with a limit that is not called back from its own call is called at
\* most so often, and stays in the table while its callback runs unless the
\* callback removes it; without nested notifications it leaves the table when
\* it has had its own (observer.cpp).  For any watches, and callbacks that
\* watch, unwatch, clear and notify.
THEOREM ObserverCorrect == ObserverSpec => []ObserverInv
<1>1. ObserverInit => ObserverIInv
  BY ObserverStart
<1>2. ObserverIInv /\ [ObserverNext]_observerVars => ObserverIInv'
  <2> SUFFICES ASSUME ObserverIInv, [ObserverNext]_observerVars PROVE ObserverIInv'
    OBVIOUS
  <2>1. CASE UNCHANGED observerVars
    <3>1. /\ watches' = watches /\ limit' = limit /\ pending' = pending /\ calls' = calls
          /\ fired' = fired /\ notices' = notices /\ nested' = nested
          /\ rehashed' = rehashed /\ again' = again /\ dropped' = dropped
      BY <2>1 DEF observerVars
    <3>2. Busy' = Busy /\ Idle' = Idle
      BY <3>1 DEF Busy, Idle
    <3>3. ObserverTypeOK' /\ AtMostNShots' /\ LimitsOK'
      BY <3>1 DEF ObserverIInv, ObserverTypeOK, AtMostNShots, LimitsOK
    <3>4. ShotsBalance'
      BY <3>1, <3>2 DEF ObserverIInv, ShotsBalance
    <3>5. RunningOK'
      BY <3>1 DEF ObserverIInv, RunningOK
    <3>6. PendingOK'
      BY <3>1, <3>2 DEF ObserverIInv, PendingOK
    <3> QED
      BY <3>3, <3>4, <3>5, <3>6 DEF ObserverIInv
  <2> QED
    BY <2>1, RemovalsKeep, WatchKeeps, NotifyKeeps, VisitKeeps, ReturnKeeps DEF ObserverNext
<1>3. ObserverIInv => ObserverInv
  <2> SUFFICES ASSUME ObserverIInv PROVE ObserverInv
    OBVIOUS
  <2>1. RunningWatchAlive
    BY DEF ObserverIInv, RunningOK, RunningWatchAlive, Busy
  <2>2. SpentWatchesLeave
    BY DEF ObserverIInv, PendingOK, SpentWatchesLeave
  <2> QED
    BY <2>1, <2>2 DEF ObserverIInv, ObserverInv
<1> QED
  BY <1>1, <1>2, <1>3, PTL DEF ObserverSpec

-----------------------------------------------------------------------------
(***************************************************************************)
(* The register, for every set of nodes, every epoch and width of the      *)
(* timestamps, and every history of connections, writes, losses, repeats   *)
(* and reordering: writes are never mixed, only a write moves a register   *)
(* back, and the last write wins.                                          *)
(***************************************************************************)

USE ReplicationAssumption, LwwAssumption

-----------------------------------------------------------------------------
(* What the register's operators return.                                   *)

\* merge() keeps one of the two contents whole, and never the lower one.
LEMMA MergeFacts ==
    ASSUME NEW r \in Register, NEW d \in Register
    PROVE  /\ merge(r, d) \in {r, d}
           /\ ~incoming_wins(r, merge(r, d))
<1>1. \A c \in Register : c.ts \in 0 .. TsMod - 1 /\ c.node \in Node
  BY DEF Register
<1>2. \A c \in Register : c.ts \in Int
  BY <1>1, SMTT(60)
<1>3. \A n \in Node : n \in Int
  BY SMTT(60)
<1>4. \A c \in Register : c.node \in Int
  BY <1>1, <1>3
<1> QED
  BY <1>2, <1>4, SMTT(60) DEF merge, incoming_wins

\* elapsed_us() fits the width of a timestamp, whatever the epoch.
LEMMA ElapsedFacts ==
    ASSUME TypeOK, NEW p \in Node, NEW q \in Node
    PROVE  elapsed_us(p, q) \in 0 .. TsMod - 1
<1>1. time - epoch[p][q] \in Int
  BY SMTT(60) DEF TypeOK
<1> QED
  BY <1>1, SMTT(60) DEF elapsed_us

\* A write is a register content with a value.
LEMMA WrittenFacts ==
    ASSUME TypeOK, NEW p \in Node, NEW ts \in 0 .. TsMod - 1
    PROVE  written(p, ts) \in Register
<1>1. reg[p] \in Register /\ version[p] \in Nat
  BY DEF TypeOK
<1>2. <<p, version[p] + 1>> \in Value
  BY <1>1, SMTT(60) DEF Value
<1> QED
  BY <1>1, <1>2 DEF written, Register

-----------------------------------------------------------------------------
(* Types.                                                                  *)

\* Registers start empty, each with its own node id.
LEMMA TypeInit == Init => TypeOK
<1> SUFFICES ASSUME Init PROVE TypeOK
  OBVIOUS
<1>1. MeshTypeOK(Register)
  BY SMTT(60) DEF Init, MeshInit, MeshTypeOK
<1>2. reg \in [Node -> Register]
  BY SMTT(60) DEF Init, Register, Value, None
<1>3. opened \in [Node -> SUBSET Node]
  BY <1>1 DEF Init, MeshTypeOK
<1> QED
  BY <1>1, <1>2, <1>3 DEF Init, TypeOK

\* Every step keeps the types.
LEMMA TypeStep == TypeOK /\ [Next]_vars => TypeOK'
<1> SUFFICES ASSUME TypeOK, [Next]_vars PROVE TypeOK'
  OBVIOUS
<1> USE DEF TypeOK, MeshTypeOK
<1>1. CASE MeshStep
  <2>1. known' \in [Node -> SUBSET Node]
    BY <1>1, SMTT(60) DEF MeshStep, register_peer_key, Lose
  <2>2. net' \subseteq net /\ lost' \in 0 .. MaxLoss
    BY <1>1, SMTT(60) DEF MeshStep, register_peer_key, Lose
  <2>3. missed' \in BOOLEAN
    BY <1>1 DEF MeshStep
  <2>4. UNCHANGED <<conn, declared, reg, dirty, version, writes, regressed, clockVars>>
    BY <1>1 DEF MeshStep, register_peer_key, Lose
  <2> QED
    BY <2>1, <2>2, <2>3, <2>4 DEF clockVars
<1>2. CASE Tick
  BY <1>2, SMTT(60) DEF Tick, meshVars, regVars
<1>3. ASSUME NEW p \in Node, NEW q \in Node, Opened(p, q)
      PROVE  TypeOK'
  <2>1. opened' \in [Node -> SUBSET Node] /\ epoch' \in [Node -> [Node -> Nat]]
    BY <1>3, SMTT(60) DEF Opened
  <2>2. primary' \in [Node -> Node]
    BY <1>3, <2>1, SMTT(60) DEF Opened
  <2> QED
    BY <1>3, <2>1, <2>2 DEF Opened, meshVars, regVars
<1>4. ASSUME NEW p \in Node, NEW q \in Node, Connected(p, q)
      PROVE  TypeOK'
  <2>1. epoch' \in [Node -> [Node -> Nat]]
    BY <1>4, SMTT(60) DEF Connected
  <2>2. conn' \in [Node -> SUBSET Node]
    BY <1>4, SMTT(60) DEF Connected, ConnectionUp
  <2>3. UNCHANGED <<known, declared, net, lost, regVars, time, opened, primary>>
    BY <1>4 DEF Connected, ConnectionUp
  <2> QED
    BY <2>1, <2>2, <2>3 DEF regVars
<1>5. ASSUME NEW p \in Node, NEW q \in Node, Closed(p, q)
      PROVE  TypeOK'
  BY <1>5 DEF Closed, ConnectionDown, regVars, clockVars
<1>6. ASSUME NEW p \in Node, NEW q \in Node, Removed(p, q)
      PROVE  TypeOK'
  <2>1. opened' \in [Node -> SUBSET Node]
    BY <1>6 DEF Removed
  <2>2. FirstOf(p, opened'[p]) \subseteq Node
    BY <2>1 DEF FirstOf
  <2>3. PICK r \in FirstOf(p, opened'[p]) : primary' = [primary EXCEPT ![p] = r]
    BY <1>6 DEF Removed
  <2>4. primary' \in [Node -> Node]
    BY <2>2, <2>3
  <2> QED
    BY <1>6, <2>1, <2>4, SMTT(60) DEF Removed, regVars
<1>7. ASSUME NEW p \in Node, Declare(p)
      PROVE  TypeOK'
  BY <1>7 DEF Declare, declare, regVars, clockVars
<1>8. ASSUME NEW p \in Node, set_lww(p)
      PROVE  TypeOK'
  <2> DEFINE ts == IF opened[p] # {} THEN elapsed_us(p, primary[p]) ELSE 0
  <2>1. ts \in 0 .. TsMod - 1
    <3>1. elapsed_us(p, primary[p]) \in 0 .. TsMod - 1
      BY ElapsedFacts
    <3>2. 0 \in 0 .. TsMod - 1
      BY SMTT(60)
    <3> QED
      BY <3>1, <3>2
  <2>2. written(p, ts) \in Register
    BY <2>1, WrittenFacts
  <2>3. reg' = [reg EXCEPT ![p] = written(p, ts)] /\ writes' = writes \cup {written(p, ts)}
    BY <1>8 DEF set_lww
  <2>4. dirty' \in SUBSET Node /\ version' \in [Node -> Nat] /\ regressed' \in BOOLEAN
    BY <1>8, SMTT(60) DEF set_lww
  <2> QED
    BY <1>8, <2>2, <2>3, <2>4, SMTT(60) DEF set_lww, meshVars, clockVars
<1>9. ASSUME NEW p \in Node, Flush(p)
      PROVE  TypeOK'
  <2>1. net' \in SUBSET Datagram(Register)
    <3>1. \A q \in conn[p] : [author |-> p, to |-> q, data |-> reg[p]] \in Datagram(Register)
      BY DEF Datagram
    <3> QED
      BY <1>9, <3>1, SMTT(60) DEF Flush, send_deltas
  <2> QED
    BY <1>9, <2>1 DEF Flush, send_deltas, clockVars
<1>10. ASSUME NEW p \in Node, NEW m \in net, Poll(p, m)
       PROVE  TypeOK'
  <2>1. m.data \in Register
    BY DEF Datagram
  <2>2. merge(reg[p], m.data) \in Register
    BY <2>1, MergeFacts, SMTT(60)
  <2>3. reg' \in [Node -> Register]
    BY <1>10, <2>2 DEF Poll
  <2> QED
    BY <1>10, <2>3 DEF Poll, receive, clockVars
<1>11. CASE UNCHANGED vars
  BY <1>11 DEF vars, meshVars, regVars, clockVars
<1> QED
  BY <1>1, <1>2, <1>3, <1>4, <1>5, <1>6, <1>7, <1>8, <1>9, <1>10, <1>11 DEF Next, ReplicationStep

-----------------------------------------------------------------------------
(* Writes are not mixed.                                                   *)

\* Only set_lww makes a content, merge takes one over whole, and flush sends
\* the register's only after a write or a merge gave it one.  The latter is
\* why a dirty register must have a value, and merge could give it only a
\* write's.
DirtyHasValue ==
    /\ \A p \in dirty : reg[p].value # None
    /\ \A w \in writes : w.value # None

\* The value of a write is not the initial one: node ids are numbers, and the
\* number of a write is at least 1.
LEMMA WrittenNotNone ==
    ASSUME TypeOK, NEW p \in Node, NEW ts
    PROVE  written(p, ts).value # None
<1>1. version[p] + 1 # 0 /\ reg[p] \in Register
  BY SMTT(60) DEF TypeOK
<1>2. written(p, ts).value = <<p, version[p] + 1>>
  BY <1>1 DEF written, Register
<1> QED
  BY <1>1, <1>2, SMTT(60) DEF None

\* Every step keeps writes whole and dirty registers written.
LEMMA MixStep ==
    TypeOK /\ NoMixedWrites /\ DirtyHasValue /\ [Next]_vars => (NoMixedWrites /\ DirtyHasValue)'
<1> SUFFICES ASSUME TypeOK, NoMixedWrites, DirtyHasValue, [Next]_vars
             PROVE  (NoMixedWrites /\ DirtyHasValue)'
  OBVIOUS
<1> USE DEF NoMixedWrites, DirtyHasValue
<1>1. ASSUME UNCHANGED <<reg, dirty, writes>>, net' \subseteq net
      PROVE  (NoMixedWrites /\ DirtyHasValue)'
  BY <1>1
<1>2. CASE MeshStep
  BY <1>1, <1>2 DEF MeshStep, register_peer_key, Lose
<1>3. CASE Tick
  BY <1>1, <1>3 DEF Tick, meshVars, regVars
<1>4. ASSUME NEW p \in Node, NEW q \in Node,
             Opened(p, q) \/ Connected(p, q) \/ Closed(p, q) \/ Removed(p, q)
      PROVE  (NoMixedWrites /\ DirtyHasValue)'
  BY <1>1, <1>4
     DEF Opened, Connected, Closed, Removed, ConnectionUp, ConnectionDown, meshVars, regVars
<1>5. ASSUME NEW p \in Node, Declare(p)
      PROVE  (NoMixedWrites /\ DirtyHasValue)'
  BY <1>1, <1>5 DEF Declare, declare, regVars
<1>6. ASSUME NEW p \in Node, set_lww(p)
      PROVE  (NoMixedWrites /\ DirtyHasValue)'
  <2> DEFINE w == written(p, IF opened[p] # {} THEN elapsed_us(p, primary[p]) ELSE 0)
  <2>1. /\ reg' = [reg EXCEPT ![p] = w]
        /\ dirty' = dirty \cup {p}
        /\ writes' = writes \cup {w}
        /\ net' = net
    BY <1>6 DEF set_lww, meshVars
  <2>2. w.value # None
    BY WrittenNotNone
  <2> HIDE DEF w
  <2>3. reg \in [Node -> Register] /\ dirty \subseteq Node
    BY DEF TypeOK
  <2> QED
    BY <2>1, <2>2, <2>3
<1>7. ASSUME NEW p \in Node, Flush(p)
      PROVE  (NoMixedWrites /\ DirtyHasValue)'
  <2>1. reg[p] \in writes
    BY <1>7 DEF Flush
  <2>2. /\ net' = net \cup {[author |-> p, to |-> q, data |-> reg[p]] : q \in conn[p]}
        /\ UNCHANGED <<reg, writes>>
        /\ dirty' = dirty \ {p}
    BY <1>7 DEF Flush, send_deltas
  <2>3. \A m \in net' : m \in net \/ m.data = reg[p]
    BY <2>2, SMTT(60)
  <2> QED
    BY <2>1, <2>2, <2>3
<1>8. ASSUME NEW p \in Node, NEW m \in net, Poll(p, m)
      PROVE  (NoMixedWrites /\ DirtyHasValue)'
  <2>1. m.data \in Register /\ reg[p] \in Register /\ reg \in [Node -> Register] /\ dirty \subseteq Node
    BY DEF TypeOK, MeshTypeOK, Datagram
  <2>2. merge(reg[p], m.data) \in {reg[p], m.data}
    BY <2>1, MergeFacts
  <2>3. m.data \in writes
    OBVIOUS
  <2>4. net' \subseteq net /\ UNCHANGED <<dirty, writes>>
    BY <1>8 DEF Poll, receive
  <2>5. reg' = reg \/ reg' = [reg EXCEPT ![p] = m.data]
    BY <1>8, <2>1, <2>2 DEF Poll
  <2> QED
    BY <2>1, <2>3, <2>4, <2>5
<1>9. CASE UNCHANGED vars
  BY <1>1, <1>9 DEF vars, meshVars, regVars
<1> QED
  BY <1>2, <1>3, <1>4, <1>5, <1>6, <1>7, <1>8, <1>9 DEF Next, ReplicationStep

\* A replica or a delta in flight holds what some set_lww wrote, value, stamp
\* and node id together, over every history of connections, losses, repeats
\* and reordering.
THEOREM WritesWhole == Spec => []LwwInv
<1>1. Init => TypeOK /\ NoMixedWrites /\ DirtyHasValue
  <2> SUFFICES ASSUME Init PROVE NoMixedWrites /\ DirtyHasValue
    BY TypeInit
  <2> QED
    BY DEF Init, MeshInit, NoMixedWrites, DirtyHasValue
<1>2. /\ TypeOK /\ NoMixedWrites /\ DirtyHasValue
      /\ [Next]_vars
      => (TypeOK /\ NoMixedWrites /\ DirtyHasValue)'
  BY TypeStep, MixStep
<1>3. TypeOK /\ NoMixedWrites /\ DirtyHasValue => LwwInv
  BY DEF LwwInv
<1> QED
  BY <1>1, <1>2, <1>3, PTL DEF Spec

-----------------------------------------------------------------------------
(* Only writes regress.                                                    *)

\* A content does not outrank itself.
LEMMA NotAboveItself ==
    ASSUME NEW r \in Register
    PROVE  ~incoming_wins(r, r)
  BY MergeFacts DEF merge

\* A step that lowers the stamp of a register is a write of its own peer.
LEMMA RegressStep ==
    ASSUME TypeOK, [Next]_vars, NEW p \in Node, incoming_wins(reg[p], reg'[p])
    PROVE  version'[p] # version[p]
<1>1. reg \in [Node -> Register] /\ version \in [Node -> Nat]
  BY DEF TypeOK
<1>2. reg'[p] # reg[p]
  BY <1>1, NotAboveItself
<1>3. CASE \E q \in Node : set_lww(q)
  <2>1. PICK q \in Node : set_lww(q)
    BY <1>3
  <2>2. q = p
    BY <1>1, <1>2, <2>1 DEF set_lww
  <2>3. version' = [version EXCEPT ![p] = version[p] + 1]
    BY <2>1, <2>2 DEF set_lww
  <2>4. version[p] \in Nat /\ version'[p] = version[p] + 1
    BY <1>1, <2>3
  <2> QED
    BY <2>4, SMTT(60)
<1>4. CASE \E q \in Node : \E m \in net : Poll(q, m)
  <2>1. PICK q \in Node, m \in net : Poll(q, m)
    BY <1>4
  <2>2. m.data \in Register
    BY DEF TypeOK, MeshTypeOK, Datagram
  <2>3. q = p /\ reg'[p] = merge(reg[p], m.data)
    BY <1>1, <1>2, <2>1 DEF Poll
  <2>4. reg[p] \in Register
    BY <1>1
  <2>5. ~incoming_wins(reg[p], merge(reg[p], m.data))
    BY <2>2, <2>4, MergeFacts
  <2> QED
    BY <2>3, <2>5
<1>5. CASE UNCHANGED reg
  BY <1>2, <1>5
<1>6. (\E q \in Node : set_lww(q) \/ \E m \in net : Poll(q, m)) \/ UNCHANGED reg
  BY DEF Next, ReplicationStep, MeshStep, Tick, Opened, Connected, Closed, Removed, Declare,
         Flush, vars, regVars
<1> QED
  BY <1>3, <1>4, <1>5, <1>6

\* Late and repeated deltas never move a register back to a lower stamp; only
\* set_lww at the peer itself does.
THEOREM RegressionsAreWrites == Spec => OnlySetRegresses
<1>1. TypeOK /\ [Next]_vars
      => [\A p \in Node : incoming_wins(reg[p], reg'[p]) => version'[p] # version[p]]_vars
  BY RegressStep
<1>2. Spec => []TypeOK
  <2>1. LwwInv => TypeOK
    BY DEF LwwInv
  <2> QED
    BY <2>1, WritesWhole, PTL
<1> QED
  BY <1>1, <1>2, PTL DEF Spec, OnlySetRegresses

-----------------------------------------------------------------------------
(* The last writer wins.                                                   *)

\* Content r is not outranked by content w.
AtLeast(r, w) == ~incoming_wins(w, r)

\* Peer p has w or better, or will be sent it: it is in flight to p, or some
\* register with a pending delta has it.
OnItsWay(w, p) ==
    \/ AtLeast(reg[p], w)
    \/ \E m \in net : m.to = p /\ AtLeast(m.data, w)
    \/ \E q \in dirty : AtLeast(reg[q], w)

\* Until a delta is missed or a write falls behind what it replaces, every
\* write is on its way to every peer.
AllOnTheirWay == (~missed /\ ~regressed) => \A w \in writes, p \in Node : OnItsWay(w, p)

\* A register without a value has the stamp it started with.
EmptyIsLowest == \A p \in Node : reg[p].value = None => reg[p].ts = 0

\* The order of contents: reflexive, transitive, and total up to the stamp.
LEMMA AtLeastFacts ==
    ASSUME NEW a \in Register, NEW b \in Register, NEW c \in Register
    PROVE  /\ AtLeast(a, a)
           /\ AtLeast(a, b) /\ AtLeast(b, c) => AtLeast(a, c)
           /\ incoming_wins(a, b) => AtLeast(a, b)
           /\ AtLeast(a, b) /\ AtLeast(b, a) => a.ts = b.ts /\ a.node = b.node
           /\ AtLeast(a, b) => a.ts >= b.ts
           /\ AtLeast(merge(a, b), a) /\ AtLeast(merge(a, b), b)
<1>1. \A r \in Register : r.ts \in Int /\ r.node \in Int
  <2>1. \A r \in Register : r.ts \in 0 .. TsMod - 1 /\ r.node \in Node
    BY DEF Register
  <2>2. \A n \in Node : n \in Int
    BY SMTT(60)
  <2>3. \A n \in 0 .. TsMod - 1 : n \in Int
    BY SMTT(60)
  <2> QED
    BY <2>1, <2>2, <2>3
<1>2. AtLeast(a, a) /\ (incoming_wins(a, b) => AtLeast(a, b)) /\ (AtLeast(a, b) => a.ts >= b.ts)
  BY <1>1, SMTT(60) DEF AtLeast, incoming_wins
<1>3. AtLeast(a, b) /\ AtLeast(b, c) => AtLeast(a, c)
  BY <1>1, SMTT(60) DEF AtLeast, incoming_wins
<1>4. AtLeast(a, b) /\ AtLeast(b, a) => a.ts = b.ts /\ a.node = b.node
  BY <1>1, SMTT(60) DEF AtLeast, incoming_wins
<1>5. AtLeast(merge(a, b), a) /\ AtLeast(merge(a, b), b)
  <2>1. AtLeast(a, a) /\ AtLeast(b, b) /\ (incoming_wins(b, a) => AtLeast(b, a))
    BY <1>1, SMTT(60) DEF AtLeast, incoming_wins
  <2> QED
    BY <2>1 DEF merge, AtLeast
<1> QED
  BY <1>2, <1>3, <1>4, <1>5

\* What is on its way to p stays so while registers, pending deltas and
\* deltas in flight only improve.
LEMMA StaysOnItsWay ==
    ASSUME TypeOK, TypeOK', NEW w \in Register, NEW p \in Node, OnItsWay(w, p),
           \A q \in Node : AtLeast(reg'[q], reg[q]),
           dirty \subseteq dirty',
           \A m \in net : m \in net' \/ AtLeast(reg'[m.to], m.data)
    PROVE  OnItsWay(w, p)'
<1>0. \A a, b, c \in Register : AtLeast(a, b) /\ AtLeast(b, c) => AtLeast(a, c)
  BY AtLeastFacts
<1>1. reg \in [Node -> Register] /\ reg' \in [Node -> Register] /\ dirty \subseteq Node
  BY DEF TypeOK
<1>2. \A m \in net : m.data \in Register /\ m.to \in Node
  BY DEF TypeOK, MeshTypeOK, Datagram
<1>3. CASE AtLeast(reg[p], w)
  <2>1. AtLeast(reg'[p], reg[p]) /\ reg[p] \in Register /\ reg'[p] \in Register
    BY <1>1
  <2>2. AtLeast(reg'[p], w)
    BY <1>3, <2>1, AtLeastFacts
  <2> QED
    BY <2>2 DEF OnItsWay, AtLeast
<1>4. CASE \E m \in net : m.to = p /\ AtLeast(m.data, w)
  <2>1. PICK m \in net : m.to = p /\ AtLeast(m.data, w)
    BY <1>4
  <2>2. CASE m \in net'
    BY <2>1, <2>2 DEF OnItsWay, AtLeast
  <2>3. CASE AtLeast(reg'[p], m.data)
    <3>1. m.data \in Register /\ reg'[p] \in Register
      BY <1>1, <1>2
    <3>2. AtLeast(reg'[p], w)
      BY <1>0, <2>1, <2>3, <3>1
    <3> QED
      BY <3>2 DEF OnItsWay, AtLeast
  <2> QED
    BY <2>1, <2>2, <2>3
<1>5. CASE \E q \in dirty : AtLeast(reg[q], w)
  <2>1. PICK q \in dirty : AtLeast(reg[q], w)
    BY <1>5
  <2>2. q \in Node /\ reg[q] \in Register /\ reg'[q] \in Register /\ AtLeast(reg'[q], reg[q])
    BY <1>1
  <2>3. AtLeast(reg'[q], w)
    BY <2>1, <2>2, AtLeastFacts
  <2> QED
    BY <2>1, <2>3 DEF OnItsWay, AtLeast
<1> QED
  BY <1>3, <1>4, <1>5 DEF OnItsWay

\* Flush sends the pending delta to everybody else, or a delta is missed.
LEMMA FlushOnItsWay ==
    ASSUME TypeOK, NEW p \in Node, Flush(p), ~missed',
           NEW w \in Register, NEW r \in Node, OnItsWay(w, r)
    PROVE  OnItsWay(w, r)'
<1>1. /\ net' = net \cup {[author |-> p, to |-> q, data |-> reg[p]] : q \in conn[p]}
      /\ reg' = reg /\ dirty' = dirty \ {p}
      /\ conn[p] = Node \ {p}
  BY DEF Flush, send_deltas
<1>2. CASE AtLeast(reg[p], w)
  <2>1. CASE r = p
    BY <1>1, <1>2, <2>1 DEF OnItsWay, AtLeast
  <2>2. CASE r # p
    <3>1. [author |-> p, to |-> r, data |-> reg[p]] \in net'
      BY <1>1, <2>2
    <3> QED
      BY <1>2, <3>1 DEF OnItsWay, AtLeast
  <2> QED
    BY <2>1, <2>2
<1>3. CASE ~AtLeast(reg[p], w)
  <2>1. CASE AtLeast(reg[r], w)
    BY <1>1, <2>1 DEF OnItsWay, AtLeast
  <2>2. CASE \E m \in net : m.to = r /\ AtLeast(m.data, w)
    BY <1>1, <2>2 DEF OnItsWay, AtLeast
  <2>3. CASE \E q \in dirty : AtLeast(reg[q], w)
    BY <1>1, <1>3, <2>3 DEF OnItsWay, AtLeast
  <2> QED
    BY <2>1, <2>2, <2>3 DEF OnItsWay
<1> QED
  BY <1>2, <1>3

\* Every step keeps every write on its way to every peer, and empty registers
\* lowest.
LEMMA WayStep ==
    ASSUME TypeOK, TypeOK', AllOnTheirWay, EmptyIsLowest, NoMixedWrites, DirtyHasValue, [Next]_vars
    PROVE  AllOnTheirWay' /\ EmptyIsLowest'
<1>1. reg \in [Node -> Register] /\ dirty \subseteq Node /\ writes \subseteq Register
  BY DEF TypeOK
<1>2. \A m \in net : m.data \in Register /\ m.to \in Node
  BY DEF TypeOK, MeshTypeOK, Datagram
<1>3. \A q \in Node : AtLeast(reg[q], reg[q])
  BY <1>1, AtLeastFacts
<1>4. ASSUME UNCHANGED <<reg, dirty, writes, regressed>>, ~missed' => ~missed /\ net' = net
      PROVE  AllOnTheirWay' /\ EmptyIsLowest'
  BY <1>4 DEF AllOnTheirWay, OnItsWay, EmptyIsLowest, AtLeast
<1>5. CASE MeshStep
  BY <1>4, <1>5 DEF MeshStep, register_peer_key, Lose
<1>6. CASE Tick
  BY <1>4, <1>6 DEF Tick, meshVars, regVars
<1>7. ASSUME NEW p \in Node, NEW q \in Node,
             Opened(p, q) \/ Connected(p, q) \/ Closed(p, q) \/ Removed(p, q)
      PROVE  AllOnTheirWay' /\ EmptyIsLowest'
  BY <1>4, <1>7
     DEF Opened, Connected, Closed, Removed, ConnectionUp, ConnectionDown, meshVars, regVars
<1>8. ASSUME NEW p \in Node, Declare(p)
      PROVE  AllOnTheirWay' /\ EmptyIsLowest'
  BY <1>4, <1>8 DEF Declare, declare, regVars
<1>9. ASSUME NEW p \in Node, set_lww(p)
      PROVE  AllOnTheirWay' /\ EmptyIsLowest'
  <2> DEFINE w == written(p, IF opened[p] # {} THEN elapsed_us(p, primary[p]) ELSE 0)
  <2>1. /\ reg' = [reg EXCEPT ![p] = w]
        /\ dirty' = dirty \cup {p}
        /\ writes' = writes \cup {w}
        /\ regressed' = (regressed \/ ~incoming_wins(w, reg[p]))
        /\ net' = net /\ missed' = missed
    BY <1>9 DEF set_lww, meshVars
  <2>2. w.value # None
    BY WrittenNotNone
  <2> HIDE DEF w
  <2>3. EmptyIsLowest'
    BY <1>1, <2>1, <2>2 DEF EmptyIsLowest
  <2>4. ASSUME ~missed', ~regressed', NEW v \in writes', NEW r \in Node
        PROVE  OnItsWay(v, r)'
    <3>1. reg'[p] = w /\ w \in Register
      BY <1>1, <2>1 DEF TypeOK
    <3>2. ~missed /\ ~regressed /\ incoming_wins(w, reg[p])
      BY <2>1, <2>4
    <3>3. CASE v = w
      <4>1. AtLeast(reg'[p], v)
        BY <3>1, <3>3, AtLeastFacts
      <4> QED
        BY <2>1, <4>1 DEF OnItsWay, AtLeast
    <3>4. CASE v \in writes
      <4>1. OnItsWay(v, r) /\ v \in Register
        BY <1>1, <3>2, <3>4 DEF AllOnTheirWay
      <4>2. AtLeast(w, reg[p])
        BY <1>1, <3>1, <3>2, AtLeastFacts
      <4>3. \A q \in Node : AtLeast(reg'[q], reg[q])
        BY <1>1, <1>3, <2>1, <4>2
      <4> QED
        BY <2>1, <4>1, <4>3, StaysOnItsWay
    <3> QED
      BY <2>1, <2>4, <3>3, <3>4
  <2> QED
    BY <2>3, <2>4 DEF AllOnTheirWay
<1>10. ASSUME NEW p \in Node, Flush(p)
       PROVE  AllOnTheirWay' /\ EmptyIsLowest'
  <2>1. /\ UNCHANGED <<reg, writes, regressed>>
        /\ ~missed' => ~missed
    BY <1>10 DEF Flush
  <2>2. ASSUME ~missed', ~regressed', NEW v \in writes', NEW r \in Node
        PROVE  OnItsWay(v, r)'
    <3>1. OnItsWay(v, r) /\ v \in Register
      BY <1>1, <2>1, <2>2 DEF AllOnTheirWay
    <3> QED
      BY <1>10, <2>2, <3>1, FlushOnItsWay
  <2>3. EmptyIsLowest'
    BY <2>1 DEF EmptyIsLowest
  <2> QED
    BY <2>2, <2>3 DEF AllOnTheirWay
<1>11. ASSUME NEW p \in Node, NEW m \in net, Poll(p, m)
       PROVE  AllOnTheirWay' /\ EmptyIsLowest'
  <2>1. /\ m.data \in Register /\ reg[p] \in Register /\ m.data \in writes /\ m.to = p
        /\ m.data.value # None
    BY <1>1, <1>2, <1>11 DEF NoMixedWrites, DirtyHasValue, Poll, receive
  <2>2. /\ UNCHANGED <<dirty, writes, regressed>>
        /\ ~missed' => ~missed /\ reg' = [reg EXCEPT ![p] = merge(reg[p], m.data)]
        /\ reg' \in {reg, [reg EXCEPT ![p] = merge(reg[p], m.data)]}
        /\ net' = net \/ net' = net \ {m}
    BY <1>11 DEF Poll, receive
  <2>3. AtLeast(merge(reg[p], m.data), reg[p]) /\ AtLeast(merge(reg[p], m.data), m.data)
    BY <2>1, AtLeastFacts
  <2>4. EmptyIsLowest'
    <3>1. merge(reg[p], m.data) \in {reg[p], m.data}
      BY <2>1, MergeFacts
    <3> QED
      BY <1>1, <2>1, <2>2, <3>1 DEF EmptyIsLowest
  <2>5. ASSUME ~missed', ~regressed', NEW v \in writes', NEW r \in Node
        PROVE  OnItsWay(v, r)'
    <3>1. OnItsWay(v, r) /\ v \in Register
      BY <1>1, <2>2, <2>5 DEF AllOnTheirWay
    <3>2. reg'[p] = merge(reg[p], m.data)
      BY <1>1, <2>2, <2>5
    <3>3. \A q \in Node : AtLeast(reg'[q], reg[q])
      BY <1>1, <1>3, <2>2, <2>3, <2>5
    <3>4. \A n \in net : n \in net' \/ AtLeast(reg'[n.to], n.data)
      BY <2>1, <2>2, <2>3, <3>2
    <3> QED
      BY <2>2, <3>1, <3>3, <3>4, StaysOnItsWay
  <2> QED
    BY <2>4, <2>5 DEF AllOnTheirWay
<1>12. CASE UNCHANGED vars
  BY <1>4, <1>12 DEF vars, meshVars, regVars
<1> QED
  BY <1>5, <1>6, <1>7, <1>8, <1>9, <1>10, <1>11, <1>12 DEF Next, ReplicationStep

\* With nothing pending and nothing in flight, every register holds a write
\* that no write outranks; stamps tell writes apart, so it is the same one.
LEMMA QuietMeansLast ==
    ASSUME TypeOK, NoMixedWrites, AllOnTheirWay, EmptyIsLowest
    PROVE  LastWriterWins
<1> SUFFICES ASSUME Quiescent, ~missed, ~regressed, DistinctStamps, writes # {}
             PROVE  \E w \in writes : \A p \in Node :
                        reg[p] = w /\ \A v \in writes : v = w \/ incoming_wins(w, v)
  BY DEF LastWriterWins
<1>1. reg \in [Node -> Register] /\ writes \subseteq Register
  BY DEF TypeOK
<1>2. \A p \in Node, v \in writes : AtLeast(reg[p], v)
  BY DEF AllOnTheirWay, OnItsWay, Quiescent
<1>3. \A p \in Node : reg[p] \in writes
  <2> TAKE p \in Node
  <2>1. PICK v \in writes : TRUE
    OBVIOUS
  <2>2. v \in Register /\ reg[p] \in Register /\ v.ts # 0
    BY <1>1 DEF DistinctStamps
  <2>3. reg[p].ts >= v.ts
    BY <1>2, <2>2, AtLeastFacts
  <2>4. v.ts \in 0 .. TsMod - 1 /\ reg[p].ts \in 0 .. TsMod - 1
    BY <2>2 DEF Register
  <2>5. reg[p].ts # 0
    BY <2>2, <2>3, <2>4, SMTT(60)
  <2> QED
    BY <2>5 DEF EmptyIsLowest, NoMixedWrites
<1>4. \A p \in Node, v \in writes : v = reg[p] \/ incoming_wins(reg[p], v)
  <2> TAKE p \in Node, v \in writes
  <2>1. CASE incoming_wins(reg[p], v)
    BY <2>1
  <2>2. CASE ~incoming_wins(reg[p], v)
    <3>1. v \in Register /\ reg[p] \in Register /\ AtLeast(reg[p], v) /\ AtLeast(v, reg[p])
      BY <1>1, <1>2, <2>2 DEF AtLeast
    <3>2. v.ts = reg[p].ts /\ v.node = reg[p].node
      BY <3>1, AtLeastFacts
    <3> QED
      BY <1>3, <3>2 DEF DistinctStamps
  <2> QED
    BY <2>1, <2>2
<1>5. \A p, q \in Node : reg[p] = reg[q]
  <2> TAKE p, q \in Node
  <2>1. AtLeast(reg[p], reg[q]) /\ AtLeast(reg[q], reg[p]) /\ reg[p] \in Register /\ reg[q] \in Register
    BY <1>1, <1>2, <1>3
  <2>2. reg[p].ts = reg[q].ts /\ reg[p].node = reg[q].node
    BY <2>1, AtLeastFacts
  <2> QED
    BY <1>3, <2>2 DEF DistinctStamps
<1>6. CASE Node = {}
  BY <1>6
<1>7. CASE Node # {}
  <2>1. PICK p \in Node : TRUE
    BY <1>7
  <2>2. reg[p] \in writes
    BY <1>3
  <2>3. \A q \in Node : reg[q] = reg[p] /\ \A v \in writes : v = reg[p] \/ incoming_wins(reg[p], v)
    BY <1>4, <1>5
  <2> QED
    BY <2>2, <2>3
<1> QED
  BY <1>6, <1>7

\* The value with the highest timestamp wins, on every replica of a mesh of
\* any size, in whatever order and however often the deltas came: as soon as
\* nothing is pending or in flight, provided that no delta was missed, that
\* every write outranked what it replaced, and that no two stamps collided.
THEOREM LastWriterWinsEverywhere == Spec => []LastWriterWins
<1> DEFINE Whole == TypeOK /\ NoMixedWrites /\ DirtyHasValue
           IInv == Whole /\ AllOnTheirWay /\ EmptyIsLowest
<1>1. Init => IInv
  <2> SUFFICES ASSUME Init PROVE NoMixedWrites /\ DirtyHasValue /\ AllOnTheirWay /\ EmptyIsLowest
    BY TypeInit
  <2>1. NoMixedWrites /\ DirtyHasValue /\ AllOnTheirWay
    BY DEF Init, MeshInit, NoMixedWrites, DirtyHasValue, AllOnTheirWay
  <2>2. EmptyIsLowest
    BY DEF Init, EmptyIsLowest
  <2> QED
    BY <2>1, <2>2
<1>2. IInv /\ [Next]_vars => IInv'
  <2> SUFFICES ASSUME IInv, [Next]_vars PROVE IInv'
    OBVIOUS
  <2>1. TypeOK'
    BY TypeStep
  <2>2. (NoMixedWrites /\ DirtyHasValue)'
    BY MixStep
  <2>3. AllOnTheirWay' /\ EmptyIsLowest'
    BY <2>1, WayStep
  <2> QED
    BY <2>1, <2>2, <2>3
<1>3. IInv => LastWriterWins
  BY QuietMeansLast
<1> QED
  BY <1>1, <1>2, <1>3, PTL DEF Spec
=============================================================================
