---------------------------- MODULE Subscriptions ----------------------------
(***************************************************************************)
(* SubscriptionManager: the subscriptions of remote peers and their        *)
(* credits.  Credits and grants are signed, as on the wire; any negative   *)
(* number of credits is no limit.  The manager does not know which         *)
(* connections exist: a connection that was removed may subscribe again.   *)
(***************************************************************************)
EXTENDS StatePaths, FiniteSets

CONSTANTS
    SubConn,    \* connection ids
    SubPattern, \* patterns, as sequences of segments
    SubPath,    \* paths that change, as sequences of segments
    SubCredit,  \* numbers of credits, initial and granted
    MaxSubs,    \* bound on subscriptions made
    MaxCredits, \* bound on the credits of one subscription, all told
    MaxSubHits  \* bound on deliveries to one subscription

ASSUME SubAssumption ==
    /\ SubCredit \subseteq Int
    /\ MaxSubs \in Nat /\ MaxCredits \in Nat /\ MaxSubHits \in Nat

VARIABLES
    subs,      \* subs_: a function from subscription ids
    next_id,   \* next_id_
    ended,     \* history: ids unsubscribed, or made by a connection removed since
    delivered, \* history: delivered[i] deltas were matched with subscription i
    granted    \* history: granted[i]: its initial credits and the grants it took

subVars == <<subs, next_id, ended, delivered, granted>>

Subscription == [conn : SubConn, pattern : SubPattern, credits : Int]

SubTypeOK ==
    /\ next_id \in 1 .. MaxSubs + 1
    /\ DOMAIN subs \subseteq 1 .. next_id - 1
    /\ \A i \in DOMAIN subs : subs[i] \in Subscription
    /\ ended \subseteq 1 .. next_id - 1
    /\ delivered \in [1 .. MaxSubs -> Nat]
    /\ granted \in [1 .. MaxSubs -> Int]

SubInit ==
    /\ subs = [i \in {} |-> {}]
    /\ next_id = 1
    /\ ended = {}
    /\ delivered = [i \in 1 .. MaxSubs |-> 0]
    /\ granted = [i \in 1 .. MaxSubs |-> 0]

subscribe(conn, pattern, credits) ==
    /\ next_id <= MaxSubs
    /\ subs' = [i \in DOMAIN subs \cup {next_id} |->
                   IF i = next_id THEN [conn |-> conn, pattern |-> pattern, credits |-> credits]
                   ELSE subs[i]]
    /\ granted' = [granted EXCEPT ![next_id] = credits]
    /\ next_id' = next_id + 1
    /\ UNCHANGED <<ended, delivered>>

unsubscribe(i) ==
    /\ i \in DOMAIN subs
    /\ subs' = [j \in DOMAIN subs \ {i} |-> subs[j]]
    /\ ended' = ended \cup {i}
    /\ UNCHANGED <<next_id, delivered, granted>>

\* The subscriptions of a connection.
SubsOf(conn) == {i \in DOMAIN subs : subs[i].conn = conn}

remove_connection(conn) ==
    /\ subs' = [i \in DOMAIN subs \ SubsOf(conn) |-> subs[i]]
    /\ ended' = ended \cup SubsOf(conn)
    /\ UNCHANGED <<next_id, delivered, granted>>

\* Mutation of add_credits: an unlimited subscription is given credits too.
add_credits_all(i, n) ==
    /\ i \in DOMAIN subs
    /\ granted[i] + n <= MaxCredits
    /\ subs' = [subs EXCEPT ![i].credits = @ + n]
    /\ granted' = [granted EXCEPT ![i] = IF subs[i].credits >= 0 THEN @ + n ELSE @]
    /\ UNCHANGED <<next_id, ended, delivered>>

\* An unlimited subscription stays as it is; a negative grant takes credits
\* away, and one that takes more than there are leaves no limit.
add_credits(i, n) ==
    /\ i \in DOMAIN subs
    /\ granted[i] + n <= MaxCredits
    /\ subs' = [subs EXCEPT ![i].credits = IF @ >= 0 THEN @ + n ELSE @]
    /\ granted' = [granted EXCEPT ![i] = IF subs[i].credits >= 0 THEN @ + n ELSE @]
    /\ UNCHANGED <<next_id, ended, delivered>>

\* match: the subscriptions that a change of path goes to.
match(path) == {i \in DOMAIN subs : matches(path, subs[i].pattern) /\ subs[i].credits # 0}

consume_credit(credits) == IF credits > 0 THEN credits - 1 ELSE credits

match_and_consume(path) ==
    /\ \A i \in match(path) : delivered[i] < MaxSubHits
    /\ subs' = [i \in DOMAIN subs |-> IF i \in match(path)
                                      THEN [subs[i] EXCEPT !.credits = consume_credit(@)]
                                      ELSE subs[i]]
    /\ delivered' = [i \in DOMAIN delivered |-> delivered[i] + IF i \in match(path) THEN 1 ELSE 0]
    /\ UNCHANGED <<next_id, ended, granted>>

SubNext ==
    \/ \E conn \in SubConn :
           \/ remove_connection(conn)
           \/ \E pattern \in SubPattern, credits \in SubCredit :
                  subscribe(conn, pattern, credits)
    \/ \E i \in 1 .. MaxSubs : unsubscribe(i) \/ \E n \in SubCredit : add_credits(i, n)
    \/ \E path \in SubPath : match_and_consume(path)

SubSpec == SubInit /\ [][SubNext]_subVars

-----------------------------------------------------------------------------
(* Properties.                                                             *)

\* Backpressure: while its credits are not negative a subscription was sent
\* exactly what it was granted less what it has left, so that it is never sent
\* more and never loses a credit to a delta it did not get.  A negative balance
\* is "-1 = unlimited" (subscription.h), also when a grant that took away more
\* than there was has made it: from then on it may be sent more than it was granted.
CreditsBalance ==
    \A i \in DOMAIN subs :
        IF subs[i].credits >= 0 THEN delivered[i] + subs[i].credits = granted[i]
        ELSE delivered[i] + subs[i].credits >= granted[i]

\* A subscription that was ended, by its id or with all those of its connection,
\* is matched with no later change, also when the connection subscribes again.
NoneForEnded == \A path \in SubPath : match(path) \cap ended = {}

\* The invariant of the subscriptions: credits balance, whatever is granted and
\* consumed in between, and a subscription that was ended is sent nothing.
SubInv == SubTypeOK /\ CreditsBalance /\ NoneForEnded
=============================================================================
