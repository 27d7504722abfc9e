----------------------------- MODULE Capabilities -----------------------------
(***************************************************************************)
(* CapabilityStore of one node: tokens it issues, derives from other       *)
(* tokens, is granted by a peer, revokes, expires and looks up.            *)
(*                                                                         *)
(* A signature is whether the issuer's key is registered: a grant is taken *)
(* if it is.  Tokens are passed by value, so the application and the peers *)
(* keep copies (hand) of tokens the store no longer has, may derive from   *)
(* them and may send them back.  attenuate lets any pattern with as many   *)
(* segments as the parent's through: the model does too.                   *)
(*                                                                         *)
(* There is no one time: a lookup uses the clock of the connection that    *)
(* the delta came by (elapsed_us, 32 bits from the connection's epoch),    *)
(* and gc() any time the application passes.                               *)
(***************************************************************************)
EXTENDS StatePaths, FiniteSets

CONSTANTS
    CapLimits,  \* what a token may say: permissions, pattern (as a sequence of
                \* segments) and time of expiry
    CapPath,    \* paths that are looked up, as sequences of segments
    CapPerm,    \* permissions
    CapSelf,    \* node_id_
    CapIssuer,  \* node ids, this one's included
    CapConn,    \* connections
    MaxTokens,  \* bound on tokens in hand
    CapTurn     \* the numbers of elapsed_us and expiry_us

ASSUME CapAssumption ==
    /\ CapSelf \in CapIssuer
    /\ \A l \in CapLimits :
           /\ l.permissions \subseteq CapPerm
           /\ l.pattern \in Seq(Seq(STRING))
           /\ l.expiry \in 0 .. CapTurn - 1
    /\ MaxTokens \in Nat /\ CapTurn \in Nat \ {0}

VARIABLES
    tokens,        \* tokens_: a function from token ids
    next_token_id, \* next_token_id_
    peer_keys,     \* node ids whose key is registered
    hand,          \* tokens that were issued, derived or received so far
    conn_us,       \* conn_us[c]: elapsed_us() of connection c
    collected      \* history: collected[c]: limits of tokens that gc(now) removed with
                   \* a now not past the clock of c, since that clock last began

capVars == <<tokens, next_token_id, peer_keys, hand, conn_us, collected>>

\* root, what the token says that the derivation started from, is history.
Token == [token_id : Nat \ {0}, issuer : CapIssuer, limits : CapLimits, root : CapLimits]

CapTypeOK ==
    /\ DOMAIN tokens \subseteq Nat \ {0}
    /\ \A id \in DOMAIN tokens : tokens[id] \in Token /\ tokens[id].token_id = id
    /\ next_token_id \in Nat \ {0}
    /\ peer_keys \in SUBSET CapIssuer
    /\ hand \in SUBSET Token
    /\ conn_us \in [CapConn -> 0 .. CapTurn - 1]
    /\ collected \in [CapConn -> SUBSET CapLimits]

CapInit ==
    /\ tokens = [id \in {} |-> {}]
    /\ next_token_id = 1
    /\ peer_keys = {CapSelf}
    /\ hand = {}
    /\ conn_us = [c \in CapConn |-> 0]
    /\ collected = [c \in CapConn |-> {}]

-----------------------------------------------------------------------------

\* A token is still good at the very time of its expiry; 0 is no expiry.
is_expired(limits, now) == limits.expiry # 0 /\ now > limits.expiry

covers(limits, path) == matches(path, limits.pattern)

\* What find_capability looks for; it returns the first such token, whichever
\* the hash table has first.
usable(limits, path, perm, now) ==
    ~is_expired(limits, now) /\ perm \in limits.permissions /\ covers(limits, path)

\* The tokens that are left when only those with ids S stay.
Remaining(S) == [id \in S |-> tokens[id]]

\* The token is added to tokens_, and returned.
Keep(token) ==
    /\ tokens' = [id \in DOMAIN tokens \cup {token.token_id} |->
                      IF id = token.token_id THEN token ELSE tokens[id]]
    /\ hand' = hand \cup {token}

issue(limits) ==
    /\ Cardinality(hand) < MaxTokens
    /\ Keep([token_id |-> next_token_id, issuer |-> CapSelf, limits |-> limits, root |-> limits])
    /\ next_token_id' = next_token_id + 1
    /\ UNCHANGED <<peer_keys, conn_us, collected>>

\* Mutation of narrower: a child without expiry is let through.
narrower_forever(parent, child) ==
    /\ child.permissions \subseteq parent.permissions
    /\ parent.expiry # 0 => child.expiry <= parent.expiry
    /\ \/ matches(child.pattern, parent.pattern)
       \/ child.pattern = parent.pattern
       \/ Len(child.pattern) = Len(parent.pattern)

\* The checks of attenuate.
narrower(parent, child) ==
    /\ child.permissions \subseteq parent.permissions
    /\ parent.expiry # 0 => child.expiry # 0 /\ child.expiry <= parent.expiry
    /\ \/ matches(child.pattern, parent.pattern)
       \/ child.pattern = parent.pattern
       \/ Len(child.pattern) = Len(parent.pattern)

attenuate(parent, limits) ==
    /\ Cardinality(hand) < MaxTokens
    /\ narrower(parent.limits, limits)
    /\ Keep([token_id |-> next_token_id, issuer |-> CapSelf, limits |-> limits,
             root |-> parent.root])
    /\ next_token_id' = next_token_id + 1
    /\ UNCHANGED <<peer_keys, conn_us, collected>>

\* A CAPABILITY_GRANT frame: store() replaces a token with the same id, and
\* every node counts its ids from 1.
Receive(token) ==
    /\ token.issuer \in peer_keys
    /\ Cardinality(hand \cup {token}) <= MaxTokens
    /\ Keep(token)
    /\ UNCHANGED <<next_token_id, peer_keys, conn_us, collected>>

\* It has a token of another node: a root, or one derived from a root or from
\* any token that this node has passed on.
Grant(issuer, id, limits, root) ==
    /\ issuer # CapSelf
    /\ \/ limits = root
       \/ narrower(root, limits)
       \/ \E parent \in hand : parent.root = root /\ narrower(parent.limits, limits)
    /\ Receive([token_id |-> id, issuer |-> issuer, limits |-> limits, root |-> root])

\* Called by the application, or for a CAPABILITY_REVOKE frame.
revoke(id) ==
    /\ id \in DOMAIN tokens
    /\ tokens' = Remaining(DOMAIN tokens \ {id})
    /\ UNCHANGED <<next_token_id, peer_keys, hand, conn_us, collected>>

\* The tokens with ids S are removed at a time now.
Collect(S, now) ==
    /\ tokens' = Remaining(DOMAIN tokens \ S)
    /\ collected' = [c \in CapConn |->
                        IF now <= conn_us[c] THEN collected[c] \cup {tokens[id].limits : id \in S}
                        ELSE collected[c]]
    /\ UNCHANGED <<next_token_id, peer_keys, hand, conn_us>>

\* Mutation of cap_gc: a token goes at the time of its expiry.
cap_gc_early(now) ==
    Collect({id \in DOMAIN tokens : tokens[id].limits.expiry # 0 /\ now >= tokens[id].limits.expiry}, now)

cap_gc(now) == Collect({id \in DOMAIN tokens : is_expired(tokens[id].limits, now)}, now)

register_cap_key(issuer) ==
    /\ peer_keys' = peer_keys \cup {issuer}
    /\ UNCHANGED <<tokens, next_token_id, hand, conn_us, collected>>

\* The clock of c becomes the time t; on a clock that is back at 0 a token that
\* had expired is good again.
SetClock(c, t) ==
    /\ conn_us' = [conn_us EXCEPT ![c] = t]
    /\ collected' = [collected EXCEPT ![c] = IF t = 0 THEN {} ELSE @]
    /\ UNCHANGED <<tokens, next_token_id, peer_keys, hand>>

\* Time passes, and 32 bits are soon used up.
CapClock(c) == SetClock(c, (conn_us[c] + 1) % CapTurn)

\* The connection begins anew, and its epoch with it.
CapReconnect(c) == SetClock(c, 0)

CapNext ==
    \/ \E now \in 0 .. CapTurn - 1 : cap_gc(now)
    \/ \E c \in CapConn : CapClock(c) \/ CapReconnect(c)
    \/ \E limits \in CapLimits :
           \/ issue(limits)
           \/ \E parent \in hand : attenuate(parent, limits)
           \/ \E issuer \in CapIssuer, id \in 1 .. MaxTokens, root \in CapLimits :
                  Grant(issuer, id, limits, root)
    \/ \E token \in hand : Receive(token)
    \/ \E id \in 1 .. MaxTokens : revoke(id)
    \/ \E issuer \in CapIssuer : register_cap_key(issuer)

CapSpec == CapInit /\ [][CapNext]_capVars

-----------------------------------------------------------------------------
(* Properties.                                                             *)

\* "The new capability must be a subset of the parent's permissions and path"
\* (capability.h), and expire no later (capability.cpp).  Along a chain of
\* derivations of any length, here and at other nodes, from copies of tokens
\* since revoked or replaced, no token has a permission or a lifetime that the
\* first one did not have.  Of the path only the number of segments is kept:
\* attenuate takes any pattern with as many as the parent's, whatever they are.
DerivedWithinRoot ==
    \A id \in DOMAIN tokens :
        LET t == tokens[id]
        IN  /\ t.limits.permissions \subseteq t.root.permissions
            /\ t.root.expiry # 0 => t.limits.expiry \in 1 .. t.root.expiry
            /\ Len(t.limits.pattern) = Len(t.root.pattern)

\* gc() with a time that the clock of a connection has reached takes no token
\* that a lookup for that connection would find, then or later, until that
\* clock wraps or the connection begins anew; a connection whose clock was
\* behind, or is back at 0, may miss it.
GcInvisible ==
    \A c \in CapConn : \A limits \in collected[c], path \in CapPath, perm \in CapPerm :
        ~usable(limits, path, perm, conn_us[c])

\* The invariant of the store: no token has a permission, a lifetime or a depth of
\* pattern that the token it descends from did not have.
CapInv == CapTypeOK /\ DerivedWithinRoot
=============================================================================
