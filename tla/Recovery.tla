------------------------------- MODULE Recovery -------------------------------
(***************************************************************************)
(* Recovery: a server with an EventLog and its StateRegistry, and clients  *)
(* that come back after any number of changes on either side.              *)
(*                                                                         *)
(* A client sends the versions it has (build_request), the server computes *)
(* what the client lacks (compute_plan), the client merges it.  The three  *)
(* are separate steps: the server may write, take a snapshot or compact    *)
(* its log, and the client may write, in between.  The CRDT of a path is   *)
(* the set of the updates made to it, each named by its writer and number. *)
(*                                                                         *)
(* A version counts the writes of its own node through set_lww and         *)
(* increment_counter.  The other types have none, and merging a delta or a *)
(* snapshot changes no version: that is left to the application.  The      *)
(* server's application logs what it writes.                               *)
(***************************************************************************)
EXTENDS VersionVectors

LOCAL INSTANCE FiniteSetsExt
LOCAL INSTANCE SequencesExt

CONSTANTS
    RecPath,            \* path hashes
    Versioned,          \* those of LWW registers and G-Counters
    RecServer,          \* the server's node id
    RecClient,          \* the clients' node ids
    max_delta_entries,
    MaxRecWrites,       \* bound on writes
    MaxLog              \* bound on the entries of the log

ASSUME RecoveryAssumption ==
    /\ RecPath \subseteq Nat /\ Versioned \subseteq RecPath
    /\ RecClient \subseteq Nat /\ RecServer \in Nat \ RecClient
    /\ max_delta_entries \in Nat

VARIABLES
    log,        \* entries_: records [seq, path, version, data, snapshot, knows]
    next_seq,   \* next_seq_
    server,     \* server[p] = [version, data], the region of p
    client,     \* client[c] = [path -> [version, data]] for the regions declared
    requests,   \* requests[c]: an encoded RecoveryRequest, or <<>>
    replies,    \* replies[c]: what a RecoveryPlan sends, or <<>>
    learnt,     \* learnt[c] = [path -> version] of what was merged last
    rec_writes  \* writes so far

recoveryVars == <<log, next_seq, server, client, requests, replies, learnt, rec_writes>>

Region(v, d) == [version |-> v, data |-> d]

\* The updates among d that node made.
OwnUpdates(d, node) == {u \in d : u[1] = node}

RecUpdate == (RecClient \cup {RecServer}) \X (1 .. MaxRecWrites)

RecoveryTypeOK ==
    /\ \A i \in DOMAIN log : /\ log[i].seq \in 1 .. next_seq - 1
                             /\ i > 1 => log[i - 1].seq < log[i].seq
                             /\ log[i].data \in (SUBSET RecUpdate) \ {{}}
    /\ DOMAIN server = RecPath
    /\ \A c \in RecClient : DOMAIN client[c] \subseteq RecPath
    /\ rec_writes \in 0 .. MaxRecWrites

RecoveryInit ==
    /\ log = <<>>
    /\ next_seq = 1
    /\ server = [p \in RecPath |-> Region(NoVersion, {})]
    /\ client = [c \in RecClient |-> <<>>]
    /\ requests = [c \in RecClient |-> <<>>]
    /\ replies = [c \in RecClient |-> <<>>]
    /\ learnt = [c \in RecClient |-> <<>>]
    /\ rec_writes = 0

-----------------------------------------------------------------------------
(* EventLog.                                                               *)

\* append, of a delta or of a snapshot.  knows is history: the state that the
\* version stands for.
log_append(p, region, data, snapshot) ==
    /\ Len(log) < MaxLog
    /\ log' = Append(log, [seq |-> next_seq, path |-> p, version |-> region.version,
                           data |-> data, snapshot |-> snapshot, knows |-> region.data])
    /\ next_seq' = next_seq + 1

entries_since(p, since) ==
    SelectSeq(log, LAMBDA e : e.path = p /\ ~dominates(since, e.version))

latest_snapshots(p) ==
    LET at == {i \in DOMAIN log : log[i].path = p /\ log[i].snapshot}
    IN  IF at = {} THEN {} ELSE {log[Max(at)]}

\* Mutation of Kept: the snapshot goes with what it replaces.
Kept_newer(p, v, e) == e.path # p \/ ~dominates(v, e.version)

\* What compact keeps.
Kept(p, v, e) == e.path # p \/ e.snapshot \/ ~dominates(v, e.version)

-----------------------------------------------------------------------------
(* Changes between recoveries.                                             *)

\* The region after a write of its own node: set_lww and increment_counter count
\* it, the other types do not.
Written(region, p, node) ==
    Region(IF p \in Versioned THEN increment(region.version, node) ELSE region.version,
           region.data \cup {<<node, Cardinality(OwnUpdates(region.data, node)) + 1>>})

\* The server writes, and logs the delta under its new version.
server_write(p) ==
    LET region == Written(server[p], p, RecServer)
    IN  /\ rec_writes < MaxRecWrites
        /\ server' = [server EXCEPT ![p] = region]
        /\ log_append(p, region, region.data \ server[p].data, FALSE)
        /\ rec_writes' = rec_writes + 1
        /\ UNCHANGED <<client, requests, replies, learnt>>

client_write(c, p) ==
    /\ rec_writes < MaxRecWrites
    /\ p \in DOMAIN client[c]
    /\ client' = [client EXCEPT ![c][p] = Written(@, p, c)]
    /\ rec_writes' = rec_writes + 1
    /\ UNCHANGED <<log, next_seq, server, requests, replies, learnt>>

declare_region(c, p) ==
    /\ p \notin DOMAIN client[c]
    /\ client' = [client EXCEPT ![c] = [q \in DOMAIN @ \cup {p} |->
                                            IF q = p THEN Region(NoVersion, {}) ELSE @[q]]]
    /\ UNCHANGED <<log, next_seq, server, requests, replies, learnt, rec_writes>>

\* apply_delta at the server, of what the client has written.
upload(c, p) ==
    /\ p \in DOMAIN client[c]
    /\ ~(client[c][p].data \subseteq server[p].data)
    /\ server' = [server EXCEPT ![p].data = @ \cup client[c][p].data]
    /\ UNCHANGED <<log, next_seq, client, requests, replies, learnt, rec_writes>>

take_snapshot(p) ==
    /\ server[p].data # {}
    /\ log_append(p, server[p], server[p].data, TRUE)
    /\ UNCHANGED <<server, client, requests, replies, learnt, rec_writes>>

\* compact, at the version of the latest snapshot.
compact(p) ==
    \E s \in latest_snapshots(p) :
        /\ log' = SelectSeq(log, LAMBDA e : Kept(p, s.version, e))
        /\ log' # log
        /\ UNCHANGED <<next_seq, server, client, requests, replies, learnt, rec_writes>>

-----------------------------------------------------------------------------
(* Recovery.                                                               *)

encode_request(known) ==
    FoldLeft(LAMBDA wire, p : wire \o <<p>> \o encode_version(known[p]),
             <<Cardinality(DOMAIN known)>>, SetToSortSeq(DOMAIN known, <))

\* decode: the entries read, or FALSE in ok if the bytes run out.
decode_request(wire) ==
    LET Step(r, i) ==
            IF ~r.ok \/ r.off + 1 >= Len(wire)
               \/ r.off + 2 + 2 * wire[r.off + 2] > Len(wire)
            THEN [r EXCEPT !.ok = FALSE]
            ELSE LET p == wire[r.off + 1]
                     v == decode_version(wire, r.off + 1)
                 IN  [ok |-> TRUE, off |-> r.off + 1 + wire_size(v),
                      known |-> [q \in DOMAIN r.known \cup {p} |-> IF q = p THEN v ELSE r.known[q]]]
    IN  FoldLeft(Step, [ok |-> TRUE, off |-> 1, known |-> <<>>], [i \in 1 .. wire[1] |-> i])

build_request(c) == [p \in DOMAIN client[c] |-> client[c][p].version]

SendRequest(c) ==
    /\ requests[c] = <<>> /\ replies[c] = <<>>
    /\ requests' = [requests EXCEPT ![c] = encode_request(build_request(c))]
    /\ UNCHANGED <<log, next_seq, server, client, replies, learnt, rec_writes>>

\* What is sent for a path: the whole state, or the entries; covers is history,
\* what the server had.
SendSnapshot(p) == [covers |-> server[p].data, version |-> server[p].version, data |-> server[p].data]

SendEntries(p, entries) ==
    [covers |-> server[p].data,
     version |-> FoldLeft(LAMBDA v, e : vv_merge(v, e.version), NoVersion, entries),
     data |-> UNION {entries[i].data : i \in DOMAIN entries}]

\* The body of the loop of compute_plan.
PathRecovery(known, p) ==
    IF p \notin DOMAIN known THEN SendSnapshot(p)
    ELSE LET entries == entries_since(p, known[p])
         IN  IF Len(entries) <= max_delta_entries THEN SendEntries(p, entries) ELSE SendSnapshot(p)

compute_plan(known) == [p \in RecPath |-> PathRecovery(known, p)]

Respond(c) ==
    /\ requests[c] # <<>>
    /\ LET r == decode_request(requests[c])
       IN  replies' = [replies EXCEPT ![c] = IF r.ok THEN compute_plan(r.known) ELSE <<>>]
    /\ requests' = [requests EXCEPT ![c] = <<>>]
    /\ UNCHANGED <<log, next_seq, server, client, learnt, rec_writes>>

\* The client merges what it was sent into the regions it has declared
\* (apply_delta, apply_snapshot); their versions stay as they are.
Recover(c) ==
    /\ replies[c] # <<>>
    /\ client' = [client EXCEPT ![c] = [p \in DOMAIN @ |->
                     Region(@[p].version, @[p].data \cup replies[c][p].data)]]
    /\ learnt' = [learnt EXCEPT ![c] = [p \in DOMAIN client[c] |-> replies[c][p].version]]
    /\ replies' = [replies EXCEPT ![c] = <<>>]
    /\ UNCHANGED <<log, next_seq, server, requests, rec_writes>>

\* The application merges the version of what the client was sent, at any time
\* after the data, or never.
LearnVersion(c, p) ==
    /\ p \in DOMAIN learnt[c]
    /\ client' = [client EXCEPT ![c][p].version = vv_merge(@, learnt[c][p])]
    /\ client' # client
    /\ UNCHANGED <<log, next_seq, server, requests, replies, learnt, rec_writes>>

\* The connection fails: the request or the answer is lost.
LoseRecovery(c) ==
    /\ requests[c] # <<>> \/ replies[c] # <<>>
    /\ requests' = [requests EXCEPT ![c] = <<>>]
    /\ replies' = [replies EXCEPT ![c] = <<>>]
    /\ UNCHANGED <<log, next_seq, server, client, learnt, rec_writes>>

RecoveryNext ==
    \/ \E p \in RecPath : server_write(p) \/ take_snapshot(p) \/ compact(p)
    \/ \E c \in RecClient, p \in RecPath :
           \/ client_write(c, p) \/ declare_region(c, p) \/ upload(c, p) \/ LearnVersion(c, p)
    \/ \E c \in RecClient : SendRequest(c) \/ Respond(c) \/ Recover(c) \/ LoseRecovery(c)

RecoverySpec == RecoveryInit /\ [][RecoveryNext]_recoveryVars

-----------------------------------------------------------------------------
(* Properties.                                                             *)

\* compute_plan, "what to send to a reconnecting peer", of a register or a
\* G-Counter: with what it is sent, a client has every write of the server's own
\* that the server had when it made the plan, whichever deltas were compacted
\* away, whatever either side did since the request and whether or not the
\* client has taken over versions.  What others wrote is in no entry of the log,
\* and a PN-Counter or an OR-Set has no versions to tell entries apart: of these
\* a plan of deltas leaves out what the server has.
PlanComplete ==
    \A c \in RecClient : replies[c] # <<>> =>
        \A p \in DOMAIN client[c] \cap Versioned :
            OwnUpdates(replies[c][p].covers, RecServer) \subseteq
                client[c][p].data \cup replies[c][p].data

\* A version "tracks causal ordering" as far as its own node's writes go: a
\* client whose version dominates that of an entry has all that the server had
\* written by then, so that it is never passed over.
VersionsHonest ==
    \A i \in DOMAIN log, c \in RecClient :
        /\ log[i].path \in DOMAIN client[c] \cap Versioned
        /\ dominates(client[c][log[i].path].version, log[i].version)
        => OwnUpdates(log[i].knows, RecServer) \subseteq client[c][log[i].path].data

\* A request is decoded as it was built, also with a full count of entries; one
\* more entry and the count is 0, and the bytes that follow are misread.
RequestsSurvive ==
    \A c \in RecClient :
        LET known == build_request(c)
        IN  \A r \in {known, [p \in DOMAIN known |-> FullVersion(known[p])]} :
                decode_request(encode_request(r)) =
                    [ok |-> TRUE, off |-> Len(encode_request(r)), known |-> r]

\* The versions of the log and of the clients compare and merge as versions should.
VersionsCompare ==
    VersionLaws({log[i].version : i \in DOMAIN log}
                \cup UNION {{client[c][p].version : p \in DOMAIN client[c]} : c \in RecClient})

\* The invariant of recovery: a plan brings a client up to date with the server's
\* own writes, because versions claim no more than is there and requests arrive
\* as they were built.
RecoveryInv ==
    RecoveryTypeOK /\ PlanComplete /\ VersionsHonest /\ RequestsSurvive /\ VersionsCompare
=============================================================================
