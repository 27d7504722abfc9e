# A TLA+ verification of ROM (Replicated Object Memory)

ROM is a C++ library in which peers share *regions* of state. A region is a
CRDT (a data type whose replicas can be merged); each peer changes its own
replica, sends the changes as deltas in datagrams, and merges what it receives.
Connections come from a small handshake. There is no server and no retransmission.

This directory models the library in TLA+, from the CRDTs down to the
transports, checks the models with TLC on small instances, and proves the
central safety results with TLAPS for every instance. `PROJECT.json` lists components, runs, mutants (deliberate
errors every property must detect), the source lines behind each definition,
findings, hazards and theorems. Paths below are relative to the repository root
(`src/` and `include/protocoll/`).

## The system

| Part | State | Operations | Module |
|---|---|---|---|
| `Peer`, replication | connections, registered keys, regions | `declare`, `set_lww`, `increment_counter`, `flush`, `poll` | `Replication` + one module per CRDT |
| `Peer`, handshake | slots of connections, `hs_state_`, `next_auto_node_id_` | `connect`, `accept_from`, `connect_to`, `accept_node`, `connect_start/_poll`, `accept_start/_poll`, `disconnect`, `disconnect_node`, auto-accept in `poll` | `Handshake`, `ConnectionProofs` |
| `Connection`, `ConnectionManager`, `handshake::*` | state, remote, epoch | `initiate`, `accept`, `on_*`, `close`, `add`, `remove`, `primary` | `Handshake`, epochs in `LwwReplication` |
| `StateRegistry` | declared regions, version vectors | `declare`, `collect_deltas`, `apply_delta` | `Replication`, CRDT modules |
| `GCounter`, `PnCounter` | count per node (two halves for PN) | `increment`, `decrement`, `delta`, `merge` | `CounterReplication`, `CounterViews`, `CounterProofs` |
| `LwwRegister` | value, timestamp, node id | `set`, `delta`, `merge` | `LwwReplication`, `RegionProofs` |
| `OrSet` | entries with tags, pending adds and removes | `add`, `remove`, `delta`, `merge` | `OrSetReplication`, `OrSetProofs` |
| `SendTracker`, `RecvTracker` | sent packets; largest received and a bitmap | `on_packet_sent`, `on_ack_received`, `gc`, `on_packet_received`, `is_duplicate`, `build_ack` | `AckTracking`, `AckProofs` |
| `AsyncTransport` | queue, pool of threads, `running_` | `start`, `stop`, `async_send`, `send_loop` | `AsyncTransport`, `AsyncProofs` |
| `StatePath` | | parsing, `matches` | `StatePaths`, `StatePathCheck` |
| `SubscriptionManager` | subscriptions with credits | `subscribe`, `unsubscribe`, `remove_connection`, `add_credits`, `match_and_consume` | `Subscriptions`, `RegionProofs` |
| `StateObserver` | watches, removals put off | `watch`, `unwatch`, `notify`, `cleanup_expired`, `clear` | `Observers`, `RegionProofs` |
| `DeltaFilter` | tier, rate and last delta per path | `should_forward`, `should_send_version_info`; `flush` through it | `DeltaFilter`, `Resolution`, `RelayProofs` |
| `Router`, `RouteTable` | weighted next hops per path | `announce_path`, `learn_route`, `on_delivery_success/_failure`, `remove_node`, `tick`, `select_next_hops` | `Routing`, `RelayProofs` |
| `CapabilityStore` | tokens, keys | `issue`, `attenuate`, `store`, `revoke`, `find_capability`, `gc`, `register_peer_key` | `Capabilities`, `RegionProofs` |
| `EventLog`, `Recovery`, `VersionVector` | log entries; versions | `append`, snapshots, `compact`, `build_request`, `compute_plan` | `VersionVectors`, `Recovery` |
| Wire codec, frames, packets | | encode, decode, `send_deltas_to`, `process_data_frames` | `WireLayouts`, `Wire` |
| `FecEncoder`, `FecDecoder` | the group at hand | `add`, `flush`, `receive`, `reset` | `Fec`, `ReliabilityProofs` |
| `DeltaOutbox` | deltas with deadlines | `push`, `pop`, `gc`, `coalesce` | `Freshness`, `ReliabilityProofs` |
| `CongestionController` | phase, rate, window, bytes in flight | `on_packet_sent/_acked/_lost`, `can_send`, `reset` | `Congestion`, `AckProofs` |
| `LoopbackTransport`, `LoopbackBus` | buses, queues, sleeping receivers | create, `bind`, `send_to`, `recv_from`, `close`, destroy | `Loopback`, `ConnectionProofs` |
| `ExternalTransport` | two queues | `bind`, `send_to`, `recv_from`, `push_recv`, `pop_send`, `close` | `External`, `ConnectionProofs` |
| `IocpTransport` | completion port, workers, operations | `bind`, `start`, `stop`, `close`, `async_send`, `worker_loop` | `Iocp`, `AsyncProofs` |
| `DtlsTransport` | state and library context | `bind`, `handshake`, `send_to`, `recv_from`, `close` | `Dtls`, `ConnectionProofs` |
| `RelayNode`, `Aggregator` | buckets, filter, forward queue | `receive_delta`, `tick`, `flush`, `set_config` | `Relay`, `RelayProofs` |
| UDP, io_uring, DPDK; cryptography; C API; tools | | | not modelled (see below) |

How they interact: an application's call changes a CRDT and marks it dirty;
`flush` takes the deltas of dirty regions (clearing the mark) and sends each to
every CONNECTED connection; `poll` takes one datagram, matches it with a
connection by its sender's address, and either runs the handshake or verifies
and merges the deltas. `flush` and `poll` also record packets in the ack
trackers, but nothing builds or processes acks, so replication relies on each
datagram arriving. On its way a delta meets the tables of the peer: `flush` asks
the resolution filter of the connection and fills packets; `poll` checks the
packet, then access (if it is on), merges, and strengthens the route it came by.
`Peer` holds the subscriptions for the application to consult. The watches, the event
log and recovery, the relay, the freshness queue, FEC and congestion control are
called by applications, not by `Peer`.

What is hard here: datagrams are lost, repeated and reordered; connections come
and go on each side separately; keys and declarations arrive late; writers'
clocks have different epochs; tombstones overtake adds; blocking calls take
whatever packet comes next, and time out while the answer is on its way; packet
numbers and clocks wrap; callbacks change the table that is being walked; a log is
compacted under a returning peer; threads race with `stop` and sleep on a shared
condition variable.

## The modules

**Replication** holds what every replicated region needs: `conn`, `known`
(keys), `declared`, and `net`, a *set* of datagrams, so that any of them may be
received next; with `Duplicates` a datagram may be received again, and up to
`MaxLoss` are lost. `send_deltas` is the loop of `flush` over connections;
`applies` is the condition under which `poll` reaches `merge` (the author's key
is registered and the region declared). A datagram `poll` cannot use is
consumed without effect, as in the code. `flush` and `poll` do nothing without a
connection, which their guards say.

Each CRDT module extends it and adds one action per operation: the local
mutation, `Flush` (with the CRDT's `delta`) and `Poll` (with its `merge`). `Next`
lets connections, keys and losses change at any time.

- **CounterReplication**: `mutate` is `increment` or `decrement` by an amount. `entries[p][h][q]`
  is what p believes q counted in half h
  (`"p"`, and `"n"` for a PN-Counter). A G-Counter's delta carries the sender's
  own entry only; a PN-Counter's carries the delta of a dirty half or the whole
  snapshot of a clean one, as `PnCounter::delta` does.
- **CounterViews**: the abstract counter. Only the owner's count grows; others learn
  counts the owner really had and never forget them.
- **LwwReplication**: each connection end has its own epoch; `set_lww` stamps a write
  with the time since the epoch of `primary()` (any entry of an unordered map), modulo
  `TsMod`, or with 0 if the map is empty. `merge` overwrites the register's node id, and `set` keeps
  it.
- **OrSetReplication**: an entry is a pair of element and tag; a tag is a pair of node
  and sequence number. A delta has adds and tombstones, and neither side keeps a tombstone.
- **Handshake**: `slots[p][s]` is p's connection in slot s of the manager (0 for the
  single-connection calls, the node id for the others, 1000 and up for
  auto-accepted ones). A blocking call has two steps: it sends and waits, then
  returns with the next packet (`Return`) or with none (`Timeout`); what the other peers and the network do comes between them. A CONNECT the transport refuses to
  send is recorded in `unsent`. What
  the applications do (`program`) is chosen in `Init` and never changes.
- **AckTracking**: packets are numbered 0, 1, 2, ... in the model and modulo `SeqMod` in
  both trackers. `gc`'s argument is any number of a listed packet.
- **AsyncTransport**: `pc[t]` is the place of thread t in `send_loop`; `control` that of
  the thread that calls `start` and `stop`. A callback may submit the next job. `stop` runs callbacks of
  drained jobs with the lock held; if one submits a job, the thread would lock a
  mutex it holds, and the model says `"stuck"`.

The tables of a peer:

- **StatePaths** has `parse_segments` and `matches` as operators; **StatePathCheck** types
  every short path and pattern, character by character, and compares them.
- **Subscriptions**: `subs` is `subs_`. `match_and_consume` takes a credit of each
  limited subscription it matches; credits and grants are signed, and negative credits are no
  limit. The manager does not know which connections exist.
- **Observers**: `notify` is a loop, so it is a frame of `calls`: `Visit` runs one
  callback, which may `watch`, `unwatch` (itself, too), `clear` or `notify` again (a further
  frame) before `Return`. The order of the unordered map is arbitrary. Where the loop would go on
  from an erased or moved place of the map, which is undefined, the behaviour ends.
- **DeltaFilter** is the state and the answers of the filter; **Resolution** composes it with
  `flush`, which takes the deltas before it asks. What is held back of a register or a counter
  (`whole`) is in its next delta; what is held back of an OR-Set is in none.
- **Routing**: weights are integers in a unit that keeps decay exact.
  Feedback removes a route and adds it anew, as the code does.
- **Capabilities**: `hand` has the copies of tokens that the application and the peers
  keep, from which they derive or grant further ones at any later time, one's own included.
  `conn_us[c]` is `elapsed_us()` of connection c, which wraps; `gc` is given any time.
- **Recovery**: `SendRequest`, `Respond` and `Recover` are separate steps of client and server;
  writes, snapshots, compaction and loss come in between. Versions count a node's own writes of
  registers and G-Counters, as `set_lww` and `increment_counter` do; `apply_delta` and
  `apply_snapshot` change none, so a client has a newer version only if its application takes it
  over (`LearnVersion`). **VersionVectors** has
  the comparison of versions and their encoding, with the count in a narrow field.
- **WireLayouts** lists the fields and widths of every header and frame; **Wire** builds up
  frames field by field and batches delta by delta, and defines how a batch is cut into
  packets and taken out of them, byte by byte.

Reliability and transports:

- **Fec**: a packet's bytes are marks, XOR is symmetric difference, the network loses,
  repeats and reorders. Groups have a true number beside the id that wraps; encoder and decoder
  are reset separately.
- **Freshness**: stamps are modulo `ClockTurn`; the true time is kept beside them.
- **Congestion**: KB/s and ms as integers. The trendline's slope is any of its three
  classes at each sample. Packets reported lost may be acked later.
- **Loopback**: `receiving[t]` is where a thread is in `recv_from`; `deliver` wakes all
  who wait on the bus; a bus lives as long as `Holders` has a transport, and the registry of
  the C API finds it by a weak pointer.
- **External**: two peers and a host that carries packets between them.
- **Iocp**: the kernel (external) completes the operations in `pending` in any order;
  `caller` and `worker[w]` are the places of the threads; receive operations are named by
  the `start` that allocated them, so that a freed one can be told. `start` posts them one by one
  while the workers run, and the kernel may refuse one, which is then never posted again.
- **Dtls**: the library (external) may fail at every step; the inner transport may be closed
  from outside.
- **Relay**: one bucket per path, emitted through the same `DeltaFilter`, and the forward queue
  that `tick` drains.

**MCPeer**, **MCReliability** and **MCTransports** put several of these into one run each. The
parts share no state, so the part a behaviour is about is chosen at the start and
the others keep their initial values: the states are the sum, not the
product, of the parts. An invariant of a part is written as one conjunction
(`SubInv`, `RoutingInv`, ...) of its type invariant and the named properties below.

Variables marked *history* record what happened and are read by properties only.

## The runs

| Run | Instance | Shows |
|---|---|---|
| `counter_churn` | 2 peers, nothing set up, 1 loss, repeats; counts to 3 by 1 or 2 | counts are never invented (`NoPhantomCounts`); the protocol implements `CounterViews` (`ViewsSpec`), which also says that none is forgotten |
| `counter_mesh` | part *counter*: 3 peers, PN-Counter, full mesh, repeats, no loss; eight parts for the tables of a peer | no count is stranded (`NoUpdateStranded`), replicas become equal (`EventualAgreement`); the tables: see below |
| `counter_loss` | 2 peers, 1 loss | *violation*: replicas stay different |
| `lww_churn` | 2 peers, connections opened, accepted, closed and removed, 1 loss, up to 3 writes | writes are never torn (`LwwInv`), deltas never move a register back (`OnlySetRegresses`), the highest stamp wins when stamps differ and all deltas came (`LastWriterWins`) |
| `lww_skew` | accepting end one unit late | *violation*: a later write is refused elsewhere and kept at its writer |
| `orset_churn` | 2 peers, one add each, removes, 1 loss, repeats | tags are unique (`OrSetInv`), only observed entries vanish (`OnlyObservedRemoved`), adds win (`AddWins`), replicas agree unless an add follows its tombstone (`ConvergesUnlessResurrected`) |
| `orset_reorder` | 2 peers, reordering only | *violation*: an add that follows its tombstone stays |
| `handshake_calls` | 3 peers and four kinds of applications, 1 packet lost or repeated, sends refused | no connection unasked for (`HandshakeInv`); the ends of a single connection agree when nothing is in flight (`SymmetricWhenQuiet`) |
| `handshake_late` | a retried `connect_to` | *violation*: connected to a peer that never answered |
| `ack_window` | part *ack*: window of 4, numbers modulo 16 from 14 on; parts for FEC, outbox, congestion, loopback | window, duplicates and acks are exact (`AckInv`), SACK ranges too unless the oldest run is open (`SackExact`); the others: see below |
| `ack_cumulative` | 2 packets | *violation*: a packet never received counts as acked |
| `async_pool` | part *async*: 2 threads, 4 jobs, 2 starts; parts for IOCP, DTLS, external bridge, relay | every job completes once and `stop` is final (`PoolInv`); jobs complete (`RunningJobsComplete`) and `stop` returns (`StopTerminates`), unless it is stuck as below; the others: see below |

The parts of the three composite runs:

| Part | Property | Says |
|---|---|---|
| path | `PathsCompare` | leading and trailing slashes do not matter; a pattern that matches another is narrower |
| subscription | `SubInv` | a limited subscription is sent exactly what it was granted less what it has left, with grants of either sign; nothing matches a subscription that was ended |
| observer | `ObserverInv` | a watch fires at most N times, the one whose callback runs is still in the table, spent ones leave it: each with the exceptions the code makes (see below) |
| resolution | `ResolutionInv` | what COARSE holds back of a register or counter stays below the threshold; the other end lacks only what is not collected or was refused, for OR-Sets for good; NORMAL lets at most 2N - 1 deltas of a path through in a second |
| routing | `RoutingInv`, `WeightIsEarned` | no route through a node that left; a table outgrows its limit only after a weak route; the next hops are the best; only a delivery raises the weight of a route in the table |
| capability | `CapInv`, `GcInvisible` | derived tokens have no more permissions, time or segments than their root; `gc` changes no lookup on a connection whose clock had reached its time, until that clock wraps or restarts |
| recovery | `RecoveryInv` | a plan gives a client all the server itself wrote to registers and G-Counters, after any compaction and any writes in between; versions claim no more than is there; requests arrive as built, with a full count too |
| wire | `WireInv` | every header and frame is decoded as encoded, and refused when cut; a batch comes out of its packets whole and in order |
| fec | `FecInv` | of a full group not closed early, repeated in part or mixed with another of its id: a rebuilt packet was sent, and the missing one is rebuilt once the decoder holds the others and the parity |
| outbox | `FreshnessInv` | nothing late leaves the outbox before a full turn of the clock; nothing fresh is dropped; order is kept |
| congestion | `CongestionInv`, `BackOffHolds` | bytes in flight are right up to late acks; an idle connection can always send; the rate stays cut until overuse ends |
| loopback | `LoopbackInv` | one bus per id, no lost wake-up, nothing from before a close |
| iocp | `IocpInv`, `SendsAnswered` | until a second start on one port: no worker touches a freed operation and no receive slot is lost but to a refusal; callbacks come at most once and (while running) do come |
| dtls | `DtlsInv` | a session exists exactly while CONNECTED; `close` announces its end while the inner transport is up |
| external | `ExternalInv` | the bridge keeps order over closes; nothing comes from a queue that a close has cleared, on either side |
| relay | `RelayInv`, `BucketsDrain` | every update is in a bucket, queued, handed on or withheld; none waits for ever |

Each property has a mutant of the code it depends on that TLC refutes.

### Bounds

Two peers suffice for the churn runs because peers do not forward other peers'
deltas: `forward_deltas` is called nowhere. Third-party counts travel only in
PN-Counter snapshots, hence the three peers of `counter_mesh`. One loss is
enough to strand anything that can be stranded; repeats are unbounded where
`Duplicates` holds. `lww_churn` allows losses and reordering but no repeats,
for the sake of its running time; the same instance with `Duplicates = TRUE`
(2.2 million states) passes too. Its writes are
two by one peer and one by the other, over two instants, so that writes tie, regress and overtake one another; its
timestamps do not wrap. `SeqMod` 16 with a window of 4 and a lag of at most 4
keeps the proportions serial arithmetic needs (everything within half the number
space) and lets the numbers wrap and packets leave the window. In
`handshake_calls`, two calls of each peer reach every pair of calls; the single
connection has six calls at each end, before, during and after it. A slot that was used is never
IDLE again, so `connect` works once in it, while a repeated CONNECT can set up the accepting end
again; a peer that gives up on one connection meets the late answers of another.

The other parts are bounded so that each boundary is met and passed: paths of up to 4
characters over `/`, `*` and one letter (empty, doubled and trailing segments); 2
subscriptions of 2 connections with grants from -2 to 2 and 3 deliveries (a subscription runs
dry, is refilled, and becomes unlimited); 2 watches and 3 notifications (one nested in another,
also for the watch that caused it); 1 path with 3 updates, a limit of 2 per second of 2 ticks over
4 ticks (an interval ends and another begins); 2 paths and 3 nodes with 1 route per path (the table
overflows); 2 tokens in hand, 2 issuers and 2 connections with clocks of 4 numbers (a derivation of
each kind, ids that collide, a clock that wraps);
2 regions, one without versions, 1 client, a log of up to 3 entries compacted to 1, counts of 2
bits (`RequestsSurvive` also encodes versions filled up to 3 entries, where the count is full);
packets of 46 bytes with signatures of 2 and deltas of 0, 1, 18, 19 and 260
bytes (one that just fits, one that just does not, one whose length wraps the one-byte
length); 3 groups of 2 packets with 2 ids, 2 packets in flight when the next is sent (an id comes
back while its last group is on its way); a clock that turns
after 3 ticks and runs for 4; 4 packets and 1 reset under congestion control;
3 transports, 2 ids, 2 endpoints and 3 buses (a bus dies and is made again); 2 IOCP
workers, 2 starts, 1 send, 1 completed receive and 1 refusal per start; 4 DTLS handshakes; 3
packets through the bridge, one larger than the host's buffer; 2 relay paths (one of an unknown
type), 2 updates and 3 configurations.

### Fairness

`counter_mesh` and `counter_loss` assume that each peer's application keeps
calling `flush` and `poll`, as the examples in the repository do in a loop, and that
the transport delivers what it does not lose. `async_pool` assumes that threads
run and that `stop`, once called, goes on; nobody has to call `start`, `stop` or
`async_send`. The timed wait (50 ms) in `send_loop` is why a waiting thread needs no
notification. `IocpFairness` says the same of the IOCP workers and of a `start` or
`stop` that was called, and that the kernel completes every send it accepted (the contract of
a completion port; receives may wait for ever). `RelayFairness` says that the application
calls `tick` periodically, as `relay_node.h` asks, and that time passes; it asks for the ticks that
find something to do (`BusyTick`), since the others change nothing. No other run uses
fairness. A condition on a part that is not active asks nothing, since its
actions are not enabled in its initial state.

### What the violations say

1. A lost delta is never sent again (`peer.cpp`, `flush`), although the
   default level RELIABLE is documented as "Full ACK/retransmit".
2. Timestamps of two peers count from different epochs, so a later write can
   lose at everybody but its writer (`set_lww`); the replicas then differ, against
   "always converges to the same result". The wrap of the 32-bit timestamp has the same effect.
3. `OrSet::merge` keeps no tombstone, so an add that arrives after it is
   resurrected.
4. `connect_to` takes any ACCEPT for its own; a late one connects the wrong pair.
5. `on_ack_received` treats `largest_acked`, the newest packet received, as
   cumulative.

Other behaviour visible in the models, guarded for in the properties rather than
run as violations:

- Reliability: a SACK range swallows a gap when the oldest run reaches the end of
  the window (`OpenRun` in `SackExact`). A group flushed early, of which a packet is
  repeated, or whose id another group in flight has, can make `try_recover` count wrong and return
  bytes no one sent (`fec.cpp:132`); a packet of another group makes the decoder forget the one it
  was at, against "any single packet in the group" of `fec.h`. One ack without overuse ends a
  back-off, also one sent before the rate was cut.
  `CongestionController::reset` leaves the state of `detector_`. The ack of a packet
  already reported lost is subtracted again from the bytes in flight.
- Handshake: `connect` and `connect_start` leave the slot CONNECTING when the send fails, where
  somebody else's late ACCEPT completes it (`unsent` in `NoConnectionUnasked`); a closed connection
  stays in CLOSING; a second CONNECT takes a
  CONNECTED slot back to ACCEPTING; with the multi-connection calls the two ends can disagree.
- Replication: a delta too long for a packet is dropped after its dirty flag was
  cleared, and counted as sent (`peer.cpp:420`); the frame's length is cast to 16 bits
  before it is compared (`peer.cpp:409`). The counts of entries in version vectors, counters
  and OR-Set tags are one byte wide, so the 256th entry is cut.
- Capabilities: `capability.h:82` asks for "a subset of the parent's permissions and path", but
  `attenuate` accepts any pattern with as many segments as the parent's (`capability.cpp:107-118`);
  ids of tokens from different issuers collide; revoking a parent leaves its children, and a
  revoked token that comes back in a grant is stored again, one's own too. Lookups use a clock per
  connection (`peer.cpp:540`), so `gc` can take a token that a connection whose clock is behind, has
  wrapped or has started again would still have found.
- Resolution: `resolution.h` says "max N updates/sec per path" at NORMAL; up to 2N - 1 pass in
  a second that spans two counting intervals. What the filter refuses of an OR-Set is in no later
  delta (`peer.cpp:382`), so the other end never has it.
- Other tables: `learn_route` can grow a table past `max_routes_per_path`, and with a limit of 0
  there is one route and one hop. A grant that takes more credits than there are makes a
  limited subscription unlimited. `Peer` never calls `remove_connection`, and a connection that was
  removed may subscribe again. A one-shot watch whose callback changes its own path fires again;
  a watch that its own callback removes leaves `notify` with a dangling reference
  (`observer.cpp:48`); a nested `notify` discards what the outer one had put off for removal.
- Relay: removals from an OR-Set are not passed on (`aggregator.cpp:60`), and a delta
  the filter refuses is lost. `last_source_` is
  written and never read, so `loops_prevented_` stays 0.
- Recovery: merging changes no version and makes no log entry (`state_registry.cpp:49-64`), so a
  plan of deltas leaves out what others wrote; PN-Counters and OR-Sets have no versions, so it
  leaves their entries out. A plan holds pointers into the log, which a write may move (`recovery.h:37`); the
  model takes a plan and sends it in one step.
- Transports: `AsyncTransport::stop` hangs if a drained callback submits a job (`"stuck"`),
  and a job submitted after it waits for the next `start`. A loopback transport bound twice leaves its
  first queue. `pop_send` with a short buffer loses the packet. The IOCP `stop` frees receive operations
  the kernel still has, and leaves sentinels in the port for the next `start`; a send that
  completes after `stop` is not called back, and `close` drops queued sends without a callback;
  a receive that WSARecvFrom refuses is never posted again (`iocp_transport.cpp:54-56`). Packets the
  host of an external transport popped before a close still arrive. A renewed DTLS handshake drops the session
  without `close_notify`, and a failed one leaves a half-made context.

One more disagreement was met on the way that no module shows, since `Wire` has the codec and not
what `Peer` reads by hand: `process_data_frames` reads the id in ROUTE_ANNOUNCE in little-endian order
(`peer.cpp:588-590`), and `RouteAnnounceFrame`, whose round trip `WireInv` is about, writes big-endian.

## What is proved

`CounterProofs` proves, for every set of nodes, both counter types, all amounts and
bounds, from `ReplicationAssumption` and `CounterAssumption` (types of the
constants only):

- `TypeCorrect`: `Spec => []TypeOK`.
- `PhantomFree`: `Spec => []NoPhantomCounts`. The invariant is inductive together with
  `TypeOK`; it must speak of datagrams as well as replicas, since `merge` moves
  counts from the one to the other.
- `NeverShrink`: `Spec => CountsNeverShrink`, from `TypeOK` and the fact that `merge` is a
  maximum.
- `Refines`: `Spec => ViewsSpec`. Mutations map to `Grow`, polls to `Learn`, everything else to
  stuttering; `Learn`'s upper bound is `NoPhantomCounts`.
- `NothingStranded`: from `FullMeshUp` (all connected, keyed and declared; `StableSpec` loses nothing),
  `StableSpec => []NoUpdateStranded`. The inductive invariant adds `NoPhantomCounts` (so
  that an owner never learns about itself) and `MeshUp` (nothing undoes the
  mesh).

The other proof modules follow the same plan: for each part an inductive invariant, a lemma
for each kind of step, and a temporal theorem at the end. A module has the parts that are
read together; each part has a section of its own. Each theorem holds for all values of
the constants that the named assumption of its model allows: types, finiteness and
non-empty ranges, and what is said below; the bounds of the runs are parameters.

| Module | Theorems | Inductive invariant, and why |
|---|---|---|
| `OrSetProofs` | `TagsAreUnique` (`OrSetInv`), `AddsWin` (`AddWins`), `Convergence` (`ConvergesUnlessResurrected`), `RemovalsObserved` (`OnlyObservedRemoved`) | no tag is ahead of the sequence number of its node (`SeqCovers`), a tombstone is of a tag some remove observed (`Observed`), pending adds are one's own (`PendingOwn`), a removed tag's tombstone is on its way wherever it is missing (`TombstonesTravel`, `DeadStayDead`) |
| `RegionProofs` | `WritesWhole` (`LwwInv`), `RegressionsAreWrites` (`OnlySetRegresses`) | `TypeOK`, `NoMixedWrites` of registers and deltas, and `DirtyHasValue`: what a flush sends was written |
| | `LastWriterWinsEverywhere` (`LastWriterWins`) | every write is, for every peer, on its way: held there or outranked, in flight to it, or pending at a peer that has it (`AllOnTheirWay`). When nothing is pending or in flight only the first remains, so every register holds a write none outranks |
| | `StoreCorrect` (`CapInv`), `GcUnseen` (`GcInvisible`) | what is claimed of the store must hold of every copy in hand (`InHand`, `HandGood`), since revoked and replaced tokens can still be derived from and sent back; what `gc` took has expired by the clock of each connection that had reached its time (`GoneExpired`) |
| | `SubCorrect` (`SubInv`) | `CreditsBalance`; what was ended is out of the table, and an id not yet given away was never matched |
| | `ObserverCorrect` (`ObserverInv`) | calls made and calls left add up to the limit, with one more while a callback runs (`ShotsBalance`, `LimitsOK`); a running callback's watch has calls left (`RunningOK`); what is put off for removal is used up (`PendingOK`); each for the watches that are not called again from their own callback |
| `AckProofs` | `AckCorrect` (`AckInv`), `SackCorrect` (`SackExact`) | the tracker is at some true packet number and its bitmap tells what came before (`At`), every ack in flight was built at such a number (`BuiltAt`), and everything compared is recent, so that numbers modulo `SeqMod` are compared as the true ones would be |
| | `CongestionCorrect` (`CongestionInv`), `BackOffKept` (`BackOffHolds`) | `InFlightAccounted`; a packet that is out or given up has its own number, and each overuse took an ack, which bounds what may be out; a cut holds only while the controller drains |
| `ReliabilityProofs` | `FreshnessCorrect` (`FreshnessInv`) | an entry is what was pushed under its number (`EntriesOK`), and the numbers increase through what was popped and what is queued (`OrderOK`), which `gc` and `coalesce` keep as they keep subsequences (`KthFacts`) |
| | `FecCorrect` (`FecInv`) | groups and packets in flight are what the encoder made of them (`GroupsOK`, `NetOK`), a decoder has packets of one group unless it mixed two of one id (`DecoderOK`), no two the same unless one was repeated (`DistinctIndexes`), and no copy of what it holds is still in flight (`NoneLeft`); then the XOR of all but one is that one (`XorMissing`) |
| `AsyncProofs` | `PoolCorrect` (`PoolInv`) | a job is in one place (`OnePlace`), which turns the counting of `ExactlyOnce` into cases, and `ThreadsJoined` |
| | `IocpCorrect` (`IocpInv`) | a send is with the kernel, in the port, in one worker's hands or called back, and once (`SendsOnce`); the receive operations in these places, yet to be posted and refused add up to the number of workers (`SlotsOK`); the phases of `start`, `stop` and `close` fix which workers live (`PhaseOK`, `PortOK`) |
| `RelayProofs` | `RouterCorrect` (`RoutingInv`), `WeightEarned` (`WeightIsEarned`) | `NoRouteThroughLeaver` and `GrowsOnlyWeak` with the types of the tables, and every weak route is noted (`WeakNoted`); the next hops follow from how the loop goes through the sorted routes |
| | `ResolutionCorrect` (`ResolutionInv`) | `RefusedAndMissing`; the deltas sent in the filter's interval, and the last one of the interval before, are spaced so that no second holds more than `RateBounded` allows (`Paced`); the filter's last delta of a register or counter is something the other end has (`ValuesOK`, `FilterOK`) |
| | `RelayCorrect` (`RelayInv`) | `RelayAccountsForAll`, and an open bucket has an update; `tick` walks the buckets in some order, which covers them all (`OrderCovers`) |
| `ConnectionProofs` | `NothingUnasked` (`HandshakeInv`) | every packet in flight is explained by a call, and every slot that is or may become CONNECTED is justified by a CONNECT that one of its ends sent or was refused (`AllExplained`, `AllJustified`), with the shape of calls in progress (`CallShape`) |
| | `BusesCorrect` (`LoopbackInv`) | `Registry`: the bus of a living transport is the one its id names, and no two ids name one bus; `Packets`: a packet is in one place, so that emptying one queue leaves no copy of what it drops; `Sleepers`: only bound transports sleep, on empty queues |
| | `ExternalCorrect` (`ExternalInv`) | the four places a datagram passes hold increasing numbers, each place behind the next (`InOrder`), and what was pushed is no later than what is carried |
| | `DtlsCorrect` (`DtlsInv`) | a context is that of some handshake; a session has its inner transport up or is already untold |

What the assumptions ask beyond types: `AckAssumption`, that the bitmap is at most half of the
number space and that the sender is ahead of packets and acks in flight, and of the receiver, by
no more than the rest of that half (`MaxLag`; the code's bitmap has 256 bits and its numbers 32); `CongestionAssumption`, that a packet is
no larger than the least window; `FecAssumption`, groups of at least two; `RelayAssumption`,
finitely many paths and a largest batch; `RoutingAssumption`, finitely many nodes and an
ordered range of weights; `HandshakeAssumption`, node ids below the automatic ones.

Facts that need induction over numbers or finite sets (the least element of a set of naturals, the sum of
the sizes in flight, positions of a subsequence) are lemmas, proved
from the well-foundedness of `<`, from cardinalities, or by unfolding a recursive function at one step. In the proof
modules a leaf without a prover is Zenon's, and `SMTT(60)` marks those
that need arithmetic or records.

Only model-checked, and why:

- `EventualAgreement`, `RunningJobsComplete`, `StopTerminates`, `SendsAnswered`, `BucketsDrain`:
  liveness; fairness and ENABLED are outside the prover.
- `WireInv`: the checksum is an XOR of machine words (`Bitwise`), which the provers do not know,
  and packets are built and read by folds over bytes.
- `PathsCompare`, `RecoveryInv`: they compare what a fold over a sequence computes (joined
  segments, an encoded request, the plan over a log) with its meaning for every input. A fold takes an
  operator as parameter, and so do the theorems that would unfold it; no installed prover
  instantiates those.
- `SymmetricWhenQuiet`: an inductive invariant for it has to relate the phases of both ends, the
  packets in flight and the calls that gave up; none has been written.

## What is left out

- In replication: one region per model (regions do not interact); no DeltaFilter is set and access
  control is off, their defaults; deltas fit a packet; no snapshots are exchanged
  (nothing sends one). Version vectors appear only where a property needs them.
- In the handshake: PING and PONG (no state), connection ids (never compared), addresses
  (a peer is its endpoint), malformed packets.
- RTT estimates and byte counters are statistics nobody reads.
- In the tables: `DeltaFilter::reset` and `set_config` (they start over); what happens once
  `notify` has lost its place in the table, which is undefined.
- In the relay: `Aggregator::reset` and the set of downstream nodes, which nothing in
  `RelayNode` calls or reads; the NORMAL tier, which `Resolution` covers.
- `FreshnessStamp::remaining`, accessors, and the trendline's floating-point regression.
- In the receive loop of `AsyncTransport`: one thread hands packets to one handler.

Not modelled at all, and why:

- UDP: a sequence of socket calls without state beyond the descriptor.
- DPDK: driver calls, and io_uring: both are stubs unless the build enables them
  (`PROTOCOLL_ENABLE_DPDK`, `PROTOCOLL_ENABLE_IOURING`). io_uring shares the library's submission ring
  between the application and its event thread without synchronisation, so the
  source does not determine what overlapping submissions do; its `stop`, too,
  frees operations the kernel still has.
- Cryptography: wrappers of a library. A signature verifies when the key is registered.
- The rest of the C API, the bindings and the tools: argument checks, forwarding of single
  calls, and printing.

## Plan

1. Proofs: `SymmetricWhenQuiet`; `PlanComplete` for recovery, from requests taken as they were built.
2. The filter and the packing of `flush` composed with one CRDT, so that drift at a tier
   is stated of the replicas themselves.
3. Recovery composed with `Replication`, for the late joiner whom the convergence
   properties now set aside (`missed`), once `Peer` calls it.
