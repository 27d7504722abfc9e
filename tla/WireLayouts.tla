----------------------------- MODULE WireLayouts ------------------------------
(***************************************************************************)
(* The fixed-size headers and frames: fields one after the other, each in  *)
(* network byte order.  A layout is the sequence of <<field, width>> that  *)
(* encode writes and decode reads.  A byte sequence too short for the      *)
(* layout is refused.                                                      *)
(***************************************************************************)
EXTENDS Integers, Sequences

LOCAL INSTANCE SequencesExt

write_uint(v, width) == [i \in 1 .. width |-> (v \div 256^(width - i)) % 256]

read_uint(bytes) == FoldLeft(LAMBDA acc, b : 256 * acc + b, 0, bytes)

\* [4b version][4b flags].
make_version_flags(version, flags) == ((version * 16) % 256) + (flags % 16)

PacketHeaderLayout == <<<<"version_flags", 1>>, <<"packet_type", 1>>, <<"connection_id", 2>>,
    <<"packet_number", 4>>, <<"timestamp_us", 4>>, <<"payload_length", 2>>, <<"checksum", 2>>>>
FrameHeaderLayout == <<<<"type", 1>>, <<"length", 2>>>>
ConnectLayout == <<<<"magic", 4>>, <<"version", 1>>, <<"max_frame_size", 2>>>>
AcceptLayout == <<<<"assigned_conn_id", 2>>, <<"server_timestamp_us", 4>>>>
CloseLayout == <<<<"reason", 1>>>>
PingLayout == <<<<"ping_id", 4>>, <<"timestamp_us", 4>>>>
AckLayout == <<<<"largest_acked", 4>>, <<"ack_delay_us", 2>>, <<"sack_range_count", 1>>>>
StateDeclareLayout == <<<<"path_hash", 4>>, <<"crdt_type", 1>>, <<"reliability", 1>>>>
StateDeltaLayout == <<<<"path_hash", 4>>, <<"crdt_type", 1>>, <<"reliability", 1>>,
    <<"author_node_id", 2>>>>
StateSnapshotLayout == <<<<"path_hash", 4>>, <<"crdt_type", 1>>, <<"author_node_id", 2>>>>
CapabilityRevokeLayout == <<<<"token_id", 4>>, <<"issuer_node_id", 2>>>>
RouteAnnounceLayout == <<<<"path_hash", 4>>, <<"announcing_node_id", 2>>>>
UnsubscribeLayout == <<<<"sub_id", 4>>>>
CreditLayout == <<<<"sub_id", 4>>, <<"credits", 4>>>>
FecHeaderLayout == <<<<"group_id", 2>>, <<"group_size", 1>>, <<"index", 1>>>>

\* The parts before the pattern of the two frames that carry one; the last
\* field is its length.
SubscribeLayout == <<<<"sub_id", 4>>, <<"initial_credits", 4>>, <<"freshness_us", 4>>,
    <<"tier", 1>>, <<"pattern", 2>>>>
CapabilityLayout == <<<<"token_id", 4>>, <<"issuer_id", 4>>, <<"permissions", 1>>,
    <<"expiry_us", 4>>, <<"parent_token_id", 4>>, <<"pattern", 2>>>>

Layout == {PacketHeaderLayout, FrameHeaderLayout, ConnectLayout, AcceptLayout, CloseLayout,
           PingLayout, AckLayout, StateDeclareLayout, StateDeltaLayout, StateSnapshotLayout,
           CapabilityRevokeLayout, RouteAnnounceLayout, UnsubscribeLayout, CreditLayout,
           FecHeaderLayout, SubscribeLayout, CapabilityLayout}

FieldsOf(layout) == {layout[i][1] : i \in DOMAIN layout}
WidthOf(layout, f) == (CHOOSE x \in {layout[i] : i \in DOMAIN layout} : x[1] = f)[2]
SizeOf(layout) == FoldLeft(LAMBDA n, x : n + x[2], 0, layout)

encode(layout, rec) == FoldLeft(LAMBDA bytes, x : bytes \o write_uint(rec[x[1]], x[2]), <<>>, layout)

\* What decode reads, as a set of at most one record.
decode(layout, bytes) ==
    LET Step(r, x) == [off |-> r.off + x[2],
                       rec |-> [f \in DOMAIN r.rec |->
                           IF f = x[1] THEN read_uint(SubSeq(bytes, r.off + 1, r.off + x[2]))
                           ELSE r.rec[f]]]
    IN  IF Len(bytes) < SizeOf(layout) THEN {}
        ELSE {FoldLeft(Step, [off |-> 0, rec |-> [f \in FieldsOf(layout) |-> 0]], layout).rec}

\* encode and decode of a frame with a pattern and tail bytes after it.
encode_pattern(layout, rec, pattern, tail) ==
    encode(layout, [rec EXCEPT !.pattern = Len(pattern)]) \o pattern \o tail

decode_pattern(layout, bytes, tail_len) ==
    {[fields |-> r, pattern |-> SubSeq(bytes, SizeOf(layout) + 1, SizeOf(layout) + r.pattern)] :
         r \in {r \in decode(layout, bytes) : SizeOf(layout) + r.pattern + tail_len <= Len(bytes)}}
=============================================================================
