--------------------------------- MODULE Wire ---------------------------------
(***************************************************************************)
(* Packets: PacketEncoder, PacketDecoder, and how Peer::send_deltas_to     *)
(* puts a batch of deltas into packets and process_data_frames takes them  *)
(* out.  The model builds up a frame field by field, and a batch delta by  *)
(* delta, and checks the conversions on every one it reaches.  The hash    *)
(* and the signature are stand-ins: functions of the bytes they cover.     *)
(***************************************************************************)
EXTENDS WireLayouts

LOCAL INSTANCE SequencesExt
LOCAL INSTANCE Bitwise

CONSTANTS
    MAX_PACKET_SIZE, SIGNATURE_SIZE,
    LengthBytes,     \* width of a frame's length (2 in the code)
    FieldValue,      \* values of fields, cut to their width
    PatternBytes,    \* patterns, as bytes
    DeltaSize,       \* sizes of deltas
    MaxBatch         \* bound on the deltas of a batch

VARIABLES
    layout,    \* the frame or header at hand,
    fields,    \* its fields,
    pattern,   \* and the pattern after them
    cut,       \* bytes the receiver lacks at the end
    batch      \* sizes of the deltas of a flush

wireVars == <<layout, fields, pattern, cut, batch>>

PACKET_HEADER_SIZE == SizeOf(PacketHeaderLayout)
FRAME_HEADER_SIZE == 1 + LengthBytes

WireInit ==
    /\ layout \in Layout
    /\ fields = [f \in FieldsOf(layout) |-> 0]
    /\ pattern = <<>>
    /\ cut = 0
    /\ batch = <<>>

SetField(f, v) ==
    /\ fields' = [fields EXCEPT ![f] = v % 256^(IF WidthOf(layout, f) > 3 THEN 3
                                                ELSE WidthOf(layout, f))]
    /\ UNCHANGED <<layout, pattern, cut, batch>>

SetPattern(p) ==
    /\ layout \in {SubscribeLayout, CapabilityLayout}
    /\ pattern' = p
    /\ UNCHANGED <<layout, fields, cut, batch>>

Cut ==
    /\ cut < 2
    /\ cut' = cut + 1
    /\ UNCHANGED <<layout, fields, pattern, batch>>

\* A batch is built on its own, so that the two do not multiply.
AddDelta(n) ==
    /\ Len(batch) < MaxBatch
    /\ layout = CloseLayout /\ fields.reason = 0 /\ cut = 0
    /\ batch' = Append(batch, n)
    /\ UNCHANGED <<layout, fields, pattern, cut>>

WireNext ==
    \/ \E f \in DOMAIN fields, v \in FieldValue : batch = <<>> /\ SetField(f, v)
    \/ \E p \in PatternBytes : SetPattern(p)
    \/ batch = <<>> /\ Cut
    \/ \E n \in DeltaSize : AddDelta(n)

WireSpec == WireInit /\ [][WireNext]_wireVars

-----------------------------------------------------------------------------
(* Packets.                                                                *)

xxhash16(bytes) ==
    LET n == Len(bytes)
    IN  IF n = 0 THEN 1 ELSE (n * 257 + bytes[1] * 31 + bytes[n] * 7 + bytes[(n + 1) \div 2]) % 65536

\* The header with its checksum zeroed, xor the payload.
compute_checksum(packet) ==
    LET head == SubSeq(packet, 1, PACKET_HEADER_SIZE - 2) \o <<0, 0>>
        payload == SubSeq(packet, PACKET_HEADER_SIZE + 1, Len(packet))
    IN  IF payload = <<>> THEN xxhash16(head) ELSE xxhash16(head) ^^ xxhash16(payload)

\* The payload with one more frame, or {} if the packet is full.  The length
\* of the frame is cut to its width by the caller's cast.
add_frame(payload, type, bytes) ==
    LET len == Len(bytes) % 256^LengthBytes
    IN  IF PACKET_HEADER_SIZE + Len(payload) + FRAME_HEADER_SIZE + len > MAX_PACKET_SIZE
        THEN {}
        ELSE {payload \o <<type>> \o write_uint(len, LengthBytes) \o SubSeq(bytes, 1, len)}

finalize(payload, type, conn_id, number) ==
    LET rec == [version_flags |-> make_version_flags(1, 8), packet_type |-> type,
                connection_id |-> conn_id, packet_number |-> number, timestamp_us |-> 0,
                payload_length |-> Len(payload) % 65536, checksum |-> 0]
        bare == encode(PacketHeaderLayout, rec) \o payload
    IN  encode(PacketHeaderLayout, [rec EXCEPT !.checksum = compute_checksum(bare)]) \o payload

\* parse and verify_checksum: the header, as a set of at most one.
parse(packet) ==
    {h \in decode(PacketHeaderLayout, packet) :
        /\ PACKET_HEADER_SIZE + h.payload_length <= Len(packet)
        /\ h.checksum = compute_checksum(SubSeq(packet, 1, PACKET_HEADER_SIZE + h.payload_length))}

\* The frames next_frame yields, until one does not fit the payload.
Frames(packet) ==
    LET end == Len(packet)
        at[off \in 0 .. end] ==
            IF off + FRAME_HEADER_SIZE > end THEN <<>>
            ELSE LET len == read_uint(SubSeq(packet, off + 2, off + FRAME_HEADER_SIZE))
                 IN  IF off + FRAME_HEADER_SIZE + len > end THEN <<>>
                     ELSE <<[type |-> packet[off + 1],
                             payload |-> SubSeq(packet, off + FRAME_HEADER_SIZE + 1,
                                                off + FRAME_HEADER_SIZE + len)]>>
                          \o at[off + FRAME_HEADER_SIZE + len]
    IN  at[PACKET_HEADER_SIZE]

-----------------------------------------------------------------------------
(* Deltas in packets.                                                      *)

STATE_DELTA == 3

sign(content) == [i \in 1 .. SIGNATURE_SIZE |-> (xxhash16(content) + i) % 256]

\* The i-th delta of the batch: its frame fields and data.
DeltaFields(i) == [path_hash |-> 1000 + i, crdt_type |-> 2, reliability |-> 1, author_node_id |-> 300]
DeltaData(i, n) == [k \in 1 .. n |-> (i + k) % 256]

build_signed_delta(i, n) ==
    LET content == encode(StateDeltaLayout, DeltaFields(i)) \o DeltaData(i, n)
    IN  content \o sign(content)

\* Mutation of Pack: a delta that did not fit is not put into the next packet.
Pack_dropping(s, i, n) ==
    LET fits == add_frame(s.payload, STATE_DELTA, build_signed_delta(i, n))
    IN  IF fits # {} THEN [s EXCEPT !.payload = CHOOSE p \in fits : TRUE]
        ELSE [payload |-> <<>>, sent |-> Append(s.sent, finalize(s.payload, 1, 7, Len(s.sent) + 1))]

\* A delta that does not fit closes the packet and goes first into the next
\* one; if it does not fit that one either, it is in none.
Pack(s, i, n) ==
    LET frame == build_signed_delta(i, n)
        fits == add_frame(s.payload, STATE_DELTA, frame)
        alone == add_frame(<<>>, STATE_DELTA, frame)
    IN  IF fits # {} THEN [s EXCEPT !.payload = CHOOSE p \in fits : TRUE]
        ELSE [payload |-> IF alone = {} THEN <<>> ELSE CHOOSE p \in alone : TRUE,
              sent |-> Append(s.sent, finalize(s.payload, 1, 7, Len(s.sent) + 1))]

LastPacket(s) ==
    IF s.payload = <<>> THEN s.sent
    ELSE Append(s.sent, finalize(s.payload, 1, 7, Len(s.sent) + 1))

\* The packets sent for a batch.
send_deltas_to(sizes) ==
    LastPacket(FoldLeft(LAMBDA s, i : Pack(s, i, sizes[i]),
                        [payload |-> <<>>, sent |-> <<>>], [i \in DOMAIN sizes |-> i]))

\* process_data_frames, for delta frames: those whose signature verifies, as
\* [fields, data].
process_data_frames(packet) ==
    LET Taken(bytes) ==
            LET content == SubSeq(bytes, 1, Len(bytes) - SIGNATURE_SIZE)
            IN  IF Len(bytes) < SizeOf(StateDeltaLayout) + SIGNATURE_SIZE THEN <<>>
                ELSE IF SubSeq(bytes, Len(content) + 1, Len(bytes)) # sign(content) THEN <<>>
                ELSE <<[fields |-> CHOOSE r \in decode(StateDeltaLayout, content) : TRUE,
                        data |-> SubSeq(content, SizeOf(StateDeltaLayout) + 1, Len(content))]>>
    IN  FoldLeft(LAMBDA got, f : IF f.type = STATE_DELTA THEN got \o Taken(f.payload) ELSE got,
                 <<>>, Frames(packet))

-----------------------------------------------------------------------------
(* Properties.                                                             *)

\* Every header and frame is decoded as it was encoded, field by field, from
\* the bytes that were written, and refused if bytes are missing.
LayoutRoundTrip ==
    LET all == encode(layout, fields)
        bytes == SubSeq(all, 1, Len(all) - cut)
    IN  decode(layout, bytes) = IF cut = 0 THEN {fields} ELSE {}

\* SubscribeFramePayload and CapabilityToken, whose length is on the wire: the
\* pattern comes back whole, or the frame is refused.
PatternRoundTrip ==
    layout \in {SubscribeLayout, CapabilityLayout} =>
        LET tail == IF layout = CapabilityLayout THEN SIGNATURE_SIZE ELSE 0
            all == encode_pattern(layout, fields, pattern, [i \in 1 .. tail |-> 9])
            bytes == SubSeq(all, 1, Len(all) - cut)
        IN  decode_pattern(layout, bytes, tail) =
                IF cut > 0 THEN {}
                ELSE {[fields |-> [fields EXCEPT !.pattern = Len(pattern)], pattern |-> pattern]}

FrameSize(n) == FRAME_HEADER_SIZE + SizeOf(StateDeltaLayout) + n + SIGNATURE_SIZE

Fitting(sizes) == SelectSeq([i \in DOMAIN sizes |-> i],
                            LAMBDA i : PACKET_HEADER_SIZE + FrameSize(sizes[i]) <= MAX_PACKET_SIZE)

\* However a batch is cut into packets, every delta that fits a packet by
\* itself is received exactly once and in order, none is received that was not
\* sent, and every packet is accepted and no longer than MAX_PACKET_SIZE.
DeltasArrive ==
    LET packets == send_deltas_to(batch)
    IN  /\ \A i \in DOMAIN packets : Len(packets[i]) <= MAX_PACKET_SIZE /\ parse(packets[i]) # {}
        /\ FlattenSeq([i \in DOMAIN packets |-> process_data_frames(packets[i])]) =
               [k \in DOMAIN Fitting(batch) |->
                    [fields |-> DeltaFields(Fitting(batch)[k]),
                     data |-> DeltaData(Fitting(batch)[k], batch[Fitting(batch)[k]])]]

\* A packet without frames is only sent for a delta that fits no packet.
EmptyOnlyForOversized ==
    LET packets == send_deltas_to(batch)
    IN  (\E i \in DOMAIN packets : Frames(packets[i]) = <<>>) =>
            Len(Fitting(batch)) < Len(batch)

\* What Peer relies on of the codec: frames are decoded as they were encoded,
\* and a batch of deltas comes out of its packets as it went in.
WireInv == LayoutRoundTrip /\ PatternRoundTrip /\ DeltasArrive /\ EmptyOnlyForOversized
=============================================================================
