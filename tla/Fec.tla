--------------------------------- MODULE Fec ---------------------------------
(***************************************************************************)
(* FecEncoder and FecDecoder at the two ends of a link that loses, repeats *)
(* and reorders packets.                                                   *)
(*                                                                         *)
(* The bytes of a packet are abstracted to marks: packet i of group g with *)
(* len bytes is the set {<<g, i, 1>>, ..., <<g, i, len>>}, in which <<g,   *)
(* i, b>> stands for its (nonzero) byte at b.  XOR is the symmetric        *)
(* difference, and the zeros of padding are no marks.  Groups are numbered *)
(* from 0 in the order they were begun, which no packet shows: its header  *)
(* has a group_id that wraps around and that reset() sets back to 0.       *)
(***************************************************************************)
EXTENDS Integers, Sequences, FiniteSets

CONSTANTS
    group_size,   \* group_size_ of the encoder, expected_group_size_ of the decoder
    FecLen,       \* lengths of data packets
    GroupIds,     \* number of values of a group_id
    MaxGroups,    \* bound on the groups begun
    FecWindow     \* a data packet is sent only while fewer packets are in flight

ASSUME FecAssumption ==
    /\ group_size \in Nat \ {0, 1} /\ FecLen \subseteq Nat \ {0}
    /\ GroupIds \in Nat \ {0}

VARIABLES
    encoder,   \* [group_id, count, parity]
    decoder,   \* [started, group_id, received, parity]; received is a sequence of
               \* [index, data], parity a set of at most one parity packet's data;
               \* and group: the number of the group of the last packet (history)
    fec_net,   \* packets in flight, [group_id, group_size, index, data], and group
    groups,    \* history: groups[g + 1]: the data packets of group g, as sent
    short,     \* history: groups that flush or reset closed early
    repeated,  \* history: groups of which a packet was repeated
    mixed,     \* history: groups that the decoder took for others of the same group_id
    rebuilt    \* history: [group, data] the decoder returned

fecVars == <<encoder, decoder, fec_net, groups, short, repeated, mixed, rebuilt>>

NewEncoder == [group_id |-> 0, count |-> 0, parity |-> {}]
NewDecoder == [started |-> FALSE, group_id |-> 0, received |-> <<>>, parity |-> {}, group |-> 0]

\* The number of the group the encoder is in.
Current == Len(groups) - 1

xor(a, b) == (a \ b) \cup (b \ a)

Bytes(g, i, len) == {<<g, i, b>> : b \in 1 .. len}

FecInit ==
    /\ encoder = NewEncoder
    /\ decoder = NewDecoder
    /\ fec_net = {}
    /\ groups = <<<<>>>>
    /\ short = {}
    /\ repeated = {} /\ mixed = {}
    /\ rebuilt = {}

\* Data packets in flight or received are those that were sent.
FecTypeOK ==
    /\ encoder.group_id \in 0 .. GroupIds - 1
    /\ encoder.count \in 0 .. group_size - 1
    /\ encoder.count = Len(groups[Len(groups)])
    /\ \A m \in fec_net : m.index < m.group_size => m.data = groups[m.group + 1][m.index + 1]
    /\ decoder.group \notin mixed => \A i \in DOMAIN decoder.received :
           decoder.received[i].data = groups[decoder.group + 1][decoder.received[i].index + 1]
    /\ Cardinality(decoder.parity) <= 1

-----------------------------------------------------------------------------
(* FecEncoder.                                                             *)

\* build_parity_packet; flush puts the actual group size in the header.
Parity(enc, size) == [group_id |-> enc.group_id, group_size |-> size, index |-> size,
                      data |-> enc.parity, group |-> Current]

NextGroup(enc) == [group_id |-> (enc.group_id + 1) % GroupIds, count |-> 0, parity |-> {}]

\* add_packet; the caller sends the packet, and the parity packet if there is one.
encoder_add(len) ==
    LET data == Bytes(Current, encoder.count, len)
        enc == [group_id |-> encoder.group_id, count |-> encoder.count + 1,
                parity |-> xor(encoder.parity, data)]
        packet == [group_id |-> enc.group_id, group_size |-> group_size,
                   index |-> encoder.count, data |-> data, group |-> Current]
        sent_now == [groups EXCEPT ![Len(groups)] = Append(@, data)]
    IN  /\ Current < MaxGroups
        /\ Cardinality(fec_net) < FecWindow
        /\ IF enc.count >= group_size
           THEN /\ encoder' = NextGroup(enc)
                /\ fec_net' = fec_net \cup {packet, Parity(enc, group_size)}
                /\ groups' = Append(sent_now, <<>>)
           ELSE /\ encoder' = enc
                /\ fec_net' = fec_net \cup {packet}
                /\ groups' = sent_now
        /\ UNCHANGED <<decoder, short, repeated, mixed, rebuilt>>

encoder_flush ==
    /\ encoder.count > 0
    /\ encoder' = NextGroup(encoder)
    /\ fec_net' = fec_net \cup {Parity(encoder, encoder.count)}
    /\ groups' = Append(groups, <<>>)
    /\ short' = short \cup {Current}
    /\ UNCHANGED <<decoder, repeated, mixed, rebuilt>>

\* The group begun so far gets no parity packet; the decoder is not told.
encoder_reset ==
    /\ Current < MaxGroups
    /\ encoder' = NewEncoder
    /\ groups' = Append(groups, <<>>)
    /\ short' = short \cup {Current}
    /\ UNCHANGED <<decoder, fec_net, repeated, mixed, rebuilt>>

-----------------------------------------------------------------------------
(* FecDecoder.                                                             *)

Cleared(dec) == [dec EXCEPT !.started = FALSE, !.received = <<>>, !.parity = {}]

\* The decoder takes m for a packet of another group than its last one.
NewGroup(dec, m) == ~dec.started \/ m.group_id # dec.group_id

\* Mutation of Admit: packets of the previous group are kept.
Admit_mixed(dec, m) ==
    LET d == [dec EXCEPT !.started = TRUE, !.group_id = m.group_id, !.group = m.group]
    IN  IF m.index >= m.group_size
        THEN [d EXCEPT !.parity = {m.data}]
        ELSE [d EXCEPT !.received = Append(@, [index |-> m.index, data |-> m.data])]

\* The decoder after the first part of add_packet: another group restarts it.
Admit(dec, m) ==
    LET d == [(IF NewGroup(dec, m) THEN Cleared(dec) ELSE dec) EXCEPT
                  !.started = TRUE, !.group_id = m.group_id, !.group = m.group]
    IN  IF m.index >= m.group_size
        THEN [d EXCEPT !.parity = {m.data}]
        ELSE [d EXCEPT !.received = Append(@, [index |-> m.index, data |-> m.data])]

\* p XORed with the data of every packet received: the marks that are in an
\* odd number of them.
XorAll(p, received) ==
    LET has(x) == {i \in DOMAIN received : x \in received[i].data}
    IN  {x \in p \cup UNION {received[i].data : i \in DOMAIN received} :
            (x \in p) <=> (Cardinality(has(x)) % 2 = 0)}

Present(received) == {received[i].index : i \in DOMAIN received}

\* The packet recovered, as a set of at most one.
try_recover(d) ==
    {XorAll(p, d.received) :
        p \in IF Len(d.received) = group_size - 1 /\ 0 .. group_size - 1 # Present(d.received)
              THEN d.parity ELSE {}}

decoder_add(m) ==
    /\ decoder' = Admit(decoder, m)
    /\ rebuilt' = rebuilt \cup {[group |-> m.group, data |-> r] : r \in try_recover(decoder')}
    /\ mixed' = IF NewGroup(decoder, m) \/ m.group = decoder.group THEN mixed
                ELSE mixed \cup {decoder.group, m.group}
    /\ UNCHANGED <<encoder, groups, short>>

decoder_reset ==
    /\ decoder' = Cleared(decoder)
    /\ UNCHANGED <<encoder, fec_net, groups, short, repeated, mixed, rebuilt>>

FecReceive(m) ==
    /\ decoder_add(m)
    /\ fec_net' = fec_net \ {m}
    /\ UNCHANGED repeated

\* The network delivers m and has another copy of it.
FecRepeat(m) ==
    /\ decoder_add(m)
    /\ m.group \notin repeated
    /\ repeated' = repeated \cup {m.group}
    /\ UNCHANGED fec_net

FecLose(m) ==
    /\ fec_net' = fec_net \ {m}
    /\ UNCHANGED <<encoder, decoder, groups, short, repeated, mixed, rebuilt>>

FecNext ==
    \/ encoder_reset \/ decoder_reset
    \/ \E len \in FecLen : encoder_add(len)
    \/ encoder_flush
    \/ \E m \in fec_net : FecReceive(m) \/ FecRepeat(m) \/ FecLose(m)

FecSpec == FecInit /\ [][FecNext]_fecVars

-----------------------------------------------------------------------------
(* Properties.                                                             *)

\* The groups nothing is promised of.  They were closed early, so that
\* try_recover, which counts to the group size it was made with, returns what
\* no one sent; or they were repeated in part, or came to the decoder between
\* packets of another group with the same group_id, which it counts together.
Unclear == short \cup repeated \cup mixed

\* What the decoder returns is a data packet of the group, zero-padded, unless
\* the group is one of the unclear ones.
RebuiltWasSent ==
    \A r \in rebuilt :
        r.group \notin Unclear =>
            \E i \in DOMAIN groups[r.group + 1] : r.data = groups[r.group + 1][i]

\* "If any single packet in the group is lost, it can be reconstructed" (fec.h):
\* once the decoder has the parity packet and all packets but one of a full
\* group, in whatever order they came, the missing one has been returned.  It
\* has them only if none of another group came in between, for it forgets a
\* group as soon as it sees another.
SingleLossRebuilt ==
    LET g == decoder.group
    IN  \A i \in 0 .. group_size - 1 :
            /\ g \notin Unclear
            /\ decoder.parity # {} /\ Present(decoder.received) = (0 .. group_size - 1) \ {i}
            => [group |-> g, data |-> groups[g + 1][i + 1]] \in rebuilt

\* The invariant of error correction: of a full group that is neither repeated
\* nor mixed with another, one loss is made good when the rest is there at
\* once, and nothing is made up.
FecInv == FecTypeOK /\ RebuiltWasSent /\ SingleLossRebuilt
=============================================================================
