----------------------------- MODULE AckTracking -----------------------------
(***************************************************************************)
(* SendTracker and RecvTracker at the two ends of a link that loses,       *)
(* repeats and reorders packets and acks.                                  *)
(*                                                                         *)
(* Packets are 0, 1, 2, ... in the order they are sent; on the wire and in *)
(* both trackers a packet is its number modulo SeqMod (2^32 in the code),  *)
(* compared by serial arithmetic.  Peer records packets in both trackers;  *)
(* the steps that build and process acks are the trackers' interface, and  *)
(* nothing in Peer calls them yet.                                         *)
(***************************************************************************)
EXTENDS Integers, Sequences, FiniteSets

CONSTANTS
    SeqMod,      \* packet numbers are kept modulo this, an even number
    BITMAP_SIZE, \* how many packets back the receiver remembers
    MaxRanges,   \* SACK ranges an ack may have (4 in the code)
    First,       \* packets sent, received and acked before the model starts
    MaxPackets,  \* bound on the packets sent
    MaxLag       \* bound on how far the sender is ahead of what is in flight
                 \* and of what the receiver has seen

ASSUME AckAssumption ==
    /\ SeqMod \in Nat \ {0} /\ SeqMod % 2 = 0
    /\ BITMAP_SIZE \in 1 .. SeqMod \div 2
    /\ MaxRanges \in Nat /\ MaxPackets \in Nat
    /\ First \in {0} \cup BITMAP_SIZE .. MaxPackets
    /\ MaxLag \in 0 .. SeqMod \div 2 - BITMAP_SIZE

VARIABLES
    sent,     \* how many packets were sent
    acked,    \* packets SendTracker has marked acked
    collected, \* packets gc has dropped from sent_
    net,      \* packets in flight
    acks,     \* acks in flight
    has_received, largest_received, bitmap, \* RecvTracker
    received  \* history: packets that arrived

sender == <<sent, acked, collected>>
receiver == <<has_received, largest_received, bitmap, received>>
vars == <<sender, net, acks, receiver>>

Number == 0 .. SeqMod - 1
SackRange == [start : Number, end : Number]
Ack == [largest : Number, ranges : Seq(SackRange)]
Offset == 0 .. BITMAP_SIZE - 1

TypeOK ==
    /\ sent \in 0 .. MaxPackets
    /\ acked \in SUBSET (0 .. sent - 1)
    /\ collected \in SUBSET acked
    /\ net \in SUBSET (0 .. sent - 1)
    /\ acks \in SUBSET Ack
    /\ has_received \in BOOLEAN
    /\ largest_received \in Number
    /\ bitmap \in SUBSET Offset
    /\ received \in SUBSET (0 .. sent - 1)

num(n) == n % SeqMod

Init ==
    /\ sent = First
    /\ acked = 0 .. First - 1 /\ collected = acked /\ received = acked
    /\ net = {} /\ acks = {}
    /\ has_received = (First > 0)
    /\ largest_received = IF First > 0 THEN num(First - 1) ELSE 0
    /\ bitmap = IF First > 0 THEN Offset ELSE {}

-----------------------------------------------------------------------------
(* Serial number arithmetic.                                               *)

diff(a, b) == (a - b) % SeqMod

\* static_cast<int32_t>(a - b) < 0
seq_lt(a, b) == diff(a, b) >= SeqMod \div 2

seq_le(a, b) == a = b \/ seq_lt(a, b)
seq_gt(a, b) == seq_lt(b, a)
seq_ge(a, b) == a = b \/ seq_gt(a, b)

-----------------------------------------------------------------------------
(* RecvTracker.  bitmap is the set of offsets whose bit is set.            *)

get_bit(k) ==
    /\ has_received
    /\ ~seq_gt(k, largest_received)
    /\ diff(largest_received, k) \in bitmap

is_duplicate(k) == get_bit(k)

\* Mutation of shift_bitmap: off by one.
shift_bitmap_short(b, shift) == {i + shift - 1 : i \in b} \cap Offset

shift_bitmap(b, shift) == {i + shift : i \in b} \cap Offset

on_packet_received(k) ==
    /\ has_received' = TRUE
    /\ IF ~has_received
       THEN largest_received' = k /\ bitmap' = {0}
       ELSE IF seq_gt(k, largest_received)
       THEN /\ largest_received' = k
            /\ bitmap' = shift_bitmap(bitmap, diff(k, largest_received)) \cup {0}
       ELSE /\ bitmap' = bitmap \cup ({diff(largest_received, k)} \cap Offset)
            /\ UNCHANGED largest_received

\* Bits 1, 2, ... of the bitmap as a scan sees them: maximal runs of set bits
\* that end before the window does are closed ranges, newest first.
ClosedRuns ==
    {r \in Offset \X Offset :
        /\ 1 <= r[1] /\ r[1] <= r[2] /\ r[2] < BITMAP_SIZE - 1
        /\ r[1] .. r[2] \subseteq bitmap
        /\ r[1] - 1 \notin bitmap \ {0} /\ r[2] + 1 \notin bitmap}

\* The i-th closed run from the newest.
Run(i) == CHOOSE r \in ClosedRuns : Cardinality({s \in ClosedRuns : s[1] <= r[1]}) = i

RangeCount == IF Cardinality(ClosedRuns) < MaxRanges THEN Cardinality(ClosedRuns) ELSE MaxRanges

\* The scan reached the end of the window inside a run.
OpenRun == Cardinality(ClosedRuns) < MaxRanges /\ BITMAP_SIZE - 1 \in bitmap \ {0}

\* Mutation of sack_ranges: the packet that ends a run is taken in.
sack_ranges_wide ==
    [i \in 1 .. RangeCount |->
        [start |-> diff(largest_received, Run(i)[2] + 1),
         end   |-> diff(largest_received, Run(i)[1])]]

\* An open run gets no range of its own: the last closed range is extended.
sack_ranges ==
    [i \in 1 .. RangeCount |->
        [start |-> IF i = RangeCount /\ OpenRun
                   THEN diff(largest_received, BITMAP_SIZE - 1)
                   ELSE diff(largest_received, Run(i)[2]),
         end   |-> diff(largest_received, Run(i)[1])]]

build_ack == [largest |-> largest_received, ranges |-> sack_ranges]

-----------------------------------------------------------------------------
(* SendTracker.                                                            *)

\* Packets sent_ still lists.
Listed == (0 .. sent - 1) \ collected

InRanges(k, ranges) ==
    \E i \in DOMAIN ranges : seq_ge(k, ranges[i].start) /\ seq_le(k, ranges[i].end)

\* An ack marks everything up to its largest packet, and its ranges.
on_ack_received(a) ==
    acked' = acked \cup
        {n \in Listed : seq_le(num(n), a.largest) \/ InRanges(num(n), a.ranges)}

\* Not acked and, at some later time, older than the timeout.
retransmit_candidates == Listed \ acked

-----------------------------------------------------------------------------
(* Actions.                                                                *)

\* Serial arithmetic presumes that nobody is half the number space ahead.
InLag ==
    /\ \A n \in net : sent - n <= MaxLag
    /\ \A a \in acks : diff(num(sent), a.largest) <= MaxLag
    /\ has_received => diff(num(sent), largest_received) <= MaxLag

Send ==
    /\ sent < MaxPackets
    /\ InLag
    /\ sent' = sent + 1
    /\ net' = net \cup {sent}
    /\ UNCHANGED <<acked, collected, acks, receiver>>

\* A packet arrives; another copy of it may still be on the way.
Receive(n) ==
    /\ n \in net
    /\ on_packet_received(num(n))
    /\ received' = received \cup {n}
    /\ net' \in {net, net \ {n}}
    /\ UNCHANGED <<sender, acks>>

Lose(n) ==
    /\ n \in net
    /\ net' = net \ {n}
    /\ UNCHANGED <<sender, acks, receiver>>

\* One ack at a time is in flight.
Acknowledge ==
    /\ has_received
    /\ acks = {}
    /\ acks' = {build_ack}
    /\ UNCHANGED <<sender, net, receiver>>

\* An ack arrives once, again, or never.
ReceiveAck(a) ==
    /\ a \in acks
    /\ on_ack_received(a)
    /\ acks' \in {acks, acks \ {a}}
    /\ UNCHANGED <<sent, collected, net, receiver>>

LoseAck(a) ==
    /\ a \in acks
    /\ acks' = acks \ {a}
    /\ UNCHANGED <<sender, net, receiver>>

\* Pops packets from the front that are acked and before oldest_unacked.
gc(oldest_unacked) ==
    /\ collected' = collected \cup
          {n \in Listed : \A m \in Listed :
              m <= n => m \in acked /\ seq_lt(num(m), num(oldest_unacked))}
    /\ UNCHANGED <<sent, acked, net, acks, receiver>>

Next ==
    \/ Send \/ Acknowledge
    \/ \E n \in Listed : gc(n)
    \/ \E n \in net : Receive(n) \/ Lose(n)
    \/ \E a \in acks : ReceiveAck(a) \/ LoseAck(a)

Spec == Init /\ [][Next]_vars

-----------------------------------------------------------------------------
(* Properties.                                                             *)

Newest == CHOOSE n \in received : \A m \in received : m <= n

\* "bit[i] = 1 means (largest_received_ - i) was received": the bitmap is
\* right for every packet of the window, across losses, repetitions,
\* reordering and the wrap of the packet number.
BitmapExact ==
    has_received =>
        LET newest == Newest
        IN  /\ largest_received = num(newest)
            /\ bitmap = {i \in Offset : newest - i \in received}

\* A packet that may still arrive is a duplicate for the tracker exactly when
\* it arrived before, as long as the window reaches back to it.
DuplicatesDetected ==
    has_received =>
        LET newest == Newest
        IN  \A n \in net : newest - n < BITMAP_SIZE =>
                (is_duplicate(num(n)) <=> n \in received)

\* The sender never takes a packet for acknowledged that is newer than all
\* the receiver has seen.
NothingAckedAhead == \A n \in acked : \E m \in received : n <= m

\* "Send side: [...] determines what needs retransmission": a packet that was
\* not received is still a candidate for retransmission.
AckedMeansReceived == 0 .. sent - 1 \subseteq received \cup retransmit_candidates

\* "A gap = missing packets between received ranges": while the oldest run of
\* the window is closed, the ranges of an ack hold exactly the packets of the
\* window below the largest that were received, and never one that was not.
SackExact ==
    (has_received /\ ~OpenRun) =>
        LET newest == Newest
        IN  \A n \in 0 .. sent - 1 :
                (n < newest /\ newest - n < BITMAP_SIZE) =>
                    /\ InRanges(num(n), sack_ranges) => n \in received
                    /\ n \in received /\ RangeCount < MaxRanges => InRanges(num(n), sack_ranges)

\* The invariant of the trackers: the receive window is exact, and what the
\* sender takes for acknowledged is not ahead of it.
AckInv == TypeOK /\ BitmapExact /\ DuplicatesDetected /\ NothingAckedAhead
=============================================================================
