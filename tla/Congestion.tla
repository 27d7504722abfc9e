----------------------------- MODULE Congestion ------------------------------
(***************************************************************************)
(* CongestionController and its OveruseDetector.                           *)
(*                                                                         *)
(* The rate is in KB/s and times are in ms, rounded down, so that their    *)
(* product is in bytes.  The slope of the TrendlineEstimator, a regression *)
(* in floating point, is any of its three classes at every sample.         *)
(***************************************************************************)
EXTENDS Integers, FiniteSets

CONSTANTS
    MIN_RATE, INITIAL_RATE, MAX_RATE,   \* KB/s
    MIN_CWND, INITIAL_CWND,             \* bytes
    ADDITIVE_INCREASE,                  \* KB/s per second
    OVERUSE_TIME_THRESHOLD,             \* samples
    PacketSize,     \* sizes of packets
    Elapsed, Rtt,   \* ms since the last update, round-trip times in ms
    MaxSent,        \* bound on packets sent
    MaxResets       \* bound on resets

ASSUME CongestionAssumption ==
    /\ MIN_RATE \in Nat \ {0} /\ INITIAL_RATE \in MIN_RATE .. MAX_RATE /\ MAX_RATE \in Nat
    /\ MIN_CWND \in Nat /\ INITIAL_CWND \in Nat /\ MIN_CWND <= INITIAL_CWND
    /\ \A s \in PacketSize : s \in 1 .. MIN_CWND
    /\ ADDITIVE_INCREASE \in Nat /\ Elapsed \subseteq Nat /\ Rtt \subseteq Nat
    /\ MaxSent \in Nat

VARIABLES
    phase,       \* state_
    rate,        \* send_rate_bps_
    cwnd,        \* cwnd_
    in_flight,   \* bytes_in_flight_
    sampled,     \* has_last_sample_
    usage,       \* detector_.state_
    overuse,     \* detector_.overuse_timer_
    unacked,     \* the sizes of the packets sent since reset and neither acked nor lost
    given_up,    \* the sizes of the packets reported lost, whose ack may yet come
    late_acks,   \* history: bytes acked after they were reported lost
    backed_off,  \* history: no sample without overuse since the rate was cut
    packets,     \* used up of MaxSent
    resets       \* used up of MaxResets

congestionVars == <<phase, rate, cwnd, in_flight, sampled, usage, overuse, unacked, given_up,
                    late_acks, backed_off, packets, resets>>

CongestionTypeOK ==
    /\ phase \in {"SLOW_START", "STEADY", "DRAIN"}
    /\ rate \in MIN_RATE .. MAX_RATE
    /\ cwnd \in Nat /\ in_flight \in Nat
    /\ sampled \in BOOLEAN
    /\ usage \in {"NORMAL", "OVERUSE", "UNDERUSE"}
    /\ overuse \in 0 .. MaxSent
    /\ unacked \in [DOMAIN unacked -> PacketSize]
    /\ given_up \in [DOMAIN given_up -> PacketSize]

CongestionInit ==
    /\ phase = "SLOW_START" /\ rate = INITIAL_RATE /\ cwnd = INITIAL_CWND
    /\ in_flight = 0 /\ sampled = FALSE
    /\ usage = "NORMAL" /\ overuse = 0
    /\ unacked = <<>> /\ given_up = <<>>
    /\ late_acks = 0 /\ backed_off = FALSE /\ packets = 0 /\ resets = 0

-----------------------------------------------------------------------------

Between(lo, x, hi) == IF x < lo THEN lo ELSE IF x > hi THEN hi ELSE x

Decrease(r) == (r * 85) \div 100

\* The detector after a sample.
detect(slope) ==
    CASE slope = "rising" -> [timer |-> overuse + 1,
                              usage |-> IF overuse + 1 > OVERUSE_TIME_THRESHOLD
                                        THEN "OVERUSE" ELSE usage]
      [] slope = "falling" -> [timer |-> 0, usage |-> "UNDERUSE"]
      [] slope = "flat" -> [timer |-> 0, usage |-> "NORMAL"]

update_rate(u, elapsed) ==
    LET grown == CASE phase = "SLOW_START" -> rate + (rate * elapsed) \div 1000
                   [] phase = "STEADY" /\ u = "NORMAL" ->
                          rate + (ADDITIVE_INCREASE * elapsed) \div 1000
                   [] OTHER -> rate
    IN  CASE elapsed = 0 -> [phase |-> phase, rate |-> rate]
          [] elapsed > 0 /\ phase = "DRAIN" ->
                 [phase |-> IF u = "OVERUSE" THEN "DRAIN" ELSE "STEADY", rate |-> rate]
          [] elapsed > 0 /\ phase # "DRAIN" /\ u = "OVERUSE" ->
                 [phase |-> "DRAIN", rate |-> Between(MIN_RATE, Decrease(rate), MAX_RATE)]
          [] elapsed > 0 /\ phase # "DRAIN" /\ u # "OVERUSE" ->
                 [phase |-> phase, rate |-> Between(MIN_RATE, grown, MAX_RATE)]

\* Mutation of update_cwnd_from_rate: without a floor.
update_cwnd_from_rate_bare(r, rtt) == r * rtt

update_cwnd_from_rate(r, rtt) == IF r * rtt < MIN_CWND THEN MIN_CWND ELSE r * rtt

\* bytes_in_flight_ without a packet.
Landed(size) == IF in_flight >= size THEN in_flight - size ELSE 0

Drop(f, n) == [m \in DOMAIN f \ {n} |-> f[m]]

can_send(size) == in_flight + size <= cwnd

-----------------------------------------------------------------------------

\* The caller sends when can_send allows it.
on_packet_sent(size) ==
    /\ packets < MaxSent
    /\ can_send(size)
    /\ packets' = packets + 1
    /\ in_flight' = in_flight + size
    /\ unacked' = [n \in DOMAIN unacked \cup {packets'} |-> IF n = packets' THEN size ELSE unacked[n]]
    /\ UNCHANGED <<phase, rate, cwnd, sampled, usage, overuse, given_up, late_acks, backed_off, resets>>

\* on_ack_received for a packet of this size.  The first sample after a reset
\* only sets the timestamps.
on_ack(size, slope, elapsed, rtt) ==
    /\ in_flight' = Landed(size)
    /\ sampled' = TRUE
    /\ IF sampled
       THEN LET d == detect(slope)
                u == update_rate(d.usage, elapsed)
            IN  /\ usage' = d.usage /\ overuse' = d.timer
                /\ phase' = u.phase /\ rate' = u.rate
                /\ cwnd' = IF rtt > 0 THEN update_cwnd_from_rate(u.rate, rtt) ELSE cwnd
                /\ backed_off' = \/ u.rate < rate
                                 \/ backed_off /\ (d.usage = "OVERUSE" \/ elapsed = 0)
       ELSE UNCHANGED <<usage, overuse, phase, rate, cwnd, backed_off>>
    /\ UNCHANGED <<packets, resets>>

Acked(n, slope, elapsed, rtt) ==
    /\ on_ack(unacked[n], slope, elapsed, rtt)
    /\ unacked' = Drop(unacked, n)
    /\ UNCHANGED <<given_up, late_acks>>

\* The ack of a packet that was reported lost.
AckedLate(n, slope, elapsed, rtt) ==
    /\ on_ack(given_up[n], slope, elapsed, rtt)
    /\ given_up' = Drop(given_up, n)
    /\ late_acks' = late_acks + given_up[n]
    /\ UNCHANGED unacked

\* Mutation of on_packet_lost: the phase is left.
on_packet_lost_phase(n) ==
    /\ in_flight' = Landed(unacked[n])
    /\ rate' = Between(MIN_RATE, Decrease(rate), rate)
    /\ cwnd' = update_cwnd_from_rate(rate', 100)
    /\ unacked' = Drop(unacked, n)
    /\ given_up' = [m \in DOMAIN given_up \cup {n} |-> IF m = n THEN unacked[n] ELSE given_up[m]]
    /\ backed_off' = TRUE
    /\ UNCHANGED <<phase, sampled, usage, overuse, late_acks, packets, resets>>

on_packet_lost(n) ==
    /\ in_flight' = Landed(unacked[n])
    /\ phase' = "DRAIN"
    /\ rate' = Between(MIN_RATE, Decrease(rate), rate)
    /\ cwnd' = update_cwnd_from_rate(rate', 100)
    /\ unacked' = Drop(unacked, n)
    /\ given_up' = [m \in DOMAIN given_up \cup {n} |-> IF m = n THEN unacked[n] ELSE given_up[m]]
    /\ backed_off' = TRUE
    /\ UNCHANGED <<sampled, usage, overuse, late_acks, packets, resets>>

\* reset, for a new connection; the detector keeps its state.
congestion_reset ==
    /\ resets < MaxResets
    /\ phase' = "SLOW_START" /\ rate' = INITIAL_RATE /\ cwnd' = INITIAL_CWND
    /\ in_flight' = 0 /\ sampled' = FALSE
    /\ unacked' = <<>> /\ given_up' = <<>> /\ late_acks' = 0 /\ backed_off' = FALSE
    /\ resets' = resets + 1
    /\ UNCHANGED <<usage, overuse, packets>>

Slope == {"rising", "flat", "falling"}

CongestionNext ==
    \/ \E size \in PacketSize : on_packet_sent(size)
    \/ \E n \in DOMAIN unacked : on_packet_lost(n)
    \/ \E n \in DOMAIN unacked, s \in Slope, e \in Elapsed, r \in Rtt : Acked(n, s, e, r)
    \/ \E n \in DOMAIN given_up, s \in Slope, e \in Elapsed, r \in Rtt : AckedLate(n, s, e, r)
    \/ congestion_reset

CongestionSpec == CongestionInit /\ [][CongestionNext]_congestionVars

-----------------------------------------------------------------------------
(* Properties.                                                             *)

SizeAt(u, n) == IF n \in DOMAIN u THEN u[n] ELSE 0

\* The sum of the sizes in u.
Total(u) ==
    LET upTo[n \in 0 .. MaxSent] == IF n = 0 THEN 0 ELSE upTo[n - 1] + SizeAt(u, n)
    IN  upTo[MaxSent]

Outstanding == Total(unacked)

\* bytes_in_flight_ counts the packets that are out: exactly, until the ack
\* of a packet reported lost is subtracted a second time, and then at most
\* those late bytes too few.
InFlightAccounted ==
    /\ in_flight <= Outstanding
    /\ Outstanding - late_acks <= in_flight

\* "Minimum rate floor to keep the connection alive": however far losses and
\* delay have cut the rate and the window, with nothing outstanding a packet
\* may be sent.
NeverStuck == DOMAIN unacked = {} => \A size \in PacketSize : can_send(size)

\* After the rate was cut it does not rise again before a sample without
\* overuse has been seen.
BackOffHolds == [][rate' > rate /\ resets' = resets => ~backed_off]_congestionVars

\* The invariant of the controller: its count of bytes is right, and it never
\* shuts a connection up.
CongestionInv == CongestionTypeOK /\ InFlightAccounted /\ NeverStuck
=============================================================================
