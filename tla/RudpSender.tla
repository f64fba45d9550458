----------------------------- MODULE RudpSender -----------------------------
(***************************************************************************)
(* RUDPSender of common/rudp_sender.py: fragmentation, the sliding window, *)
(* cumulative acknowledgement, fast retransmit, the retransmission timeout *)
(* and the congestion-control state machine.                               *)
(*                                                                         *)
(* cwnd and ssthresh are kept in whole bytes; the code's floats carry a    *)
(* fraction of a byte as well.  dup_ack_count saturates at 4: the code only*)
(* asks whether it equals 3 and whether it exceeds 3.  Time is abstracted: *)
(* CheckTimeouts is the tick that finds the timer of the oldest packet     *)
(* expired, which may be any tick while that packet is outstanding, so     *)
(* sent_time, is_retransmitted and the RTT estimate have no variable.      *)
(*                                                                         *)
(* written is a history variable: all packets enqueue_data ever made.      *)
(***************************************************************************)
EXTENDS RudpPacket, Sequences, FiniteSets, FiniteSetsExt, Functions

CONSTANTS
    INITIAL_SSTHRESH,  \* bytes (64 * MSS)
    MessageLengths,    \* lengths of the messages the application may send
    MaxSegments,       \* bound: packets made by enqueue_data over a behaviour
    MaxCwnd            \* bound: cwnd while duplicate ACKs inflate it

ASSUME SsthreshAssumption == INITIAL_SSTHRESH \in Nat /\ INITIAL_SSTHRESH > MSS
ASSUME LengthsAssumption == MessageLengths \subseteq Nat
ASSUME BoundsAssumption == MaxSegments \in Nat /\ MaxCwnd \in Nat

VARIABLES
    base,               \* oldest unacknowledged sequence number
    next_seq,           \* sequence number of the next packet made
    cc_state,           \* "SLOW_START", "AVOIDANCE" or "FAST_RECOVERY"
    cwnd, ssthresh,     \* congestion window and threshold, in bytes
    dup_ack_count,
    last_ack_received,
    inflight_bytes,     \* payload bytes in unacked_packets, kept incrementally
    peer_rwnd,          \* window of the latest ACK, in segments
    unacked_packets,    \* seq -> packet, sent and not acknowledged
    send_buffer,        \* packets waiting for the window
    written,            \* history: every packet enqueue_data made
    data_net            \* DATA packets sent and neither received nor lost

ccVars == <<cc_state, cwnd, ssthresh>>
sndVars == <<base, next_seq, cc_state, cwnd, ssthresh, dup_ack_count,
             last_ack_received, inflight_bytes, peer_rwnd, unacked_packets,
             send_buffer, written>>

CCStates == {"SLOW_START", "AVOIDANCE", "FAST_RECOVERY"}

SndInit ==
    /\ base = 0
    /\ next_seq = 0
    /\ cc_state = "SLOW_START"
    /\ cwnd = MSS
    /\ ssthresh = INITIAL_SSTHRESH
    /\ dup_ack_count = 0
    /\ last_ack_received = 0
    /\ inflight_bytes = 0
    /\ peer_rwnd = MAX_RWND
    /\ unacked_packets = <<>>
    /\ send_buffer = <<>>
    /\ written = <<>>
    /\ data_net = {}

-----------------------------------------------------------------------------
(***************************************************************************)
(* _try_send                                                               *)
(***************************************************************************)

\* Payload bytes of a run of packets that are consecutive in the byte stream,
\* as the front of send_buffer and the front of unacked_packets are.
RunBytes(first, last) == last.hi - first.lo

\* Mutant: the peer's window is not consulted.
EffectiveWindowCwndOnly(cw, rwnd) == Larger(1, cw \div MSS)

\* The segments that may be in flight: min(max(1, cwnd // MSS), peer_rwnd).
EffectiveWindow(cw, rwnd) == Smaller(Larger(1, cw \div MSS), rwnd)

\* The while loop may pop the first k packets of buf: each passes the check
\* on bytes and the check on segments.  Both only get harder as k grows.
MayRelease(k, buf, used, inflight, cw, rwnd) ==
    k > 0 => /\ inflight + RunBytes(buf[1], buf[k]) <= cw
             /\ used + k <= EffectiveWindow(cw, rwnd)

\* How many packets the loop pops before it breaks.
Released(buf, used, inflight, cw, rwnd) ==
    Max({k \in 0..Len(buf) : MayRelease(k, buf, used, inflight, cw, rwnd)})

\* The loop itself, started with the given unacked packets, bytes in flight,
\* congestion window and peer window.  buf is the send buffer it starts from.
TrySend(buf, unacked, inflight, cw, rwnd) ==
    LET k == Released(buf, Cardinality(DOMAIN unacked), inflight, cw, rwnd)
        sent == [s \in {buf[i].seq_num : i \in 1..k} |->
                    buf[s - buf[1].seq_num + 1]]
    IN  /\ send_buffer' = SubSeq(buf, k + 1, Len(buf))
        /\ unacked_packets' = [s \in DOMAIN unacked \cup DOMAIN sent |->
                                IF s \in DOMAIN sent THEN sent[s]
                                ELSE unacked[s]]
        /\ inflight_bytes' = IF k = 0 THEN inflight
                             ELSE inflight + RunBytes(buf[1], buf[k])
        /\ data_net' = data_net \cup {buf[i] : i \in 1..k}

-----------------------------------------------------------------------------
(***************************************************************************)
(* enqueue_data                                                            *)
(***************************************************************************)

\* range(0, max(len(data), 1), MSS): an empty message is one empty packet.
NumChunks(len) == (Larger(len, 1) + MSS - 1) \div MSS

\* Bytes enqueued so far: where the stream position of a new message starts.
StreamEnd == IF written = <<>> THEN 0 ELSE written[Len(written)].hi

\* The packets of a message of len bytes, FIN on the last one.
Chunks(len) ==
    [i \in 1..NumChunks(len) |->
        [seq_num |-> next_seq + i - 1,
         is_fin  |-> i = NumChunks(len),
         lo      |-> StreamEnd + (i - 1) * MSS,
         hi      |-> StreamEnd + Smaller(i * MSS, len)]]

EnqueueData(len) ==
    /\ next_seq + NumChunks(len) <= MaxSegments
    /\ next_seq' = next_seq + NumChunks(len)
    /\ written' = written \o Chunks(len)
    /\ TrySend(send_buffer \o Chunks(len), unacked_packets, inflight_bytes,
               cwnd, peer_rwnd)
    /\ UNCHANGED <<base, cc_state, cwnd, ssthresh, dup_ack_count,
                   last_ack_received, peer_rwnd>>

-----------------------------------------------------------------------------
(***************************************************************************)
(* on_ack_received                                                         *)
(***************************************************************************)

\* Growth of the congestion window on a new ACK.
GrowCwnd ==
    /\ cwnd' = CASE cc_state = "SLOW_START"    -> cwnd + MSS
                 [] cc_state = "AVOIDANCE"     -> cwnd + (MSS * MSS) \div cwnd
                 [] cc_state = "FAST_RECOVERY" -> ssthresh
    /\ cc_state' = IF cc_state = "SLOW_START" /\ cwnd' < ssthresh
                   THEN "SLOW_START" ELSE "AVOIDANCE"
    /\ UNCHANGED ssthresh

\* Mutant: the packet at ack_num is counted too.
AckedBytesOffByOne(ack_num) ==
    LET gone == {s \in DOMAIN unacked_packets : s <= ack_num}
    IN  IF gone = {} THEN 0
        ELSE RunBytes(unacked_packets[Min(gone)], unacked_packets[Max(gone)])

\* Payload bytes of the packets in unacked_packets below ack_num.
AckedBytes(ack_num) ==
    LET gone == {s \in DOMAIN unacked_packets : s < ack_num}
    IN  IF gone = {} THEN 0
        ELSE RunBytes(unacked_packets[Min(gone)], unacked_packets[Max(gone)])

\* Mutant: the packet at ack_num, which the peer still waits for, goes too.
StillUnackedOffByOne(ack_num) ==
    Restrict(unacked_packets, {s \in DOMAIN unacked_packets : s > ack_num})

\* unacked_packets without the keys below ack_num.
StillUnacked(ack_num) ==
    Restrict(unacked_packets, {s \in DOMAIN unacked_packets : s >= ack_num})

\* Mutant: the ACK opens the window but _try_send is not called.
NewAckWithoutSend(ack_num, rwnd) ==
    /\ ack_num > base
    /\ base' = ack_num
    /\ last_ack_received' = ack_num
    /\ dup_ack_count' = 0
    /\ peer_rwnd' = rwnd
    /\ GrowCwnd
    /\ unacked_packets' = StillUnacked(ack_num)
    /\ inflight_bytes' = inflight_bytes - AckedBytes(ack_num)
    /\ UNCHANGED <<next_seq, written, send_buffer, data_net>>

\* ack_num > base: everything below ack_num has arrived in order.
NewAck(ack_num, rwnd) ==
    /\ ack_num > base
    /\ base' = ack_num
    /\ last_ack_received' = ack_num
    /\ dup_ack_count' = 0
    /\ peer_rwnd' = rwnd
    /\ GrowCwnd
    /\ TrySend(send_buffer, StillUnacked(ack_num),
               inflight_bytes - AckedBytes(ack_num), cwnd', rwnd)
    /\ UNCHANGED <<next_seq, written>>

\* Mutant: no floor of two packets.
HalvedCwndNoFloor == cwnd \div 2

\* The congestion response to a loss: ssthresh = max(cwnd / 2, 2 * MSS).
HalvedCwnd == Larger(cwnd \div 2, 2 * MSS)

\* Mutant: resends the last acknowledged packet instead of the oldest open one.
ResendHighestAcked ==
    data_net' = data_net \cup {written[n] : n \in {base} \ {0}}

\* Retransmit the packet at base, if it is outstanding.
ResendBase ==
    data_net' = data_net \cup
                    {unacked_packets[s] : s \in {base} \cap DOMAIN unacked_packets}

\* What makes an ACK a duplicate, and how it is counted.
CountDupAck(ack_num, rwnd) ==
    /\ ack_num <= base
    /\ ack_num = last_ack_received
    /\ ack_num = base
    /\ dup_ack_count' = Smaller(dup_ack_count + 1, 4)
    /\ peer_rwnd' = rwnd
    /\ UNCHANGED <<base, last_ack_received, next_seq, written>>

\* Mutant: the retransmitted packet is counted as in flight a second time.
FastRetransmitRecounted(ack_num, rwnd) ==
    /\ dup_ack_count + 1 = 3
    /\ cc_state # "FAST_RECOVERY"
    /\ CountDupAck(ack_num, rwnd)
    /\ cc_state' = "FAST_RECOVERY"
    /\ ssthresh' = HalvedCwnd
    /\ cwnd' = HalvedCwnd + 3 * MSS
    /\ ResendBase
    /\ base \in DOMAIN unacked_packets
    /\ inflight_bytes' = inflight_bytes + PayloadLen(unacked_packets[base])
    /\ UNCHANGED <<unacked_packets, send_buffer>>

\* Third duplicate: enter fast recovery and retransmit the packet at base.
FastRetransmit(ack_num, rwnd) ==
    /\ dup_ack_count + 1 = 3
    /\ cc_state # "FAST_RECOVERY"
    /\ CountDupAck(ack_num, rwnd)
    /\ cc_state' = "FAST_RECOVERY"
    /\ ssthresh' = HalvedCwnd
    /\ cwnd' = HalvedCwnd + 3 * MSS
    /\ ResendBase
    /\ UNCHANGED <<unacked_packets, send_buffer, inflight_bytes>>

\* Further duplicates inflate the window, which may release new packets.
InflateWindow(ack_num, rwnd) ==
    /\ dup_ack_count + 1 > 3
    /\ cc_state = "FAST_RECOVERY"
    /\ cwnd + MSS <= MaxCwnd
    /\ CountDupAck(ack_num, rwnd)
    /\ cwnd' = cwnd + MSS
    /\ UNCHANGED <<cc_state, ssthresh>>
    /\ TrySend(send_buffer, unacked_packets, inflight_bytes, cwnd', rwnd)

\* Any other duplicate is only counted.
OtherDupAck(ack_num, rwnd) ==
    /\ dup_ack_count + 1 = 3 => cc_state = "FAST_RECOVERY"
    /\ dup_ack_count + 1 > 3 => cc_state # "FAST_RECOVERY"
    /\ CountDupAck(ack_num, rwnd)
    /\ UNCHANGED <<cc_state, cwnd, ssthresh, unacked_packets, send_buffer,
                   inflight_bytes, data_net>>

\* An ACK older than base: only its window is taken over.
StaleAck(ack_num, rwnd) ==
    /\ ack_num <= base
    /\ ~ (ack_num = last_ack_received /\ ack_num = base)
    /\ peer_rwnd' = rwnd
    /\ UNCHANGED <<base, next_seq, cc_state, cwnd, ssthresh, dup_ack_count,
                   last_ack_received, inflight_bytes, unacked_packets,
                   send_buffer, written, data_net>>

OnAckReceived(ack_num, rwnd) ==
    \/ NewAck(ack_num, rwnd)
    \/ FastRetransmit(ack_num, rwnd)
    \/ InflateWindow(ack_num, rwnd)
    \/ OtherDupAck(ack_num, rwnd)
    \/ StaleAck(ack_num, rwnd)

-----------------------------------------------------------------------------
\* Mutant: the timeout resets the windows but resends nothing.
CheckTimeoutsWithoutResend ==
    /\ base \in DOMAIN unacked_packets
    /\ ssthresh' = HalvedCwnd
    /\ cwnd' = MSS
    /\ cc_state' = "SLOW_START"
    /\ UNCHANGED <<base, next_seq, dup_ack_count, last_ack_received,
                   inflight_bytes, peer_rwnd, unacked_packets, send_buffer,
                   written, data_net>>

\* check_timeouts at a tick that finds the timer of the oldest packet expired.
\* A tick that does not find it expired changes nothing.
CheckTimeouts ==
    /\ base \in DOMAIN unacked_packets
    /\ ssthresh' = HalvedCwnd
    /\ cwnd' = MSS
    /\ cc_state' = "SLOW_START"
    /\ ResendBase
    /\ UNCHANGED <<base, next_seq, dup_ack_count, last_ack_received,
                   inflight_bytes, peer_rwnd, unacked_packets, send_buffer,
                   written>>

-----------------------------------------------------------------------------
(***************************************************************************)
(* Properties of the sender state.                                         *)
(***************************************************************************)

SndTypeOK ==
    /\ base \in Nat
    /\ next_seq \in Nat
    /\ cc_state \in CCStates
    /\ cwnd \in Nat
    /\ ssthresh \in Nat
    /\ dup_ack_count \in 0..4
    /\ last_ack_received \in Nat
    /\ inflight_bytes \in Nat
    /\ peer_rwnd \in Nat
    /\ unacked_packets \in [DOMAIN unacked_packets -> DataPacket]
    /\ DOMAIN unacked_packets \subseteq Nat
    /\ send_buffer \in Seq(DataPacket)
    /\ written \in Seq(DataPacket)
    /\ data_net \subseteq DataPacket

\* First sequence number that has not been sent yet.
NextUnsent == next_seq - Len(send_buffer)

\* The packets not yet acknowledged are, in order and without gap, the ones in
\* unacked_packets followed by the ones in send_buffer.  In particular the
\* oldest outstanding packet sits at base, where check_timeouts looks for it.
WindowContiguous ==
    /\ DOMAIN unacked_packets = base..(NextUnsent - 1)
    /\ \A s \in DOMAIN unacked_packets : unacked_packets[s] = written[s + 1]
    /\ send_buffer = SubSeq(written, NextUnsent + 1, Len(written))

\* The incrementally kept inflight_bytes is the payload of unacked_packets: no
\* acknowledgement, retransmission or timeout lets it drift.
InflightExact ==
    inflight_bytes = MapThenSumSet(LAMBDA s : PayloadLen(unacked_packets[s]),
                                   DOMAIN unacked_packets)

\* Packets wait in send_buffer only while something is outstanding: only an ACK
\* can move them on, and only an outstanding packet makes ACKs and timeouts.
NoStall == send_buffer # <<>> => base \in DOMAIN unacked_packets

\* cc_state agrees with the windows: slow start below the threshold, avoidance
\* and recovery at or above it, and never less than one full packet.
CongestionWindow ==
    /\ cwnd >= MSS
    /\ cc_state = "SLOW_START" => cwnd < ssthresh
    /\ cc_state = "AVOIDANCE" => cwnd >= ssthresh
    /\ cc_state = "FAST_RECOVERY" => cwnd >= ssthresh + 3 * MSS

=============================================================================
