---------------------------- MODULE RudpThreads -----------------------------
(***************************************************************************)
(* The client's end of a connection with its two threads.  send runs       *)
(* enqueue_data on the application's thread, while the receive thread of   *)
(* client/transport/rudp_client.py runs on_ack_received and check_timeouts *)
(* on the same RUDPSender.  There is no lock.                              *)
(*                                                                         *)
(* RudpConnection takes each of these calls as one step.  Here a call is   *)
(* cut where the interpreter may switch threads, which is after a call and *)
(* at the end of a loop's body (Python 3.12): the tests of _try_send, its  *)
(* popleft, the two halves of "inflight_bytes += len(...)" and of          *)
(* "inflight_bytes -= len(...)", the scan over unacked_packets.  A packet  *)
(* is put on the wire in the step that ends its "+=": a later send is one  *)
(* that the network delays.  A datagram is never taken off the network: one*)
(* that is lost is one nobody reads, and any may be read again.            *)
(*                                                                         *)
(* popleft raises IndexError when the other thread has just taken the last *)
(* packet, and the scan raises RuntimeError when the other thread has      *)
(* changed the size of unacked_packets.  Nothing catches either: the       *)
(* application sees the exception, the receive thread ends.                *)
(***************************************************************************)
EXTENDS RudpConnection

VARIABLES
    pc,       \* where each thread stands; "idle" outside the sender's methods
    making,   \* packets enqueue_data has still to append
    local,    \* a number read and not yet used: inflight_bytes, or a size
    hand,     \* the packet a thread has popped
    keys      \* keys_to_remove

threadVars == <<pc, making, local, hand, keys>>
tvars == <<vars, threadVars>>

Threads == {"app", "receive"}
NoPacket == [seq_num |-> 0, is_fin |-> FALSE, lo |-> 0, hi |-> 0]

ThreadsInit ==
    /\ Init
    /\ pc = [t \in Threads |-> "idle"]
    /\ making = <<>>
    /\ local = [t \in Threads |-> 0]
    /\ hand = [t \in Threads |-> NoPacket]
    /\ keys = {}

\* Thread t goes on from one place to another.
Goes(t, from, to) == pc[t] = from /\ pc' = [pc EXCEPT ![t] = to]

\* What becomes of a thread when an exception leaves the sender.
Raised(t) == IF t = "receive" THEN "dead" ELSE "idle"

-----------------------------------------------------------------------------
(***************************************************************************)
(* enqueue_data on the application's thread.                               *)
(***************************************************************************)

Send(len) ==
    /\ next_seq + NumChunks(len) <= MaxSegments
    /\ Goes("app", "idle", "append")
    /\ making' = Chunks(len)
    /\ UNCHANGED <<vars, local, hand, keys>>

AppendChunk ==
    /\ Goes("app", "append", IF Len(making) = 1 THEN "bytes" ELSE "append")
    /\ making' = Tail(making)
    /\ send_buffer' = Append(send_buffer, Head(making))
    /\ written' = Append(written, Head(making))
    /\ next_seq' = next_seq + 1
    /\ UNCHANGED <<base, ccVars, dup_ack_count, last_ack_received, peer_rwnd,
                   inflight_bytes, unacked_packets, data_net, rcvVars, ack_net,
                   local, hand, keys>>

-----------------------------------------------------------------------------
(***************************************************************************)
(* One turn of the loop of _try_send, on either thread.                    *)
(***************************************************************************)

\* while self.send_buffer, and the test on the bytes of the first packet.
CheckBytes(t) ==
    /\ Goes(t, "bytes",
            IF send_buffer = <<>> THEN "idle"
            ELSE IF inflight_bytes + PayloadLen(Head(send_buffer)) > cwnd
            THEN "idle" ELSE "segments")
    /\ UNCHANGED <<vars, making, local, hand, keys>>

\* Mutant: the window is compared with the wrong relation.
CheckSegmentsOffByOne(t) ==
    /\ Goes(t, "segments",
            IF Cardinality(DOMAIN unacked_packets) > EffectiveWindow(cwnd, peer_rwnd)
            THEN "idle" ELSE "pop")
    /\ UNCHANGED <<vars, making, local, hand, keys>>

CheckSegments(t) ==
    /\ Goes(t, "segments",
            IF Cardinality(DOMAIN unacked_packets) >= EffectiveWindow(cwnd, peer_rwnd)
            THEN "idle" ELSE "pop")
    /\ UNCHANGED <<vars, making, local, hand, keys>>

\* Mutant: the last packet is popped instead of the first.
PopLast(t) ==
    /\ Goes(t, "pop", IF send_buffer = <<>> THEN Raised(t) ELSE "insert")
    /\ IF send_buffer = <<>> THEN UNCHANGED <<send_buffer, hand>>
       ELSE /\ hand' = [hand EXCEPT ![t] = send_buffer[Len(send_buffer)]]
            /\ send_buffer' = SubSeq(send_buffer, 1, Len(send_buffer) - 1)
    /\ UNCHANGED <<base, next_seq, ccVars, dup_ack_count, last_ack_received,
                   inflight_bytes, peer_rwnd, unacked_packets, written,
                   data_net, rcvVars, ack_net, making, local, keys>>

\* popleft, which raises when the other thread has emptied the buffer.
Pop(t) ==
    /\ Goes(t, "pop", IF send_buffer = <<>> THEN Raised(t) ELSE "insert")
    /\ IF send_buffer = <<>> THEN UNCHANGED <<send_buffer, hand>>
       ELSE /\ hand' = [hand EXCEPT ![t] = Head(send_buffer)]
            /\ send_buffer' = Tail(send_buffer)
    /\ UNCHANGED <<base, next_seq, ccVars, dup_ack_count, last_ack_received,
                   inflight_bytes, peer_rwnd, unacked_packets, written,
                   data_net, rcvVars, ack_net, making, local, keys>>

\* The packet enters unacked_packets and inflight_bytes is read.
Insert(t) ==
    /\ Goes(t, "insert", "add")
    /\ unacked_packets' = [s \in DOMAIN unacked_packets \cup {hand[t].seq_num} |->
                              IF s = hand[t].seq_num THEN hand[t]
                              ELSE unacked_packets[s]]
    /\ local' = [local EXCEPT ![t] = inflight_bytes]
    /\ UNCHANGED <<base, next_seq, ccVars, dup_ack_count, last_ack_received,
                   inflight_bytes, peer_rwnd, send_buffer, written, data_net,
                   rcvVars, ack_net, making, hand, keys>>

\* inflight_bytes is written and the packet is sent.
AddAndSend(t) ==
    /\ Goes(t, "add", "bytes")
    /\ inflight_bytes' = local[t] + PayloadLen(hand[t])
    /\ data_net' = data_net \cup {hand[t]}
    /\ hand' = [hand EXCEPT ![t] = NoPacket]
    /\ UNCHANGED <<base, next_seq, ccVars, dup_ack_count, last_ack_received,
                   peer_rwnd, unacked_packets, send_buffer, written, rcvVars,
                   ack_net, making, local, keys>>

TrySendStep(t) ==
    \/ CheckBytes(t)
    \/ CheckSegments(t)
    \/ Pop(t)
    \/ Insert(t)
    \/ AddAndSend(t)

-----------------------------------------------------------------------------
(***************************************************************************)
(* The receive thread.                                                     *)
(***************************************************************************)

\* on_ack_received with a new ACK, as far as the scan over unacked_packets.
StartNewAck(a) ==
    /\ Goes("receive", "idle", "scan")
    /\ a.ack_num > base
    /\ UNCHANGED <<rcvVars, ack_net>>
    /\ base' = a.ack_num
    /\ last_ack_received' = a.ack_num
    /\ dup_ack_count' = 0
    /\ peer_rwnd' = a.rwnd
    /\ local' = [local EXCEPT !["receive"] = Cardinality(DOMAIN unacked_packets)]
    /\ UNCHANGED <<next_seq, ccVars, inflight_bytes, unacked_packets,
                   send_buffer, written, data_net, making, hand, keys>>

\* Mutant: the packet at ack_num, which the peer still waits for, goes too.
ToRemoveOffByOne == {s \in DOMAIN unacked_packets : s <= base}

\* keys_to_remove; base is ack_num by now.
ToRemove == {s \in DOMAIN unacked_packets : s < base}

\* The dictionary has changed size under the iteration.
Resized ==
    /\ local["receive"] # 0
    /\ local["receive"] # Cardinality(DOMAIN unacked_packets)

Scan ==
    /\ Goes("receive", "scan",
            IF Resized THEN "dead" ELSE IF ToRemove = {} THEN "grow" ELSE "load")
    /\ keys' = IF Resized THEN {} ELSE ToRemove
    /\ UNCHANGED <<vars, making, local, hand>>

\* inflight_bytes -= len(packet.payload), first half.
Load ==
    /\ Goes("receive", "load", "subtract")
    /\ local' = [local EXCEPT !["receive"] = inflight_bytes]
    /\ UNCHANGED <<vars, making, hand, keys>>

\* Second half, and the packet leaves unacked_packets.
SubtractAndDelete ==
    LET seq == Min(keys)
    IN  /\ Goes("receive", "subtract", IF keys = {seq} THEN "grow" ELSE "load")
        /\ inflight_bytes' = local["receive"] - PayloadLen(unacked_packets[seq])
        /\ unacked_packets' = Restrict(unacked_packets, DOMAIN unacked_packets \ {seq})
        /\ keys' = keys \ {seq}
        /\ UNCHANGED <<base, next_seq, ccVars, dup_ack_count, last_ack_received,
                       peer_rwnd, send_buffer, written, data_net, rcvVars,
                       ack_net, making, local, hand>>

\* The congestion window grows; then _try_send.
Grow ==
    /\ Goes("receive", "grow", "bytes")
    /\ GrowCwnd
    /\ UNCHANGED <<base, next_seq, dup_ack_count, last_ack_received,
                   inflight_bytes, peer_rwnd, unacked_packets, send_buffer,
                   written, data_net, rcvVars, ack_net, making, local, hand,
                   keys>>

\* Duplicate ACKs and old ones: nothing here that the other thread disturbs,
\* until a window inflated in fast recovery leads to _try_send.
OtherAck(a) ==
    /\ Goes("receive", "idle", "idle")
    /\ UNCHANGED <<rcvVars, ack_net>>
    /\ \/ FastRetransmit(a.ack_num, a.rwnd)
       \/ OtherDupAck(a.ack_num, a.rwnd)
       \/ StaleAck(a.ack_num, a.rwnd)
    /\ UNCHANGED <<making, local, hand, keys>>

StartInflate(a) ==
    /\ Goes("receive", "idle", "bytes")
    /\ dup_ack_count + 1 > 3
    /\ cc_state = "FAST_RECOVERY"
    /\ cwnd + MSS <= MaxCwnd
    /\ UNCHANGED <<rcvVars, ack_net>>
    /\ CountDupAck(a.ack_num, a.rwnd)
    /\ cwnd' = cwnd + MSS
    /\ UNCHANGED <<cc_state, ssthresh, inflight_bytes, unacked_packets,
                   send_buffer, data_net, making, local, hand, keys>>

\* check_timeouts at the end of the loop's body.
TickThread ==
    /\ pc["receive"] = "idle"
    /\ Tick
    /\ UNCHANGED threadVars

ReceiveThreadStep ==
    \/ \E a \in ack_net : StartNewAck(a) \/ OtherAck(a) \/ StartInflate(a)
    \/ Scan
    \/ Load
    \/ SubtractAndDelete
    \/ Grow
    \/ TickThread

\* The peer reads a DATA packet.
PeerReceives(p) ==
    /\ ProcessSegment(p)
    /\ UNCHANGED <<sndVars, data_net, threadVars>>

AppStep == AppendChunk \/ TrySendStep("app")

ThreadsNext ==
    \/ \E len \in MessageLengths : Send(len)
    \/ AppStep
    \/ TrySendStep("receive")
    \/ ReceiveThreadStep
    \/ \E p \in data_net : PeerReceives(p)

ThreadsSpec == ThreadsInit /\ [][ThreadsNext]_tvars

-----------------------------------------------------------------------------
\* Thread t has taken a packet out of the buffer and not yet filed it.
Holds(t, s) == pc[t] = "insert" /\ hand[t].seq_num = s

\* Every packet from base on is in exactly one place: waiting in send_buffer,
\* in the hand of one thread, or in unacked_packets.  The race in _try_send
\* neither loses a packet nor gives it to both threads.
EveryPacketKept ==
    \A s \in base..(next_seq - 1) :
        Cardinality({i \in 1..Len(send_buffer) : send_buffer[i].seq_num = s})
        + Cardinality({t \in Threads : Holds(t, s)})
        + Cardinality({s} \cap DOMAIN unacked_packets) = 1

\* "The oldest unacknowledged packet is always at seq_num == base"
\* (check_timeouts): true except while a thread has a packet in its hand, so
\* the timer never overlooks a packet for longer than that.
OldestAtBase ==
    /\ \A t \in Threads : pc[t] # "insert"
    /\ \E s \in DOMAIN unacked_packets : s >= base
    => base \in DOMAIN unacked_packets

\* Two threads that pass the window check together overrun the receiver's
\* window by one packet and never by more.
OneBeyondWindow ==
    \A p \in data_net : p.seq_num <= expected_seq + MAX_RWND

\* Packets wait in send_buffer, with both threads outside the sender, only while
\* the receive loop runs and something is outstanding whose ACK or timeout will
\* move them on: "a reliable, pipelined application-layer interface"
\* (RUDPClientTransport).
NoneStranded ==
    /\ send_buffer # <<>>
    /\ pc["app"] = "idle"
    /\ pc["receive"] \in {"idle", "dead"}
    => /\ pc["receive"] = "idle"
       /\ unacked_packets # <<>>

\* The race does not change what the applications see.  A message counts as sent
\* when enqueue_data has begun, before all its packets are in the buffer.
ThreadsStream == INSTANCE MessageStream WITH sent <- written \o making, rcvd <- delivered
ThreadsStreamSafety ==
    /\ ThreadsStream!StreamInit
    /\ [][ThreadsStream!StreamNext]_<<written \o making, delivered>>

=============================================================================
