--------------------------- MODULE RudpConnection ---------------------------
(***************************************************************************)
(* One direction of a reliable-UDP connection: the RUDPSender of one peer, *)
(* the RUDPReceiver of the other and the datagram network between them, as *)
(* rudp_client.py and rudp_server.py wire them up (on_packet_received and  *)
(* _handle_datagram).  The other direction has a sender, a receiver and    *)
(* datagrams of its own and shares no state with this one: ACKs are never  *)
(* piggybacked on DATA.                                                    *)
(*                                                                         *)
(* The network may lose, duplicate, delay and reorder datagrams, which is  *)
(* also all that simulations/failure_engine.py injects.  A datagram that   *)
(* unpack refuses (too short, bad checksum) is a lost datagram.            *)
(***************************************************************************)
EXTENDS RudpSender, RudpReceiver

vars == <<base, next_seq, cc_state, cwnd, ssthresh, dup_ack_count,
          last_ack_received, inflight_bytes, peer_rwnd, unacked_packets,
          send_buffer, written, data_net,
          expected_seq, ooo_buffer, assembly_buffer, delivered, fc_state,
          ack_net>>

Init == SndInit /\ RcvInit

\* The application sends a message of len bytes.
AppSend(len) ==
    /\ EnqueueData(len)
    /\ UNCHANGED <<rcvVars, ack_net>>

\* The receiving peer reads the DATA packet p; the network may hold a copy.
ReceiveData(p) ==
    /\ data_net' \in {data_net, data_net \ {p}}
    /\ ProcessSegment(p)
    /\ UNCHANGED sndVars

\* The sending peer reads the ACK packet a; the network may hold a copy.
ReceiveAck(a) ==
    /\ ack_net' \in {ack_net, ack_net \ {a}}
    /\ OnAckReceived(a.ack_num, a.rwnd)
    /\ UNCHANGED rcvVars

\* The tick at the end of the sending peer's receive loop.
Tick ==
    /\ CheckTimeouts
    /\ UNCHANGED <<rcvVars, ack_net>>

LoseData(p) ==
    /\ data_net' = data_net \ {p}
    /\ UNCHANGED <<sndVars, rcvVars, ack_net>>

LoseAck(a) ==
    /\ ack_net' = ack_net \ {a}
    /\ UNCHANGED <<sndVars, rcvVars, data_net>>

Next ==
    \/ \E len \in MessageLengths : AppSend(len)
    \/ \E p \in data_net : ReceiveData(p)
    \/ \E p \in data_net : LoseData(p)
    \/ \E a \in ack_net : ReceiveAck(a)
    \/ \E a \in ack_net : LoseAck(a)
    \/ Tick

\* The network is fair-lossy: if the packet at base is sent again and again, a
\* copy arrives; if ACKs that would advance base are sent again and again, one
\* arrives.  The receive loop ticks at least every 50 ms and the timer is at
\* most MAX_RTO, so an outstanding packet is eventually retransmitted.
ReceiveBase == \E p \in data_net : p.seq_num = base /\ ReceiveData(p)
ReceiveNewAck == \E a \in ack_net : a.ack_num > base /\ ReceiveAck(a)

Fairness ==
    /\ WF_vars(Tick)
    /\ SF_vars(ReceiveBase)
    /\ SF_vars(ReceiveNewAck)

Spec == Init /\ [][Next]_vars
FairSpec == Spec /\ Fairness

-----------------------------------------------------------------------------
\* Type invariant of both engines: inflight_bytes, which on_ack_received counts
\* down packet by packet, stays a natural number.
TypeOK == SndTypeOK /\ RcvTypeOK

\* The receiver has consumed exactly the first expected_seq packets the sender
\* made, each once and in order, whatever was lost, repeated or reordered.
InOrderExactlyOnce ==
    /\ expected_seq <= Len(written)
    /\ delivered \o assembly_buffer = SubSeq(written, 1, expected_seq)

\* base <= expected_seq <= next_seq: the sender never takes a packet for
\* acknowledged that the receiver does not have, and no ACK on its way says so.
AckedIsReceived ==
    /\ base <= expected_seq
    /\ expected_seq <= next_seq
    /\ \A a \in ack_net : a.ack_num <= expected_seq

\* No packet in the network ever falls beyond the receive window, even when
\* the ACKs (and windows) the sender acts on are arbitrarily old: the DROP
\* branch of process_segment is for peers that are not this sender.
NeverBeyondWindow ==
    \A p \in data_net : p.seq_num < expected_seq + MAX_RWND

\* A packet that is put on the wire is one the peer has not acknowledged.
NoUselessSend ==
    [][\A p \in data_net' \ data_net : p.seq_num >= base']_vars

\* The connection implements the message stream: enqueue_data is Send, a call of
\* process_segment is Deliver when deliver_callback is called and a stutter
\* otherwise, and everything else (losses, ACKs, retransmissions) is a stutter.
Stream == INSTANCE MessageStream WITH sent <- written, rcvd <- delivered

\* The safety part: no message is ever delivered twice, in part or out of order.
StreamSafety == Stream!StreamInit /\ [][Stream!StreamNext]_<<written, delivered>>

\* With the liveness part: under the fairness of the network and of the receive
\* loop, every message sent is eventually delivered.
StreamSpec == Stream!StreamSpec

\* Everything sent is eventually acknowledged and the sender comes to rest.
SenderDrains == []<>(unacked_packets = <<>> /\ send_buffer = <<>>)

=============================================================================
