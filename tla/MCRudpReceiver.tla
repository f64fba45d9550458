--------------------------- MODULE MCRudpReceiver ---------------------------
(***************************************************************************)
(* RudpReceiver by itself, fed by a peer about which nothing is assumed but*)
(* that it numbers its packets consistently: any packet of a fixed stream  *)
(* may arrive at any time and any number of times, far beyond the window   *)
(* included.  Every division of the stream into messages is an initial     *)
(* state.                                                                  *)
(***************************************************************************)
EXTENDS RudpReceiver

CONSTANT StreamLength  \* bound: packets in the stream

ASSUME StreamLengthAssumption == StreamLength \in Nat

VARIABLE stream        \* the peer's packets, by position

MCInit ==
    /\ RcvInit
    /\ \E fins \in SUBSET (1..StreamLength) :
          stream = [i \in 1..StreamLength |->
                      [seq_num |-> i - 1, is_fin |-> i \in fins,
                       lo |-> (i - 1) * MSS, hi |-> i * MSS]]

\* A packet arrives; the ACK for the previous one is already on the wire.
Arrive(i) ==
    /\ ack_net = {}
    /\ ProcessSegment(stream[i])
    /\ UNCHANGED stream

\* The transport sends the ACK.
SendAck ==
    /\ ack_net # {}
    /\ ack_net' = {}
    /\ UNCHANGED <<rcvVars, stream>>

MCNext == (\E i \in 1..StreamLength : Arrive(i)) \/ SendAck

MCSpec == MCInit /\ [][MCNext]_<<rcvVars, ack_net, stream>>

\* What the application has got, and what is being assembled, is the stream up
\* to expected_seq: each packet once, in order, for every arrival order.
ConsumesPrefix == delivered \o assembly_buffer = SubSeq(stream, 1, expected_seq)

\* Every ACK is cumulative and current: it names the first packet that has not
\* arrived and the room left in the buffer (rudp_receiver.py, step 5).
AckIsCurrent ==
    \A a \in ack_net :
        /\ a.ack_num = expected_seq
        /\ a.ack_num \notin DOMAIN ooo_buffer
        /\ a.rwnd + Cardinality(DOMAIN ooo_buffer) = MAX_RWND

=============================================================================
