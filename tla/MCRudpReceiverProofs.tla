------------------------ MODULE MCRudpReceiverProofs ------------------------
(***************************************************************************)
(* The receiver by itself, for a stream of any length, divided into        *)
(* messages in any way, whose packets arrive in any order and any number of*)
(* times.  What RudpReceiverProofs shows of one call of process_segment is *)
(* enough: the invariant is RcvInv of the whole stream.                    *)
(***************************************************************************)
EXTENDS MCRudpReceiver, RudpReceiverProofs

AloneInv ==
    /\ stream \in Seq(DataPacket)
    /\ Len(stream) = StreamLength
    /\ \A i \in 1..StreamLength : stream[i].seq_num = i - 1
    /\ RcvInv(stream)
    /\ AckIsCurrent

LEMMA AloneInit == MCInit => AloneInv
<1> SUFFICES ASSUME MCInit PROVE AloneInv
  OBVIOUS
<1>1. PICK fins \in SUBSET (1..StreamLength) :
         stream = [i \in 1..StreamLength |->
                      [seq_num |-> i - 1, is_fin |-> i \in fins,
                       lo |-> (i - 1) * MSS, hi |-> i * MSS]]
  BY DEF MCInit
<1>2. StreamLength \in Nat /\ MSS \in Nat
  BY StreamLengthAssumption, MSSAssumption
<1>3. ASSUME NEW i \in 1..StreamLength
      PROVE  stream[i] \in DataPacket /\ stream[i].seq_num = i - 1
  <2>1. i - 1 \in Nat /\ i \in Nat
    BY <1>2
  <2>2. i - 1 <= i
    BY <2>1
  <2>3. (i - 1) * MSS \in Nat /\ i * MSS \in Nat
    BY <2>1, <2>2, <1>2, TimesMonotonic, Zenon
  <2>4. (i \in fins) \in BOOLEAN
    BY SMT
  <2>5. ASSUME NEW a \in Nat, NEW f \in BOOLEAN, NEW l \in Nat, NEW h \in Nat
        PROVE  [seq_num |-> a, is_fin |-> f, lo |-> l, hi |-> h] \in DataPacket
    BY DEF DataPacket
  <2>6. [seq_num |-> i - 1, is_fin |-> i \in fins, lo |-> (i - 1) * MSS,
         hi |-> i * MSS] \in DataPacket
    BY <2>1, <2>3, <2>4, <2>5, Zenon
  <2>7. stream[i] = [seq_num |-> i - 1, is_fin |-> i \in fins,
                     lo |-> (i - 1) * MSS, hi |-> i * MSS]
    BY <1>1
  <2>8. stream[i].seq_num = i - 1
    BY <2>7
  <2> QED BY <2>6, <2>7, <2>8, Zenon
<1>4. stream \in Seq(DataPacket) /\ Len(stream) = StreamLength
  <2>1. stream \in [1..StreamLength -> DataPacket]
    BY <1>1, <1>3
  <2> QED BY <2>1, <1>2
<1>5. /\ expected_seq = 0 /\ ooo_buffer = <<>> /\ assembly_buffer = <<>>
      /\ delivered = <<>> /\ fc_state = "NORMAL" /\ ack_net = {}
  BY DEF MCInit, RcvInit
<1>6. DOMAIN ooo_buffer = {} /\ ooo_buffer \in [DOMAIN ooo_buffer -> DataPacket]
  BY <1>5
<1>7. RcvTypeOK
  BY <1>5, <1>6 DEF RcvTypeOK
<1>8. Consumed(stream) /\ Buffered(stream) /\ BufferInWindow /\ WholeMessages
  BY <1>2, <1>4, <1>5, <1>6 DEF Consumed, Buffered, BufferInWindow, WholeMessages
<1>9. AckIsCurrent
  BY <1>5 DEF AckIsCurrent
<1> QED BY <1>3, <1>4, <1>7, <1>8, <1>9 DEF AloneInv, RcvInv

LEMMA ArriveStep ==
    ASSUME AloneInv, NEW i \in 1..StreamLength, Arrive(i)
    PROVE  AloneInv'
<1>1. stream' = stream /\ ack_net = {} /\ ProcessSegment(stream[i])
  BY DEF Arrive
<1>2. PICK w, seg : w = stream /\ seg = stream[i]
  OBVIOUS
<1>3. /\ w \in Seq(DataPacket) /\ Len(w) = StreamLength /\ StreamLength \in Nat
      /\ RcvInv(w) /\ seg = w[i] /\ seg.seq_num = i - 1
  BY <1>2, StreamLengthAssumption DEF AloneInv
<1>4. /\ seg \in DataPacket /\ Len(w) \in 0..Len(w)
      /\ seg.seq_num < Len(w) /\ seg = w[seg.seq_num + 1]
  BY <1>3
<1>5. expected_seq <= Len(w) /\ \A n \in DOMAIN ooo_buffer : n < Len(w)
  BY <1>3 DEF RcvInv, Consumed, Buffered
<1>6. RcvInv(w)'
  BY <1>1, <1>2, <1>3, <1>4, <1>5, ProcessSegmentStep, Zenon
<1>7. Acknowledge
  BY <1>1 DEF ProcessSegment, Duplicate, OutOfWindow, InOrder, OutOfOrder
<1>8. AckIsCurrent'
  <2> DEFINE used == Cardinality(DOMAIN ooo_buffer')
  <2>1. MAX_RWND \in Nat \ {0} /\ expected_seq' \in Nat /\ BufferInWindow'
        /\ DOMAIN ooo_buffer' \subseteq Nat
    BY <1>6, RwndAssumption DEF RcvInv, RcvTypeOK
  <2>2. used \in 0..(MAX_RWND - 1)
    BY <2>1, OpenIntervalBound DEF BufferInWindow
  <2>3. RwndFor(used) + used = MAX_RWND
    BY <2>1, <2>2 DEF RwndFor, Larger
  <2>4. ack_net' = {[ack_num |-> expected_seq', rwnd |-> RwndFor(used)]}
    BY <1>1, <1>7 DEF Acknowledge
  <2>5. expected_seq' \notin DOMAIN ooo_buffer'
    BY <2>1 DEF BufferInWindow
  <2> QED BY <2>3, <2>4, <2>5 DEF AckIsCurrent
<1>9. RcvInv(stream)'
  BY <1>1, <1>2, <1>6
<1> QED BY <1>1, <1>8, <1>9 DEF AloneInv

LEMMA AloneNext == AloneInv /\ [MCNext]_<<rcvVars, ack_net, stream>> => AloneInv'
<1> SUFFICES ASSUME AloneInv, [MCNext]_<<rcvVars, ack_net, stream>>
             PROVE  AloneInv'
  OBVIOUS
<1>1. CASE \E i \in 1..StreamLength : Arrive(i)
  BY <1>1, ArriveStep
<1>2. CASE UNCHANGED <<rcvVars, stream>> /\ (ack_net' = {} \/ ack_net' = ack_net)
  <2>1. ack_net' \subseteq AckPacket
    BY <1>2 DEF AloneInv, RcvInv, RcvTypeOK
  <2>2. RcvInv(stream)'
    <3>1. RcvTypeOK'
      BY <1>2, <2>1 DEF AloneInv, RcvInv, RcvTypeOK, rcvVars
    <3>2. Consumed(stream)' /\ Buffered(stream)'
      BY <1>2 DEF AloneInv, RcvInv, Consumed, Buffered, rcvVars
    <3>3. BufferInWindow' /\ WholeMessages'
      BY <1>2 DEF AloneInv, RcvInv, BufferInWindow, WholeMessages, rcvVars
    <3> QED BY <3>1, <3>2, <3>3 DEF RcvInv
  <2>3. AckIsCurrent'
    BY <1>2 DEF AloneInv, AckIsCurrent, rcvVars
  <2> QED BY <1>2, <2>2, <2>3 DEF AloneInv
<1> QED BY <1>1, <1>2 DEF MCNext, SendAck

LEMMA AloneInvariance == MCSpec => []AloneInv
  BY AloneInit, AloneNext, PTL DEF MCSpec

\* Whatever a peer sends that numbers its packets consistently, the application
\* gets the stream up to expected_seq, each packet once and in order.
THEOREM AnyArrivalOrder == MCSpec => []ConsumesPrefix
<1>1. AloneInv => ConsumesPrefix
  BY ConsumedIsPrefix DEF AloneInv, RcvInv, ConsumesPrefix
<1> QED BY <1>1, AloneInvariance, PTL

\* Every ACK names the first packet that has not arrived and the room that is
\* left in the buffer.
THEOREM AcksCurrent == MCSpec => []AckIsCurrent
<1>1. AloneInv => AckIsCurrent
  BY DEF AloneInv
<1> QED BY <1>1, AloneInvariance, PTL

=============================================================================
