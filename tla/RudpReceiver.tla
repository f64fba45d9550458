---------------------------- MODULE RudpReceiver ----------------------------
(***************************************************************************)
(* RUDPReceiver of common/rudp_receiver.py: cumulative acknowledgement,    *)
(* out-of-order buffering, reassembly of messages and the advertised       *)
(* window.  One action per branch of process_segment; every branch ends in *)
(* Acknowledge, the common tail that updates the flow-control state and    *)
(* returns the ACK its caller sends at once.                               *)
(*                                                                         *)
(* delivered is a history variable: the packets whose bytes have been      *)
(* handed to deliver_callback, in order.  Each call hands over everything  *)
(* up to a FIN, so the FIN packets in delivered mark where one message     *)
(* ends and the next begins.                                               *)
(***************************************************************************)
EXTENDS RudpPacket, Sequences, FiniteSets, FiniteSetsExt, Functions

VARIABLES
    expected_seq,     \* next in-order sequence number
    ooo_buffer,       \* seq -> packet, received ahead of order
    assembly_buffer,  \* packets of the message being assembled
    delivered,        \* history: everything passed to deliver_callback
    fc_state,         \* flow control: "NORMAL" or "THROTTLE"
    ack_net           \* ACK packets sent and neither received nor lost

rcvVars == <<expected_seq, ooo_buffer, assembly_buffer, delivered, fc_state>>

\* math.ceil(HIGH_WATERMARK * MAX_RWND) and math.ceil(LOW_WATERMARK * MAX_RWND)
high_threshold == (4 * MAX_RWND + 4) \div 5
low_threshold == (MAX_RWND + 4) \div 5

RcvInit ==
    /\ expected_seq = 0
    /\ ooo_buffer = <<>>
    /\ assembly_buffer = <<>>
    /\ delivered = <<>>
    /\ fc_state = "NORMAL"
    /\ ack_net = {}

-----------------------------------------------------------------------------
\* Hysteresis: the state after a segment, with used segments in ooo_buffer.
NextFcState(used) ==
    IF fc_state = "NORMAL" /\ used >= high_threshold THEN "THROTTLE"
    ELSE IF fc_state = "THROTTLE" /\ used <= low_threshold THEN "NORMAL"
    ELSE fc_state

\* Mutant: keeps the slot of the expected segment back.
RwndForLessOne(used) == Larger(0, MAX_RWND - 1 - used)

\* The window that is advertised with used segments in ooo_buffer.
RwndFor(used) == Larger(0, MAX_RWND - used)

\* Mutant: the ACK names the segment expected before this one was processed.
AcknowledgeBefore ==
    LET used == Cardinality(DOMAIN ooo_buffer')
    IN  /\ fc_state' = NextFcState(used)
        /\ ack_net' = ack_net \cup
                        {[ack_num |-> expected_seq, rwnd |-> RwndFor(used)]}

\* Mutant: acknowledges past a gap, up to the highest segment buffered.
AcknowledgeHighest ==
    LET used == Cardinality(DOMAIN ooo_buffer')
    IN  /\ fc_state' = NextFcState(used)
        /\ ack_net' = ack_net \cup
              {[ack_num |-> Max({expected_seq'} \cup
                                  {n + 1 : n \in DOMAIN ooo_buffer'}),
                rwnd |-> RwndFor(used)]}

\* The tail of process_segment, and the ACK that on_packet_received sends.
Acknowledge ==
    LET used == Cardinality(DOMAIN ooo_buffer')
    IN  /\ fc_state' = NextFcState(used)
        /\ ack_net' = ack_net \cup
                        {[ack_num |-> expected_seq', rwnd |-> RwndFor(used)]}

\* Mutant: the first FIN of a drained run ends the delivery.
FirstFin(s) ==
    LET fins == {i \in DOMAIN s : s[i].is_fin}
    IN  IF fins = {} THEN 0 ELSE Min(fins)

\* Position of the last FIN in a sequence of packets, 0 if there is none.
LastFin(s) == Max({0} \cup {i \in DOMAIN s : s[i].is_fin})

\* Mutant: forgets the part of the message assembled before.
AssembleFromScratch(run) ==
    /\ delivered' = delivered \o SubSeq(run, 1, LastFin(run))
    /\ assembly_buffer' = SubSeq(run, LastFin(run) + 1, Len(run))

\* assembly_buffer.extend and deliver_callback for the packets of run, in order.
Assemble(run) ==
    LET all == assembly_buffer \o run
    IN  /\ delivered' = delivered \o SubSeq(all, 1, LastFin(all))
        /\ assembly_buffer' = SubSeq(all, LastFin(all) + 1, Len(all))

\* First sequence number after expected_seq that is not buffered: where the
\* drain loop stops.
DrainEnd ==
    Min({n \in (expected_seq + 1)..(expected_seq + MAX_RWND) :
            n \notin DOMAIN ooo_buffer})

\* Mutant: a segment consumed before is taken for the expected one.
InOrderOrOlder(seg) ==
    /\ seg.seq_num <= expected_seq
    /\ expected_seq' = DrainEnd
    /\ ooo_buffer' = Restrict(ooo_buffer,
                              {n \in DOMAIN ooo_buffer : n >= DrainEnd})
    /\ Assemble([i \in 1..(DrainEnd - expected_seq) |->
                    IF i = 1 THEN seg ELSE ooo_buffer[expected_seq + i - 1]])
    /\ Acknowledge

\* seq == expected_seq: consume the segment and the buffered run behind it.
InOrder(seg) ==
    /\ seg.seq_num = expected_seq
    /\ expected_seq' = DrainEnd
    /\ ooo_buffer' = Restrict(ooo_buffer,
                              {n \in DOMAIN ooo_buffer : n >= DrainEnd})
    /\ Assemble([i \in 1..(DrainEnd - expected_seq) |->
                    IF i = 1 THEN seg ELSE ooo_buffer[expected_seq + i - 1]])
    /\ Acknowledge

\* Mutant: no upper end of the window.
OutOfOrderUnbounded(seg) ==
    /\ seg.seq_num > expected_seq
    /\ ooo_buffer' = [n \in DOMAIN ooo_buffer \cup {seg.seq_num} |->
                        IF n \in DOMAIN ooo_buffer THEN ooo_buffer[n] ELSE seg]
    /\ UNCHANGED <<expected_seq, assembly_buffer, delivered>>
    /\ Acknowledge

\* Within the window but ahead of order: buffer it once.
OutOfOrder(seg) ==
    /\ seg.seq_num > expected_seq
    /\ seg.seq_num < expected_seq + MAX_RWND
    /\ ooo_buffer' = [n \in DOMAIN ooo_buffer \cup {seg.seq_num} |->
                        IF n \in DOMAIN ooo_buffer THEN ooo_buffer[n] ELSE seg]
    /\ UNCHANGED <<expected_seq, assembly_buffer, delivered>>
    /\ Acknowledge

\* Mutant: a duplicate is ignored without an ACK.
DuplicateUnanswered(seg) ==
    /\ seg.seq_num < expected_seq
    /\ UNCHANGED <<expected_seq, ooo_buffer, assembly_buffer, delivered,
                   fc_state, ack_net>>

\* Already consumed: only acknowledged again.
Duplicate(seg) ==
    /\ seg.seq_num < expected_seq
    /\ UNCHANGED <<expected_seq, ooo_buffer, assembly_buffer, delivered>>
    /\ Acknowledge

\* Beyond the window: dropped, but acknowledged.
OutOfWindow(seg) ==
    /\ seg.seq_num >= expected_seq + MAX_RWND
    /\ UNCHANGED <<expected_seq, ooo_buffer, assembly_buffer, delivered>>
    /\ Acknowledge

ProcessSegment(seg) ==
    \/ Duplicate(seg)
    \/ OutOfWindow(seg)
    \/ InOrder(seg)
    \/ OutOfOrder(seg)

-----------------------------------------------------------------------------
(***************************************************************************)
(* Properties of the receiver state.                                       *)
(***************************************************************************)

RcvTypeOK ==
    /\ expected_seq \in Nat
    /\ ooo_buffer \in [DOMAIN ooo_buffer -> DataPacket]
    /\ DOMAIN ooo_buffer \subseteq Nat
    /\ assembly_buffer \in Seq(DataPacket)
    /\ delivered \in Seq(DataPacket)
    /\ fc_state \in {"NORMAL", "THROTTLE"}
    /\ ack_net \subseteq AckPacket

\* ooo_buffer holds only segments strictly inside the window: the next
\* expected segment and what lies before it are never left in the buffer
\* (rudp_receiver.py: the drain loop), nor is anything beyond the window.
BufferInWindow ==
    \A n \in DOMAIN ooo_buffer :
        n > expected_seq /\ n < expected_seq + MAX_RWND

\* The advertised window never closes.  The sender has no zero-window probe,
\* so an ACK with rwnd = 0 as its last word would silence it for good; the
\* max(0, ...) of process_segment is never needed because the slot of
\* expected_seq itself is always free.
WindowNeverCloses == \A a \in ack_net : a.rwnd >= 1

\* No complete message waits in the assembly buffer, and nothing but complete
\* messages has been passed to deliver_callback.
WholeMessages ==
    /\ \A i \in DOMAIN assembly_buffer : ~ assembly_buffer[i].is_fin
    /\ delivered # <<>> => delivered[Len(delivered)].is_fin

=============================================================================
