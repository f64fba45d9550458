--------------------------- MODULE MessageStream ----------------------------
(***************************************************************************)
(* What one direction of the reliable-UDP transport promises: the receiving*)
(* application gets every message exactly once, whole, and in the order the*)
(* sending application sent them.  A message is a run of fragments of which*)
(* the last, and only the last, is marked is_fin.                          *)
(***************************************************************************)
EXTENDS Integers, Sequences

VARIABLES
    sent,  \* fragments of all messages sent, in order
    rcvd   \* fragments of all messages handed to the receiver, in order

streamVars == <<sent, rcvd>>

StreamInit == sent = <<>> /\ rcvd = <<>>

\* The sending application sends one message.
Send ==
    /\ \E n \in 1..(Len(sent') - Len(sent)) :
            /\ Len(sent') = Len(sent) + n
            /\ SubSeq(sent', 1, Len(sent)) = sent
            /\ \A i \in 1..n : sent'[Len(sent) + i].is_fin <=> i = n
    /\ UNCHANGED rcvd

\* The receiving application gets the next messages, up to position n.
DeliverUpTo(n) ==
    /\ n > Len(rcvd)
    /\ sent[n].is_fin
    /\ rcvd' = SubSeq(sent, 1, n)
    /\ UNCHANGED sent

Deliver == \E n \in DOMAIN sent : DeliverUpTo(n)

StreamNext == Send \/ Deliver

StreamSpec ==
    /\ StreamInit
    /\ [][StreamNext]_streamVars
    /\ WF_streamVars(Deliver)

=============================================================================
