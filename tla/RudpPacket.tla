----------------------------- MODULE RudpPacket -----------------------------
(***************************************************************************)
(* The datagrams of the reliable-UDP transport (common/rudp_packet.py) and *)
(* the transport constants (common/constants.py).                          *)
(*                                                                         *)
(* A DATA packet carries a chunk of an application message, flags = FIN on *)
(* the last chunk.  A payload is identified by the bytes it carries: all   *)
(* the bytes ever handed to one sender form a stream, and a payload is the *)
(* half-open interval lo .. hi-1 of that stream.  Two payloads are equal   *)
(* exactly when they carry the same bytes of the same messages, and the    *)
(* length of a payload is hi - lo (0 for the empty message).               *)
(*                                                                         *)
(* An ACK packet has no payload and no reassembly fields, so has_data is   *)
(* false for it and is_ack is false for every DATA packet: the two kinds   *)
(* never mix and are two record types here.                                *)
(***************************************************************************)
EXTENDS Integers

CONSTANTS
    MSS,       \* bytes of payload in a full packet (1200)
    MAX_RWND   \* receive window in segments (64)

ASSUME MSSAssumption == MSS \in Nat \ {0}
ASSUME RwndAssumption == MAX_RWND \in Nat \ {0}

Smaller(a, b) == IF a <= b THEN a ELSE b
Larger(a, b) == IF a >= b THEN a ELSE b

DataPacket == [seq_num : Nat, is_fin : BOOLEAN, lo : Nat, hi : Nat]

AckPacket == [ack_num : Nat, rwnd : Nat]

\* len(packet.payload)
PayloadLen(p) == p.hi - p.lo

=============================================================================
