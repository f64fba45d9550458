----------------------------- MODULE DhcpProofs -----------------------------
(***************************************************************************)
(* The lease table of IPManager is exact, and no two clients of Dhcp ever  *)
(* use one address at the same time: for any pool, lease time and number   *)
(* of clients and retries, whatever packets are lost, late or repeated.    *)
(*                                                                         *)
(* The table alone is not enough for the second: a client acts on ACKs that*)
(* were sent long ago.  The invariant says that every ACK ever sent, and   *)
(* every address in use, is backed by the table until the promise has run  *)
(* out, and that a transaction id belongs to one client.                   *)
(***************************************************************************)
EXTENDS Dhcp, WellFoundedInduction, TLAPS

\* A promise of ip to mac until the time `until' is kept by the table.
Backed(mac, ip, until) ==
    \/ until < now
    \/ /\ mac \in DOMAIN leased_ips
       /\ leased_ips[mac].ip = ip
       /\ leased_ips[mac].expires_at >= until

\* No lease runs longer than one granted now would.
ExpiryBounded ==
    \A m \in DOMAIN leased_ips : leased_ips[m].expires_at <= NewExpiry

AcksBacked ==
    \A p \in net : p.message_type = "ACK" =>
        Backed(p.client_mac, p.offered_ip, p.granted_until)

UseBacked ==
    \A m \in Macs : assigned_ip[m] # NoIp =>
        Backed(m, assigned_ip[m], held_until[m])

\* All packets of one handshake name one client, and the handshake a client is
\* in has begun with a packet of its own.
XidsOwned ==
    \A p, q \in net : p.xid = q.xid => p.client_mac = q.client_mac

HandshakeBegun ==
    \A m \in Macs : active[m] =>
        \E p \in net : p.xid = xid[m] /\ p.client_mac = m

PoolInv == PoolTypeOK /\ PoolExact /\ ExpiryBounded

DhcpInv ==
    /\ TypeOK
    /\ PoolExact
    /\ ExpiryBounded
    /\ AcksBacked
    /\ UseBacked
    /\ XidsOwned
    /\ HandshakeBegun

-----------------------------------------------------------------------------
(***************************************************************************)
(* The address pool.                                                       *)
(***************************************************************************)

\* _get_next_available_ip returns a member of the set it searches.
LEMMA MinIsMember ==
    ASSUME NEW S \in SUBSET Nat, S # {}
    PROVE  Min(S) \in S
<1>1. PICK x \in S : \A y \in S : ~ (<<y, x>> \in OpToRel(<, Nat))
  BY NatLessThanWellFounded, WFMin
<1>2. ASSUME NEW y \in S, ~ (x <= y)
      PROVE  FALSE
  <2>1. <<y, x>> \in Nat \X Nat /\ y < x
    BY <1>2
  <2>2. <<y, x>> \in OpToRel(<, Nat)
    BY <2>1, Zenon DEF OpToRel
  <2> QED
    BY <1>1, <2>2
<1> QED
  BY <1>2 DEF Min

\* What cleanup_expired_leases leaves is an exact table again.
LEMMA CleanupExact ==
    ASSUME PoolInv
    PROVE  /\ CurrentLeases \in [DOMAIN CurrentLeases -> Lease]
           /\ DOMAIN CurrentLeases \subseteq DOMAIN leased_ips
           /\ \A m \in DOMAIN CurrentLeases : CurrentLeases[m] = leased_ips[m]
           /\ \A m \in DOMAIN leased_ips :
                 m \in DOMAIN CurrentLeases \/ leased_ips[m].expires_at < now
           /\ CurrentIps = {CurrentLeases[m].ip : m \in DOMAIN CurrentLeases}
           /\ CurrentIps \subseteq Pool
<1>1. /\ DOMAIN CurrentLeases = DOMAIN leased_ips \ Expired
      /\ \A m \in DOMAIN CurrentLeases : CurrentLeases[m] = leased_ips[m]
      /\ CurrentLeases \in [DOMAIN CurrentLeases -> Lease]
  BY DEF CurrentLeases, Restrict, PoolInv, PoolTypeOK
<1>2. CurrentIps = {CurrentLeases[m].ip : m \in DOMAIN CurrentLeases}
  BY <1>1 DEF CurrentIps, PoolInv, PoolExact, Expired
<1>3. \A m \in DOMAIN leased_ips \ DOMAIN CurrentLeases :
            leased_ips[m].expires_at < now
  BY <1>1 DEF Expired, PoolInv, PoolTypeOK, Lease
<1>4. CurrentIps \subseteq Pool
  BY DEF CurrentIps, PoolInv, PoolTypeOK
<1> QED
  BY <1>1, <1>2, <1>3, <1>4

\* A step of the table: it stays exact, and no client loses an address or time
\* that was promised to it.
PoolStep ==
    /\ PoolTypeOK'
    /\ PoolExact'
    /\ ExpiryBounded'
    /\ \A m \in DOMAIN leased_ips :
          \/ leased_ips[m].expires_at < now
          \/ /\ m \in DOMAIN leased_ips'
             /\ leased_ips'[m].ip = leased_ips[m].ip
             /\ leased_ips'[m].expires_at >= leased_ips[m].expires_at

\* Every way a handler updates one client's entry and keeps its address.
LEMMA UpdateIsPoolStep ==
    ASSUME PoolInv, now' = now, NEW mac \in Macs,
           mac \in DOMAIN CurrentLeases,
           NEW lease \in Lease,
           lease.ip = CurrentLeases[mac].ip,
           lease.expires_at = NewExpiry,
           leased_ips' = [CurrentLeases EXCEPT ![mac] = lease],
           allocated_ips' = CurrentIps
    PROVE  PoolStep
<1>1. /\ DOMAIN leased_ips' = DOMAIN CurrentLeases
      /\ \A m \in DOMAIN leased_ips' :
            leased_ips'[m] = IF m = mac THEN lease ELSE leased_ips[m]
      /\ leased_ips' \in [DOMAIN leased_ips' -> Lease]
  BY CleanupExact
<1>2. \A m \in DOMAIN leased_ips' : leased_ips'[m].ip = leased_ips[m].ip
  BY <1>1, CleanupExact
<1>3. PoolTypeOK'
  BY <1>1, CleanupExact DEF PoolTypeOK, PoolInv
<1>4. PoolExact'
  BY <1>1, <1>2, CleanupExact DEF PoolExact, PoolInv
<1>5. ExpiryBounded'
  BY <1>1, CleanupExact, LeaseTimeAssumption
     DEF ExpiryBounded, NewExpiry, PoolInv, PoolTypeOK, Lease
<1>6. \A m \in DOMAIN leased_ips' :
            leased_ips'[m].expires_at >= leased_ips[m].expires_at
  BY <1>1, CleanupExact, LeaseTimeAssumption
     DEF ExpiryBounded, NewExpiry, PoolInv, PoolTypeOK, Lease
<1> QED
  BY <1>1, <1>2, <1>3, <1>4, <1>5, <1>6, CleanupExact DEF PoolStep

\* The eviction alone.
LEMMA CleanupIsPoolStep ==
    ASSUME PoolInv, now' = now,
           leased_ips' = CurrentLeases, allocated_ips' = CurrentIps
    PROVE  PoolStep
<1>1. PoolTypeOK' /\ PoolExact'
  BY CleanupExact DEF PoolTypeOK, PoolInv, PoolExact
<1>2. ExpiryBounded'
  BY CleanupExact DEF ExpiryBounded, NewExpiry, PoolInv
<1>3. \A m \in DOMAIN leased_ips' :
            leased_ips'[m].expires_at >= leased_ips[m].expires_at
  BY CleanupExact DEF PoolInv, PoolTypeOK, Lease
<1> QED
  BY <1>1, <1>2, <1>3, CleanupExact DEF PoolStep

\* handle_discover: a lease renewed, restarted or new, or no address left.
LEMMA DiscoverIsPoolStep ==
    ASSUME PoolInv, now' = now, NEW mac \in Macs, NEW x \in Xids,
           HandleDiscover(mac, x)
    PROVE  PoolStep
<1>0. NewExpiry \in Nat
  BY LeaseTimeAssumption DEF NewExpiry, PoolInv, PoolTypeOK
<1>1. CASE Reoffer(mac, x)
  <2> DEFINE lease == [CurrentLeases[mac] EXCEPT !.expires_at = NewExpiry]
  <2>1. /\ lease \in Lease
        /\ lease.ip = CurrentLeases[mac].ip
        /\ lease.expires_at = NewExpiry
        /\ leased_ips' = [CurrentLeases EXCEPT ![mac] = lease]
    BY <1>0, <1>1, CleanupExact DEF Reoffer, Lease
  <2> QED
    BY <1>1, <2>1, UpdateIsPoolStep DEF Reoffer
<1>2. CASE Restart(mac, x)
  <2> DEFINE lease == [CurrentLeases[mac] EXCEPT !.xid = x,
                                                 !.state = "SELECTING",
                                                 !.expires_at = NewExpiry]
  <2>1. /\ lease \in Lease
        /\ lease.ip = CurrentLeases[mac].ip
        /\ lease.expires_at = NewExpiry
        /\ leased_ips' = [CurrentLeases EXCEPT ![mac] = lease]
    BY <1>0, <1>2, CleanupExact DEF Restart, Lease
  <2> QED
    BY <1>2, <2>1, UpdateIsPoolStep DEF Restart
<1>3. CASE Allocate(mac, x)
  <2> DEFINE new_ip == Min(Pool \ CurrentIps)
             lease == [ip |-> new_ip, xid |-> x,
                       expires_at |-> NewExpiry, state |-> "SELECTING"]
  <2>1. new_ip \in Pool \ CurrentIps
    BY <1>3, MinIsMember, PoolAssumption DEF Allocate, Pool
  <2>2. lease \in Lease
    BY <1>0, <2>1 DEF Lease
  <2>3. /\ DOMAIN leased_ips' = DOMAIN CurrentLeases \cup {mac}
        /\ mac \notin DOMAIN CurrentLeases
        /\ leased_ips'[mac] = lease
        /\ \A m \in DOMAIN CurrentLeases : leased_ips'[m] = leased_ips[m]
        /\ leased_ips' \in [DOMAIN leased_ips' -> Lease]
        /\ allocated_ips' = CurrentIps \cup {new_ip}
    BY <1>3, <2>2, CleanupExact DEF Allocate
  <2> HIDE DEF new_ip
  <2>4. lease.ip = new_ip /\ lease.expires_at = NewExpiry
    OBVIOUS
  <2> HIDE DEF lease
  <2>5. PoolTypeOK'
    BY <2>1, <2>3, CleanupExact DEF PoolTypeOK, PoolInv
  <2>6. allocated_ips' = {leased_ips'[m].ip : m \in DOMAIN leased_ips'}
    BY <2>3, <2>4, CleanupExact
  <2>7. \A m \in DOMAIN CurrentLeases : leased_ips'[m].ip # leased_ips'[mac].ip
    BY <2>1, <2>3, <2>4, CleanupExact
  <2>8. PoolExact'
    BY <2>3, <2>6, <2>7, CleanupExact DEF PoolExact, PoolInv
  <2>9. ExpiryBounded'
    BY <1>0, <2>3, <2>4, CleanupExact DEF ExpiryBounded, NewExpiry, PoolInv
  <2>10. \A m \in DOMAIN CurrentLeases :
            leased_ips'[m].expires_at >= leased_ips[m].expires_at
    BY <2>3, CleanupExact DEF PoolInv, PoolTypeOK, Lease
  <2> QED
    BY <2>3, <2>5, <2>8, <2>9, <2>10, CleanupExact DEF PoolStep
<1>4. CASE Exhausted(mac)
  BY <1>4, CleanupIsPoolStep DEF Exhausted
<1> QED
  BY <1>1, <1>2, <1>3, <1>4 DEF HandleDiscover

\* A granted request also leaves the client with the address it asked for, for
\* a full lease time.
LEMMA RequestIsPoolStep ==
    ASSUME PoolInv, now' = now, NEW mac \in Macs, NEW x \in Xids, NEW ip,
           HandleRequest(mac, x, ip)
    PROVE  /\ PoolStep
           /\ Granted(mac, x, ip) =>
                /\ ip \in Pool
                /\ mac \in DOMAIN leased_ips'
                /\ leased_ips'[mac].ip = ip
                /\ leased_ips'[mac].expires_at = NewExpiry
<1>0. NewExpiry \in Nat
  BY LeaseTimeAssumption DEF NewExpiry, PoolInv, PoolTypeOK
<1>1. CASE Granted(mac, x, ip) /\ Bind(mac, x)
  <2> DEFINE lease == [CurrentLeases[mac] EXCEPT !.xid = x,
                                                 !.state = "BOUND",
                                                 !.expires_at = NewExpiry]
  <2>1. /\ lease \in Lease
        /\ lease.ip = CurrentLeases[mac].ip
        /\ lease.expires_at = NewExpiry
        /\ leased_ips' = [CurrentLeases EXCEPT ![mac] = lease]
    BY <1>0, <1>1, CleanupExact DEF Granted, Bind, Lease
  <2>2. PoolStep
    BY <1>1, <2>1, UpdateIsPoolStep DEF Granted, Bind
  <2>3. /\ mac \in DOMAIN leased_ips'
        /\ leased_ips'[mac] = lease
        /\ ip = CurrentLeases[mac].ip
        /\ ip \in Pool
    BY <1>1, <2>1, CleanupExact DEF Granted, Lease
  <2> QED
    BY <2>1, <2>2, <2>3
<1>2. CASE ~ Granted(mac, x, ip) /\ Refuse
  BY <1>2, CleanupIsPoolStep DEF Refuse
<1> QED
  BY <1>1, <1>2 DEF HandleRequest

-----------------------------------------------------------------------------
(***************************************************************************)
(* The exchange.                                                           *)
(***************************************************************************)

\* Every promise that was backed stays backed across a step of the table.
LEMMA BackedKept ==
    ASSUME PoolInv, PoolStep, now' = now, NEW m, NEW ip, NEW until \in Nat,
           Backed(m, ip, until)
    PROVE  Backed(m, ip, until)'
<1>1. now \in Nat
  BY DEF PoolInv, PoolTypeOK
<1>2. CASE until < now
  BY <1>2 DEF Backed
<1>3. CASE /\ m \in DOMAIN leased_ips
           /\ leased_ips[m].ip = ip
           /\ leased_ips[m].expires_at >= until
  <2>1. leased_ips[m].expires_at \in Nat
    BY <1>3 DEF PoolInv, PoolTypeOK, Lease
  <2>2. CASE leased_ips[m].expires_at < now
    BY <1>1, <1>3, <2>1, <2>2 DEF Backed
  <2>3. CASE /\ m \in DOMAIN leased_ips'
             /\ leased_ips'[m].ip = leased_ips[m].ip
             /\ leased_ips'[m].expires_at >= leased_ips[m].expires_at
    <3>1. leased_ips'[m].expires_at \in Nat
      BY <2>3 DEF PoolStep, PoolTypeOK, Lease
    <3> QED
      BY <1>3, <2>1, <2>3, <3>1 DEF Backed
  <2> QED
    BY <1>3, <2>2, <2>3 DEF PoolStep
<1> QED
  BY <1>2, <1>3 DEF Backed

\* A client's packet carries an id that is fresh or its own.
LEMMA SendKeepsOwnership ==
    ASSUME DhcpInv, NEW q, net' = net \cup {q},
           \A p \in net : p.xid = q.xid => p.client_mac = q.client_mac
    PROVE  XidsOwned'
  BY DEF DhcpInv, XidsOwned

\* What a client step that leaves the server and the clock alone preserves.
LEMMA ServerUntouched ==
    ASSUME DhcpInv, UNCHANGED <<leased_ips, allocated_ips, now>>
    PROVE  /\ PoolTypeOK' /\ PoolExact' /\ ExpiryBounded'
           /\ \A m, ip, until : Backed(m, ip, until) => Backed(m, ip, until)'
  BY DEF DhcpInv, TypeOK, PoolTypeOK, PoolExact, ExpiryBounded, NewExpiry, Backed

\* A packet built from fields of the right types has the packet type.
LEMMA PacketType ==
    ASSUME TypeOK, NEW type \in MessageTypes, NEW x \in Xids, NEW m \in Macs,
           NEW ip \in Pool \cup {NoIp}, NEW time \in Nat
    PROVE  /\ Packet(type, x, m, ip, time) \in DHCPPacket
           /\ Packet(type, x, m, ip, time).message_type = type
           /\ Packet(type, x, m, ip, time).xid = x
           /\ Packet(type, x, m, ip, time).client_mac = m
           /\ Packet(type, x, m, ip, time).offered_ip = ip
           /\ type = "ACK" =>
                Packet(type, x, m, ip, time).granted_until = NewExpiry
<1>1. NewExpiry \in Nat
  BY LeaseTimeAssumption DEF NewExpiry, TypeOK, PoolTypeOK
<1> QED
  BY <1>1 DEF Packet, DHCPPacket

\* Before the first packet everything holds trivially.
LEMMA InitInv == Init => DhcpInv
<1> SUFFICES ASSUME Init PROVE DhcpInv
  OBVIOUS
<1>1. DOMAIN leased_ips = {} /\ leased_ips \in [{} -> Lease]
  BY DEF Init, PoolInit
<1>2. TypeOK
  BY <1>1, RetriesAssumption DEF Init, PoolInit, TypeOK, PoolTypeOK
<1>3. PoolExact /\ ExpiryBounded
  BY <1>1 DEF Init, PoolInit, PoolExact, ExpiryBounded
<1>4. AcksBacked /\ UseBacked /\ XidsOwned /\ HandshakeBegun
  BY DEF Init, AcksBacked, UseBacked, XidsOwned, HandshakeBegun
<1> QED
  BY <1>2, <1>3, <1>4 DEF DhcpInv

\* The first DISCOVER carries an id no packet has had.
LEMMA AcquireLeaseStep ==
    ASSUME DhcpInv, NEW m \in Macs, AcquireLease(m)
    PROVE  DhcpInv'
<1> USE DEF DhcpInv
<1>1. PICK x \in Xids \ {p.xid : p \in net} :
          /\ xid' = [xid EXCEPT ![m] = x]
          /\ net' = net \cup {Packet("DISCOVER", x, m, NoIp, 0)}
  BY DEF AcquireLease
<1> DEFINE q == Packet("DISCOVER", x, m, NoIp, 0)
<1>2. /\ q \in DHCPPacket /\ q.message_type = "DISCOVER"
      /\ q.xid = x /\ q.client_mac = m
  BY <1>1, PacketType DEF MessageTypes
<1> HIDE DEF q
<1>3. net' = net \cup {q}
  BY <1>1 DEF q
<1>4. TypeOK'
  BY <1>1, <1>2, <1>3, ServerUntouched, RetriesAssumption DEF AcquireLease, TypeOK
<1>5. AcksBacked' /\ UseBacked'
  BY <1>2, <1>3, ServerUntouched DEF AcquireLease, AcksBacked, UseBacked
<1>6. XidsOwned'
  BY <1>1, <1>2, <1>3, SendKeepsOwnership
<1>7. HandshakeBegun'
  <2> SUFFICES ASSUME NEW n \in Macs, active'[n]
               PROVE  \E p \in net' : p.xid = xid'[n] /\ p.client_mac = n
    BY DEF HandshakeBegun
  <2>1. CASE n = m
    BY <1>1, <1>2, <1>3, <2>1 DEF TypeOK
  <2>2. CASE n # m
    BY <1>1, <1>3, <2>2 DEF AcquireLease, TypeOK, HandshakeBegun
  <2> QED
    BY <2>1, <2>2
<1> QED
  BY <1>4, <1>5, <1>6, <1>7, ServerUntouched DEF AcquireLease

\* The REQUEST carries the id of the handshake the client is in.
LEMMA ReceiveOfferStep ==
    ASSUME DhcpInv, NEW m \in Macs, NEW p \in net, ReceiveOffer(m, p)
    PROVE  DhcpInv'
<1> USE DEF DhcpInv
<1> DEFINE q == Packet("REQUEST", xid[m], m, p.offered_ip, 0)
<1>1. PICK r \in net : r.xid = xid[m] /\ r.client_mac = m
  BY DEF ReceiveOffer, HandshakeBegun
<1>2. p \in DHCPPacket /\ r \in DHCPPacket /\ xid[m] \in Xids
  BY <1>1 DEF TypeOK, DHCPPacket
<1>3. p.offered_ip \in Pool /\ p.lease_time \in Nat
  BY <1>2 DEF ReceiveOffer, DHCPPacket
<1>4. /\ q \in DHCPPacket /\ q.message_type = "REQUEST"
      /\ q.xid = xid[m] /\ q.client_mac = m
  BY <1>2, <1>3, PacketType DEF MessageTypes
<1> HIDE DEF q
<1>5. net' = net \cup {q}
  BY DEF ReceiveOffer, q
<1>6. TypeOK'
  BY <1>3, <1>4, <1>5, ServerUntouched, RetriesAssumption DEF ReceiveOffer, TypeOK
<1>7. AcksBacked' /\ UseBacked'
  BY <1>4, <1>5, ServerUntouched DEF ReceiveOffer, AcksBacked, UseBacked
<1>8. XidsOwned'
  BY <1>1, <1>4, <1>5, SendKeepsOwnership DEF XidsOwned
<1>9. HandshakeBegun'
  BY <1>5 DEF ReceiveOffer, HandshakeBegun
<1> QED
  BY <1>6, <1>7, <1>8, <1>9, ServerUntouched DEF ReceiveOffer

\* Out of attempts, or after an error of the socket, nothing more is sent.
LEMMA AbandonStep ==
    ASSUME DhcpInv, NEW m \in Macs, active[m], GiveUp(m),
           UNCHANGED <<leased_ips, allocated_ips, now, state, xid, offered_ip,
                       assigned_ip, lease_time, held_until>>
    PROVE  DhcpInv'
<1> USE DEF DhcpInv
<1>1. TypeOK'
  BY ServerUntouched DEF GiveUp, TypeOK
<1>2. AcksBacked' /\ UseBacked' /\ XidsOwned'
  BY ServerUntouched DEF GiveUp, AcksBacked, UseBacked, XidsOwned
<1>3. HandshakeBegun'
  BY DEF GiveUp, HandshakeBegun, TypeOK
<1> QED
  BY <1>1, <1>2, <1>3, ServerUntouched

LEMMA SocketErrorStep ==
    ASSUME DhcpInv, NEW m \in Macs, SocketError(m)
    PROVE  DhcpInv'
BY AbandonStep DEF SocketError

\* A resend repeats the id.
LEMMA TimeoutStep ==
    ASSUME DhcpInv, NEW m \in Macs, Timeout(m)
    PROVE  DhcpInv'
<1> USE DEF DhcpInv
<1>1. PICK r \in net : r.xid = xid[m] /\ r.client_mac = m
  BY DEF Timeout, HandshakeBegun
<1>2. r \in DHCPPacket /\ xid[m] \in Xids
  BY <1>1 DEF TypeOK, DHCPPacket
<1>3. CASE attempt[m] < MAX_RETRIES_PER_STAGE /\ Resend(m)
  <2> DEFINE q == Resent(m)
  <2>1. /\ q \in DHCPPacket /\ q.message_type # "ACK"
        /\ q.xid = xid[m] /\ q.client_mac = m
    <3>1. CASE state[m] = "SELECTING"
      BY <1>2, <3>1, PacketType DEF Resent, MessageTypes
    <3>2. CASE state[m] # "SELECTING"
      <4>1. offered_ip[m] \in Pool \cup {NoIp}
        BY DEF TypeOK
      <4> QED
        BY <1>2, <3>2, <4>1, PacketType DEF Resent, MessageTypes
    <3> QED
      BY <3>1, <3>2
  <2> HIDE DEF q
  <2>2. net' = net \cup {q} /\ active' = active
    BY <1>3 DEF Resend, q
  <2>3. TypeOK'
    BY <1>3, <2>1, <2>2, ServerUntouched, RetriesAssumption DEF Timeout, Resend, TypeOK
  <2>4. AcksBacked' /\ UseBacked'
    BY <2>1, <2>2, ServerUntouched DEF Timeout, AcksBacked, UseBacked
  <2>5. XidsOwned'
    BY <1>1, <2>1, <2>2, SendKeepsOwnership DEF XidsOwned
  <2>6. HandshakeBegun'
    BY <2>2 DEF Timeout, HandshakeBegun
  <2> QED
    BY <2>3, <2>4, <2>5, <2>6, ServerUntouched DEF Timeout
<1>4. CASE GiveUp(m)
  BY <1>4, AbandonStep DEF Timeout
<1> QED
  BY <1>3, <1>4 DEF Timeout

\* The ACK a client takes up was sent to that client, so its promise is one the
\* table backs for that client.
LEMMA ReceiveAckStep ==
    ASSUME DhcpInv, NEW m \in Macs, NEW p \in net, ReceiveAck(m, p)
    PROVE  DhcpInv'
<1> USE DEF DhcpInv
<1>1. p.client_mac = m
  BY DEF ReceiveAck, HandshakeBegun, XidsOwned
<1>2. p \in DHCPPacket
  BY DEF TypeOK
<1>3. TypeOK'
  BY <1>2, ServerUntouched DEF ReceiveAck, TypeOK, DHCPPacket
<1>4. AcksBacked' /\ XidsOwned'
  BY ServerUntouched DEF ReceiveAck, AcksBacked, XidsOwned
<1>5. UseBacked'
  <2> SUFFICES ASSUME NEW n \in Macs, assigned_ip'[n] # NoIp
               PROVE  Backed(n, assigned_ip[n], held_until[n])'
    BY DEF UseBacked
  <2>1. CASE n = m
    <3>1. assigned_ip'[n] = p.offered_ip /\ held_until'[n] = p.granted_until
      BY <2>1 DEF ReceiveAck, TypeOK
    <3>2. Backed(n, p.offered_ip, p.granted_until)
      BY <1>1, <2>1 DEF ReceiveAck, AcksBacked
    <3> QED
      BY <3>1, <3>2 DEF ReceiveAck, Backed
  <2>2. CASE n # m
    <3>1. assigned_ip'[n] = assigned_ip[n] /\ held_until'[n] = held_until[n]
      BY <2>2 DEF ReceiveAck, TypeOK
    <3> QED
      BY <3>1 DEF ReceiveAck, UseBacked, Backed
  <2> QED
    BY <2>1, <2>2
<1>6. HandshakeBegun'
  BY DEF ReceiveAck, HandshakeBegun, TypeOK
<1> QED
  BY <1>3, <1>4, <1>5, <1>6, ServerUntouched DEF ReceiveAck

\* A NACK only ends the handshake.
LEMMA ReceiveNackStep ==
    ASSUME DhcpInv, NEW m \in Macs, NEW p \in net, ReceiveNack(m, p)
    PROVE  DhcpInv'
<1> USE DEF DhcpInv
<1>1. TypeOK'
  BY ServerUntouched DEF ReceiveNack, TypeOK
<1>2. AcksBacked' /\ UseBacked' /\ XidsOwned'
  BY ServerUntouched DEF ReceiveNack, AcksBacked, UseBacked, XidsOwned
<1>3. HandshakeBegun'
  BY DEF ReceiveNack, HandshakeBegun, TypeOK
<1> QED
  BY <1>1, <1>2, <1>3, ServerUntouched DEF ReceiveNack

\* A reply of the server: the table makes a pool step, and the reply belongs to
\* the handshake of the packet it answers.
LEMMA ReplyStep ==
    ASSUME DhcpInv, PoolStep, UNCHANGED <<now, clientVars>>,
           NEW p \in net, NEW q \in DHCPPacket,
           net' = net \/ net' = net \cup {q},
           q.xid = p.xid, q.client_mac = p.client_mac,
           q.message_type = "ACK" =>
               Backed(q.client_mac, q.offered_ip, q.granted_until)'
    PROVE  DhcpInv'
<1> USE DEF DhcpInv
<1>1. PoolInv
  BY DEF PoolInv, TypeOK
<1>2. TypeOK' /\ PoolExact' /\ ExpiryBounded'
  BY DEF TypeOK, PoolStep, clientVars
<1>3. ASSUME NEW r \in net', r.message_type = "ACK"
      PROVE  Backed(r.client_mac, r.offered_ip, r.granted_until)'
  <2>1. CASE r \in net
    <3>1. r.granted_until \in Nat
      BY <2>1 DEF TypeOK, DHCPPacket
    <3> QED
      BY <1>1, <1>3, <2>1, <3>1, BackedKept DEF AcksBacked, clientVars
  <2>2. CASE r = q
    BY <1>3, <2>2
  <2> QED
    BY <2>1, <2>2
<1>4. AcksBacked'
  BY <1>3 DEF AcksBacked
<1>5. ASSUME NEW m \in Macs, assigned_ip[m] # NoIp
      PROVE  Backed(m, assigned_ip[m], held_until[m])'
  <2>1. held_until[m] \in Nat
    BY DEF TypeOK
  <2>2. Backed(m, assigned_ip[m], held_until[m])
    BY <1>5 DEF UseBacked
  <2>3. assigned_ip' = assigned_ip /\ held_until' = held_until
    BY DEF clientVars
  <2>4. \/ held_until[m] < now'
        \/ /\ m \in DOMAIN leased_ips'
           /\ leased_ips'[m].ip = assigned_ip[m]
           /\ leased_ips'[m].expires_at >= held_until[m]
    BY <1>1, <2>1, <2>2, BackedKept DEF Backed
  <2> QED
    BY <2>3, <2>4 DEF Backed
<1>6. UseBacked'
  BY <1>5 DEF UseBacked, clientVars
<1>7. XidsOwned'
  BY SendKeepsOwnership DEF XidsOwned
<1>8. HandshakeBegun'
  BY DEF HandshakeBegun, clientVars
<1> QED
  BY <1>2, <1>4, <1>6, <1>7, <1>8

\* OFFERs promise nothing.
LEMMA ServeDiscoverStep ==
    ASSUME DhcpInv, NEW p \in net, ServeDiscover(p)
    PROVE  DhcpInv'
<1> USE DEF DhcpInv
<1>1. p \in DHCPPacket /\ p.client_mac \in Macs /\ p.xid \in Xids
  BY DEF TypeOK, DHCPPacket
<1>2. PoolStep
  BY <1>1, DiscoverIsPoolStep DEF ServeDiscover, PoolInv, TypeOK
<1>3. CASE p.client_mac \in DOMAIN leased_ips'
  <2> DEFINE ip == leased_ips'[p.client_mac].ip
             q == Packet("OFFER", p.xid, p.client_mac, ip,
                         DHCP_DEFAULT_LEASE_TIME)
  <2>1. ip \in Pool
    BY <1>2, <1>3 DEF PoolStep, PoolTypeOK, Lease
  <2>2. net' = net \cup {q}
    BY <1>3 DEF ServeDiscover
  <2> HIDE DEF ip
  <2>3. /\ q \in DHCPPacket /\ q.message_type = "OFFER"
        /\ q.xid = p.xid /\ q.client_mac = p.client_mac
    BY <1>1, <2>1, PacketType, LeaseTimeAssumption DEF MessageTypes
  <2> HIDE DEF q
  <2> QED
    BY <1>2, <2>2, <2>3, ReplyStep DEF ServeDiscover
<1>4. CASE p.client_mac \notin DOMAIN leased_ips'
  <2>1. net' = net /\ p.message_type = "DISCOVER"
    BY <1>4 DEF ServeDiscover
  <2> QED
    BY <1>1, <1>2, <2>1, ReplyStep DEF ServeDiscover
<1> QED
  BY <1>3, <1>4

\* The ACK promises what the table has just recorded.
LEMMA ServeRequestStep ==
    ASSUME DhcpInv, NEW p \in net, ServeRequest(p)
    PROVE  DhcpInv'
<1> USE DEF DhcpInv
<1>1. /\ p \in DHCPPacket /\ p.client_mac \in Macs /\ p.xid \in Xids
      /\ p.lease_time \in Nat
  BY DEF TypeOK, DHCPPacket
<1>2. PoolInv /\ now' = now /\ NewExpiry \in Nat
  BY LeaseTimeAssumption
     DEF PoolInv, TypeOK, ServeRequest, NewExpiry, PoolTypeOK
<1>3. PoolStep
  BY <1>1, <1>2, RequestIsPoolStep DEF ServeRequest
<1>4. CASE Granted(p.client_mac, p.xid, p.offered_ip)
  <2> DEFINE q == Packet("ACK", p.xid, p.client_mac, p.offered_ip, p.lease_time)
  <2>1. /\ p.offered_ip \in Pool
        /\ p.client_mac \in DOMAIN leased_ips'
        /\ leased_ips'[p.client_mac].ip = p.offered_ip
        /\ leased_ips'[p.client_mac].expires_at = NewExpiry
    BY <1>1, <1>2, <1>4, RequestIsPoolStep DEF ServeRequest
  <2>2. /\ q \in DHCPPacket
        /\ q.xid = p.xid /\ q.client_mac = p.client_mac
        /\ q.offered_ip = p.offered_ip /\ q.granted_until = NewExpiry
    BY <1>1, <2>1, PacketType DEF MessageTypes
  <2>3. net' = net \cup {q}
    BY <1>4 DEF ServeRequest
  <2> HIDE DEF q
  <2>4. /\ q.client_mac \in DOMAIN leased_ips'
        /\ leased_ips'[q.client_mac].ip = q.offered_ip
        /\ leased_ips'[q.client_mac].expires_at >= q.granted_until
    BY <1>2, <2>1, <2>2
  <2> QED
    BY <1>3, <2>2, <2>3, <2>4, ReplyStep DEF ServeRequest, Backed
<1>5. CASE ~ Granted(p.client_mac, p.xid, p.offered_ip)
  <2> DEFINE q == Packet("NACK", p.xid, p.client_mac, NoIp, 0)
  <2>1. /\ q \in DHCPPacket /\ q.message_type = "NACK"
        /\ q.xid = p.xid /\ q.client_mac = p.client_mac
    BY <1>1, PacketType DEF MessageTypes
  <2>2. net' = net \cup {q}
    BY <1>5 DEF ServeRequest
  <2> HIDE DEF q
  <2> QED
    BY <1>3, <2>1, <2>2, ReplyStep DEF ServeRequest
<1> QED
  BY <1>4, <1>5

\* Time passes: promises may run out, none is broken.
LEMMA TickStep ==
    ASSUME DhcpInv, Tick
    PROVE  DhcpInv'
<1> USE DEF DhcpInv
<1>1. now \in Nat /\ now' = now + 1 /\ leased_ips' = leased_ips
  BY DEF Tick, TypeOK, PoolTypeOK
<1>2. TypeOK' /\ PoolExact' /\ XidsOwned' /\ HandshakeBegun'
  BY <1>1 DEF Tick, clientVars, TypeOK, PoolTypeOK, PoolExact, XidsOwned,
              HandshakeBegun
<1>3. ExpiryBounded'
  BY <1>1, LeaseTimeAssumption
     DEF ExpiryBounded, NewExpiry, TypeOK, PoolTypeOK, Lease
<1>4. ASSUME NEW m, NEW ip, NEW until \in Nat, Backed(m, ip, until)
      PROVE  Backed(m, ip, until)'
  BY <1>1, <1>4 DEF Backed
<1>5. AcksBacked'
  BY <1>4 DEF Tick, AcksBacked, TypeOK, DHCPPacket
<1>6. ASSUME NEW m \in Macs, assigned_ip'[m] # NoIp
      PROVE  Backed(m, assigned_ip[m], held_until[m])'
  BY <1>1, <1>6 DEF Tick, clientVars, UseBacked, Backed, TypeOK
<1>7. UseBacked'
  BY <1>6 DEF UseBacked
<1> QED
  BY <1>2, <1>3, <1>5, <1>7

\* The inductive invariant holds in every reachable state of the exchange.
THEOREM DhcpInvariant == Spec => []DhcpInv
<1>1. DhcpInv /\ [Next]_vars => DhcpInv'
  <2> SUFFICES ASSUME DhcpInv, [Next]_vars PROVE DhcpInv'
    OBVIOUS
  <2>1. CASE UNCHANGED vars
    BY <2>1 DEF vars, DhcpInv, TypeOK, PoolTypeOK, PoolExact, ExpiryBounded,
                NewExpiry, AcksBacked, UseBacked, Backed, XidsOwned,
                HandshakeBegun
  <2> QED
    BY <2>1, AcquireLeaseStep, TimeoutStep, SocketErrorStep, ReceiveOfferStep,
       ReceiveAckStep, ReceiveNackStep, ServeDiscoverStep, ServeRequestStep,
       TickStep DEF Next
<1> QED
  BY <1>1, InitInv, PTL DEF Spec

\* The types of both tables, of the clients and of every packet ever sent.
THEOREM DhcpTypeCorrect == Spec => []TypeOK
  BY DhcpInvariant, PTL DEF DhcpInv

\* The lease table and the set of taken addresses always agree: no address
\* leaks from the pool of IPManager and none is in it twice.
THEOREM PoolNeverLeaks == Spec => []PoolExact
  BY DhcpInvariant, PTL DEF DhcpInv

\* No two clients use one address at the same time while the leases they were
\* promised run: late, repeated and lost packets of the four-way exchange and
\* the reuse of expired addresses included.
THEOREM AddressesNeverShared == Spec => []NoSharedAddress
<1>1. DhcpInv => NoSharedAddress
  <2> SUFFICES ASSUME DhcpInv, NEW m \in Macs, NEW n \in Macs,
                      Holds(m), Holds(n), assigned_ip[m] = assigned_ip[n]
               PROVE  m = n
    BY DEF NoSharedAddress
  <2>1. now \in Nat /\ held_until[m] \in Nat /\ held_until[n] \in Nat
    BY DEF DhcpInv, TypeOK, PoolTypeOK
  <2>2. /\ m \in DOMAIN leased_ips /\ leased_ips[m].ip = assigned_ip[m]
        /\ n \in DOMAIN leased_ips /\ leased_ips[n].ip = assigned_ip[n]
    BY <2>1 DEF Holds, DhcpInv, UseBacked, Backed
  <2> QED
    BY <2>2 DEF DhcpInv, PoolExact
<1> QED
  BY <1>1, DhcpInvariant, PTL

=============================================================================
