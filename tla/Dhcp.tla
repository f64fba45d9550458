-------------------------------- MODULE Dhcp --------------------------------
(***************************************************************************)
(* The four-way exchange between the clients of client/dhcp_client.py and  *)
(* the server of server/dhcp_server.py, whose address pool is IPManager.   *)
(*                                                                         *)
(* net is the set of all packets ever sent.  A packet may be received late,*)
(* out of order, more than once or never: a packet that is lost is one that*)
(* is never received.  All clients listen on one port of the loopback      *)
(* segment, so any packet may reach any client.                            *)
(*                                                                         *)
(* random.getrandbits(32) is taken to return an id not used before.        *)
(***************************************************************************)
EXTENDS IPManager

CONSTANTS
    MAX_RETRIES_PER_STAGE,  \* sends per stage before acquire_lease gives up (5)
    NoIp,                   \* "" in a packet, None in a client
    NoXid,                  \* before a client's first handshake
    MaxTime                 \* bound on now

ASSUME RetriesAssumption == MAX_RETRIES_PER_STAGE \in Nat \ {0}
ASSUME NoIpAssumption == NoIp \notin Pool
ASSUME NoXidAssumption == NoXid \notin Xids

VARIABLES
    active,       \* the client is inside acquire_lease
    state,        \* INIT, SELECTING, REQUESTING or BOUND
    xid,          \* id of the client's current handshake
    attempt,      \* sends in the current stage
    offered_ip,   \* address of the OFFER the client has accepted
    assigned_ip,  \* address the client uses
    lease_time,   \* lease_time of the last OFFER or ACK accepted
    held_until,   \* history: expiry the server promised with that ACK
    net           \* packets sent

clientVars == <<active, state, xid, attempt, offered_ip, assigned_ip,
                lease_time, held_until>>
vars == <<leased_ips, allocated_ips, now, active, state, xid, attempt,
          offered_ip, assigned_ip, lease_time, held_until, net>>

MessageTypes == {"DISCOVER", "OFFER", "REQUEST", "ACK", "NACK"}

\* granted_until is not in the packet: it records what the server's table said
\* about the lease when it sent an ACK.
DHCPPacket ==
    [message_type : MessageTypes, xid : Xids, client_mac : Macs,
     offered_ip : Pool \cup {NoIp}, lease_time : Nat, granted_until : Nat]

Packet(type, x, mac, ip, time) ==
    [message_type |-> type, xid |-> x, client_mac |-> mac, offered_ip |-> ip,
     lease_time |-> time, granted_until |-> IF type = "ACK" THEN NewExpiry ELSE 0]

Init ==
    /\ PoolInit
    /\ active = [m \in Macs |-> FALSE]
    /\ state = [m \in Macs |-> "INIT"]
    /\ xid = [m \in Macs |-> NoXid]
    /\ attempt = [m \in Macs |-> 0]
    /\ offered_ip = [m \in Macs |-> NoIp]
    /\ assigned_ip = [m \in Macs |-> NoIp]
    /\ lease_time = [m \in Macs |-> 0]
    /\ held_until = [m \in Macs |-> 0]
    /\ net = {}

-----------------------------------------------------------------------------
(***************************************************************************)
(* DHCPClient                                                              *)
(***************************************************************************)

\* acquire_lease, up to the first DISCOVER of _perform_selecting.
AcquireLease(m) ==
    /\ ~ active[m]
    /\ \E x \in Xids \ {p.xid : p \in net} :
          /\ xid' = [xid EXCEPT ![m] = x]
          /\ net' = net \cup {Packet("DISCOVER", x, m, NoIp, 0)}
    /\ active' = [active EXCEPT ![m] = TRUE]
    /\ state' = [state EXCEPT ![m] = "SELECTING"]
    /\ attempt' = [attempt EXCEPT ![m] = 1]
    /\ UNCHANGED <<leased_ips, allocated_ips, now, offered_ip, assigned_ip,
                   lease_time, held_until>>

\* An OFFER for this handshake: on to _perform_requesting and its first REQUEST.
ReceiveOffer(m, p) ==
    /\ active[m]
    /\ state[m] = "SELECTING"
    /\ p.message_type = "OFFER"
    /\ p.xid = xid[m]
    /\ p.offered_ip # NoIp
    /\ lease_time' = [lease_time EXCEPT ![m] = p.lease_time]
    /\ offered_ip' = [offered_ip EXCEPT ![m] = p.offered_ip]
    /\ state' = [state EXCEPT ![m] = "REQUESTING"]
    /\ attempt' = [attempt EXCEPT ![m] = 1]
    /\ net' = net \cup {Packet("REQUEST", xid[m], m, p.offered_ip, 0)}
    /\ UNCHANGED <<leased_ips, allocated_ips, now, active, xid, assigned_ip,
                   held_until>>

\* What a stage repeats: the packet it started with.
Resent(m) ==
    IF state[m] = "SELECTING"
    THEN Packet("DISCOVER", xid[m], m, NoIp, 0)
    ELSE Packet("REQUEST", xid[m], m, offered_ip[m], 0)

\* Mutant: a resend is not counted as an attempt.
ResendUncounted(m) ==
    /\ net' = net \cup {Resent(m)}
    /\ UNCHANGED <<active, attempt>>

Resend(m) ==
    /\ attempt' = [attempt EXCEPT ![m] = @ + 1]
    /\ net' = net \cup {Resent(m)}
    /\ UNCHANGED active

GiveUp(m) ==
    /\ active' = [active EXCEPT ![m] = FALSE]
    /\ UNCHANGED <<attempt, net>>

\* Mutant: one attempt too many.
TimeoutOneMore(m) ==
    /\ active[m]
    /\ IF attempt[m] <= MAX_RETRIES_PER_STAGE THEN Resend(m) ELSE GiveUp(m)
    /\ UNCHANGED <<leased_ips, allocated_ips, now, state, xid, offered_ip,
                   assigned_ip, lease_time, held_until>>

\* No answer in time: the same packet again, or acquire_lease gives up.
Timeout(m) ==
    /\ active[m]
    /\ IF attempt[m] < MAX_RETRIES_PER_STAGE THEN Resend(m) ELSE GiveUp(m)
    /\ UNCHANGED <<leased_ips, allocated_ips, now, state, xid, offered_ip,
                   assigned_ip, lease_time, held_until>>

\* The socket raises, at whatever call: acquire_lease returns False at once.  A
\* packet whose sendto raised is one that never arrives.
SocketError(m) ==
    /\ active[m]
    /\ GiveUp(m)
    /\ UNCHANGED <<leased_ips, allocated_ips, now, state, xid, offered_ip,
                   assigned_ip, lease_time, held_until>>

\* An ACK for this handshake that names the address offered.
ReceiveAck(m, p) ==
    /\ active[m]
    /\ state[m] = "REQUESTING"
    /\ p.message_type = "ACK"
    /\ p.xid = xid[m]
    /\ p.offered_ip = offered_ip[m]
    /\ assigned_ip' = [assigned_ip EXCEPT ![m] = p.offered_ip]
    /\ lease_time' = [lease_time EXCEPT ![m] = p.lease_time]
    /\ held_until' = [held_until EXCEPT ![m] = p.granted_until]
    /\ state' = [state EXCEPT ![m] = "BOUND"]
    /\ active' = [active EXCEPT ![m] = FALSE]
    /\ UNCHANGED <<leased_ips, allocated_ips, now, xid, attempt, offered_ip,
                   net>>

\* A NACK ends the handshake without a retry.
ReceiveNack(m, p) ==
    /\ active[m]
    /\ state[m] = "REQUESTING"
    /\ p.message_type = "NACK"
    /\ p.xid = xid[m]
    /\ active' = [active EXCEPT ![m] = FALSE]
    /\ UNCHANGED <<leased_ips, allocated_ips, now, state, xid, attempt,
                   offered_ip, assigned_ip, lease_time, held_until,
                   net>>

-----------------------------------------------------------------------------
(***************************************************************************)
(* DHCPServer                                                              *)
(***************************************************************************)

\* _handle_discover: the OFFER carries the lease time.
ServeDiscover(p) ==
    /\ p.message_type = "DISCOVER"
    /\ HandleDiscover(p.client_mac, p.xid)
    /\ net' = IF p.client_mac \in DOMAIN leased_ips'
              THEN net \cup {Packet("OFFER", p.xid, p.client_mac,
                                    leased_ips'[p.client_mac].ip,
                                    DHCP_DEFAULT_LEASE_TIME)}
              ELSE net
    /\ UNCHANGED <<now, clientVars>>

\* _handle_request: the ACK copies the lease time of the REQUEST.
ServeRequest(p) ==
    /\ p.message_type = "REQUEST"
    /\ HandleRequest(p.client_mac, p.xid, p.offered_ip)
    /\ net' = net \cup
                {IF Granted(p.client_mac, p.xid, p.offered_ip)
                 THEN Packet("ACK", p.xid, p.client_mac, p.offered_ip,
                             p.lease_time)
                 ELSE Packet("NACK", p.xid, p.client_mac, NoIp, 0)}
    /\ UNCHANGED <<now, clientVars>>

Tick ==
    /\ now < MaxTime
    /\ now' = now + 1
    /\ UNCHANGED <<leased_ips, allocated_ips, net, clientVars>>

Next ==
    \/ \E m \in Macs : AcquireLease(m)
    \/ \E m \in Macs : Timeout(m)
    \/ \E m \in Macs : SocketError(m)
    \/ \E m \in Macs, p \in net : ReceiveOffer(m, p)
    \/ \E m \in Macs, p \in net : ReceiveAck(m, p)
    \/ \E m \in Macs, p \in net : ReceiveNack(m, p)
    \/ \E p \in net : ServeDiscover(p)
    \/ \E p \in net : ServeRequest(p)
    \/ Tick

Spec == Init /\ [][Next]_vars

\* The receive timeouts of the client always run out.
FairSpec == Spec /\ \A m \in Macs : WF_vars(Timeout(m))

-----------------------------------------------------------------------------
\* Type invariant: a stage of acquire_lease makes at most MAX_RETRIES_PER_STAGE
\* attempts, and every address comes from the pool.
TypeOK ==
    /\ PoolTypeOK
    /\ active \in [Macs -> BOOLEAN]
    /\ state \in [Macs -> {"INIT", "SELECTING", "REQUESTING", "BOUND"}]
    /\ xid \in [Macs -> Xids \cup {NoXid}]
    /\ attempt \in [Macs -> 0..MAX_RETRIES_PER_STAGE]
    /\ offered_ip \in [Macs -> Pool \cup {NoIp}]
    /\ assigned_ip \in [Macs -> Pool \cup {NoIp}]
    /\ lease_time \in [Macs -> Nat]
    /\ held_until \in [Macs -> Nat]
    /\ net \subseteq DHCPPacket

\* The client uses an address and the lease it was promised has not run out.
Holds(m) == assigned_ip[m] # NoIp /\ now <= held_until[m]

\* No address is used by two clients at once, whatever packets are late or
\* repeated: the server never gives an address away while an ACK it has sent
\* for it is good, and a client never takes up another's ACK.
NoSharedAddress ==
    \A m, n \in Macs :
        Holds(m) /\ Holds(n) /\ assigned_ip[m] = assigned_ip[n] => m = n

\* acquire_lease always returns: bound, refused, out of attempts or failed.
AcquireReturns == \A m \in Macs : active[m] ~> ~ active[m]

=============================================================================
