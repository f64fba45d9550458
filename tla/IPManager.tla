------------------------------ MODULE IPManager ------------------------------
(***************************************************************************)
(* IPManager of server/dhcp/ip_manager.py: the table of leases by client   *)
(* MAC and the set of addresses taken from the pool.  Both handlers first  *)
(* evict what has expired (cleanup_expired_leases).  Addresses are numbered*)
(* as _ip_to_int numbers them.  now is time.time() in whole seconds.       *)
(*                                                                         *)
(* A handler's return value is read off the state it leaves: an address is *)
(* offered iff the client has a lease, and Granted says whether REQUEST is *)
(* answered with ACK.                                                      *)
(***************************************************************************)
EXTENDS Integers, FiniteSets, FiniteSetsExt, Functions

CONSTANTS
    start_ip, end_ip,          \* the pool, 127.0.0.2 to 127.0.0.254
    DHCP_DEFAULT_LEASE_TIME,   \* seconds (3600)
    Macs,                      \* client hardware addresses
    Xids                       \* transaction ids

ASSUME PoolAssumption == start_ip \in Nat /\ end_ip \in Nat
ASSUME LeaseTimeAssumption == DHCP_DEFAULT_LEASE_TIME \in Nat

VARIABLES
    leased_ips,     \* mac -> [ip, xid, expires_at, state]
    allocated_ips,  \* addresses reserved or bound
    now

poolVars == <<leased_ips, allocated_ips>>

Pool == start_ip..end_ip

Lease == [ip : Pool, xid : Xids, expires_at : Nat,
          state : {"SELECTING", "BOUND"}]

PoolInit == leased_ips = <<>> /\ allocated_ips = {} /\ now = 0

-----------------------------------------------------------------------------
(***************************************************************************)
(* cleanup_expired_leases: what is left of both tables.                    *)
(***************************************************************************)

Expired == {m \in DOMAIN leased_ips : now > leased_ips[m].expires_at}

CurrentLeases == Restrict(leased_ips, DOMAIN leased_ips \ Expired)

\* Mutant: the address of an expired lease is not returned to the pool.
CurrentIpsKept == allocated_ips

CurrentIps == allocated_ips \ {leased_ips[m].ip : m \in Expired}

-----------------------------------------------------------------------------
(***************************************************************************)
(* handle_discover                                                         *)
(***************************************************************************)

NewExpiry == now + DHCP_DEFAULT_LEASE_TIME

\* Same xid: the lease is offered again as it is.
Reoffer(mac, xid) ==
    /\ mac \in DOMAIN CurrentLeases
    /\ CurrentLeases[mac].xid = xid
    /\ leased_ips' = [CurrentLeases EXCEPT ![mac].expires_at = NewExpiry]
    /\ allocated_ips' = CurrentIps

\* Another xid: the handshake starts again with the address the client has.
Restart(mac, xid) ==
    /\ mac \in DOMAIN CurrentLeases
    /\ CurrentLeases[mac].xid # xid
    /\ leased_ips' = [CurrentLeases EXCEPT ![mac].xid = xid,
                                           ![mac].state = "SELECTING",
                                           ![mac].expires_at = NewExpiry]
    /\ allocated_ips' = CurrentIps

\* Unknown client: the first free address of the pool.
Allocate(mac, xid) ==
    /\ mac \notin DOMAIN CurrentLeases
    /\ Pool \ CurrentIps # {}
    /\ LET new_ip == Min(Pool \ CurrentIps)
       IN  /\ allocated_ips' = CurrentIps \cup {new_ip}
           /\ leased_ips' =
                [m \in DOMAIN CurrentLeases \cup {mac} |->
                    IF m = mac
                    THEN [ip |-> new_ip, xid |-> xid,
                          expires_at |-> NewExpiry, state |-> "SELECTING"]
                    ELSE CurrentLeases[m]]

\* Unknown client, empty pool: no offer.
Exhausted(mac) ==
    /\ mac \notin DOMAIN CurrentLeases
    /\ Pool \ CurrentIps = {}
    /\ leased_ips' = CurrentLeases
    /\ allocated_ips' = CurrentIps

HandleDiscover(mac, xid) ==
    \/ Reoffer(mac, xid)
    \/ Restart(mac, xid)
    \/ Allocate(mac, xid)
    \/ Exhausted(mac)

-----------------------------------------------------------------------------
(***************************************************************************)
(* handle_request                                                          *)
(***************************************************************************)

\* Mutant: any address is confirmed to a client that has a lease.
GrantedAnyAddress(mac, xid, requested_ip) ==
    /\ mac \in DOMAIN CurrentLeases
    /\ \/ CurrentLeases[mac].xid = xid /\ CurrentLeases[mac].state = "BOUND"
       \/ CurrentLeases[mac].state = "SELECTING"

\* The request is for the client's own address, and either repeats the one
\* that bound it or is the first one after an offer.
Granted(mac, xid, requested_ip) ==
    /\ mac \in DOMAIN CurrentLeases
    /\ CurrentLeases[mac].ip = requested_ip
    /\ \/ CurrentLeases[mac].xid = xid /\ CurrentLeases[mac].state = "BOUND"
       \/ CurrentLeases[mac].state = "SELECTING"

\* ACK: bound (again) for another full lease time.
Bind(mac, xid) ==
    /\ leased_ips' = [CurrentLeases EXCEPT ![mac].xid = xid,
                                           ![mac].state = "BOUND",
                                           ![mac].expires_at = NewExpiry]
    /\ allocated_ips' = CurrentIps

\* NACK: only the eviction takes effect.
Refuse ==
    /\ leased_ips' = CurrentLeases
    /\ allocated_ips' = CurrentIps

HandleRequest(mac, xid, requested_ip) ==
    \/ Granted(mac, xid, requested_ip) /\ Bind(mac, xid)
    \/ ~ Granted(mac, xid, requested_ip) /\ Refuse

-----------------------------------------------------------------------------
PoolTypeOK ==
    /\ leased_ips \in [DOMAIN leased_ips -> Lease]
    /\ DOMAIN leased_ips \subseteq Macs
    /\ allocated_ips \subseteq Pool
    /\ now \in Nat

\* The two tables agree: an address is taken iff some client has it, and no
\* two clients have the same.  An address that stayed taken without a lease
\* would be lost for good; one leased but not taken would be given out twice.
PoolExact ==
    /\ allocated_ips = {leased_ips[m].ip : m \in DOMAIN leased_ips}
    /\ \A m, n \in DOMAIN leased_ips :
            leased_ips[m].ip = leased_ips[n].ip => m = n

=============================================================================
