----------------------------- MODULE CliSession -----------------------------
(***************************************************************************)
(* A session of the interactive client (client/cli) against the RUDP agent *)
(* server: resolve the server's name, connect, disconnect, connect again,  *)
(* send requests and replay the last one.  What a session keeps is not what*)
(* the other parts keep: a new connection has a new AgentClient, whose ids *)
(* count from 1 again, and a new transport, whose sequence numbers count   *)
(* from 0, while the remembered request stays; the server keeps its        *)
(* RUDPConnection by address and its cache by address and id for longer    *)
(* than the client that used the address.                                  *)
(*                                                                         *)
(* The system picks the local port of a connection, and may pick one again *)
(* that was closed before.  Every message is one packet.  Between open     *)
(* engines the transport is what RudpConnection is shown to be, so packets *)
(* are not lost here, and acknowledgements are left out: the sender takes  *)
(* for acknowledged what the receiver has moved past.                      *)
(***************************************************************************)
EXTENDS AgentServer, FiniteSets

CONSTANTS
    NoPort,        \* no connection
    DNS_TTL,       \* lifetime of the DNS record (300 s)
    MaxConnects,   \* bound: connections
    MaxCalls,      \* bound: new requests of the user
    MaxReplays,    \* bound: replays
    MaxCopies,     \* bound: copies of one call that are sent
    MaxTime        \* bound on now

ASSUME NoPortAssumption == NoPort \notin Clients
ASSUME CliBoundsAssumption ==
    {DNS_TTL, MaxConnects, MaxCalls, MaxReplays, MaxCopies, MaxTime} \subseteq Nat

VARIABLES
    record,        \* DNSCache: when the record of agent.local expires, if there
    server_ip,     \* "NOT_SET", or the address is known
    port,          \* local port of state.agent_client; NoPort if not connected
    open_ports,    \* ports of sockets that have not been closed
    current_id,    \* RequestIdManager of the agent client
    last,          \* last_request_id and its arguments, if any
    call,          \* the call under way, if any
    result,        \* what the last call returned, if anything
    next_seq,      \* of the client's sender
    expected_seq,  \* of the client's receiver
    connections,   \* the server's connections: address -> both its counters
    requests,      \* packets on their way to the server
    responses,     \* packets the server sends until they are acknowledged
    replays,       \* history: replays so far
    calls,         \* history: new requests so far; each one has its number
    used,          \* history: ports of all connections so far, with repetition
    foreign,       \* history: a request of an earlier connection was replayed
    done           \* history: for each entry of effects, its request and time

dnsVars == <<record, server_ip>>
linkVars == <<port, open_ports, used>>
userVars == <<current_id, last, calls, replays, foreign>>
vars == <<cache, now, effects, record, server_ip, port, open_ports, current_id,
          last, call, result, next_seq, expected_seq, connections, requests,
          responses, replays, calls, used, foreign, done>>

\* DNSCache sets the record of agent.local when it is made.
Seeded == {now + DNS_TTL}

Init ==
    /\ ServerInit
    /\ record = Seeded
    /\ server_ip = "NOT_SET"
    /\ port = NoPort
    /\ open_ports = {}
    /\ current_id = 0
    /\ last = {}
    /\ call = {}
    /\ result = {}
    /\ next_seq = 0
    /\ expected_seq = 0
    /\ connections = <<>>
    /\ requests = {}
    /\ responses = {}
    /\ replays = 0
    /\ calls = 0
    /\ used = <<>>
    /\ foreign = FALSE
    /\ done = <<>>

AtPrompt == call = {}

-----------------------------------------------------------------------------
(***************************************************************************)
(* The menu: DNS, connect, disconnect.                                     *)
(***************************************************************************)

\* DNSCache.get: an expired record is deleted.  Nothing ever sets it again.
Unexpired == {t \in record : now <= t}

\* The server's answer to a query of agent.local: 200, or 404.
HandleMessage ==
    IF Unexpired # {} THEN [status |-> 200, ip |-> "agent"]
    ELSE [status |-> 404, ip |-> "NOT_SET"]

\* What resolve may return: the address of an answer 200, and nothing when the
\* answer is another one or does not come in time.
Resolve ==
    {"NOT_SET"} \cup {a.ip : a \in {b \in {HandleMessage} : b.status = 200}}

\* action_dns.
ActionDns ==
    /\ AtPrompt
    /\ record' = Unexpired
    /\ \E resolved \in Resolve :
          server_ip' = IF resolved = "NOT_SET" THEN server_ip ELSE resolved
    /\ UNCHANGED <<cache, now, effects, linkVars, userVars, call, result,
                   next_seq, expected_seq, connections, requests, responses, done>>

\* RUDPClientTransport on a free port of the system's choice, with new engines.
NewTransport(p) ==
    /\ p \notin open_ports
    /\ port' = p
    /\ open_ports' = open_ports \cup {p}
    /\ next_seq' = 0
    /\ expected_seq' = 0

\* action_connect, after the address was set by hand if need be.  A client that
\* was connected before is dropped, not closed.
ActionConnect(p) ==
    /\ AtPrompt
    /\ Len(used) < MaxConnects
    /\ server_ip' = "agent"
    /\ NewTransport(p)
    /\ used' = Append(used, p)
    /\ current_id' = 0
    /\ foreign' = FALSE
    /\ UNCHANGED <<cache, now, effects, record, last, call, result, connections,
                   requests, responses, replays, calls, done>>

\* The transport cannot be made or started: the session is without a client,
\* and one it had before is dropped, not closed.
ActionConnectFails ==
    /\ AtPrompt
    /\ server_ip' = "agent"
    /\ port' = NoPort
    /\ UNCHANGED <<cache, now, effects, record, open_ports, used, userVars, call,
                   result, next_seq, expected_seq, connections, requests,
                   responses, done>>

\* check_conn
CheckConn == port # NoPort

\* action_disconnect: the transport is closed and forgotten.
ActionDisconnect ==
    /\ AtPrompt
    /\ CheckConn
    /\ port' = NoPort
    /\ open_ports' = open_ports \ {port}
    /\ UNCHANGED <<cache, now, effects, dnsVars, used, userVars, call, result,
                   next_seq, expected_seq, connections, requests, responses, done>>

-----------------------------------------------------------------------------
(***************************************************************************)
(* Requests and replays.                                                   *)
(***************************************************************************)

\* A copy of the call is put on the wire.
Send(c) ==
    /\ requests' = requests \cup
          {[port |-> port, seq |-> next_seq, request_id |-> c.request_id,
            opcode |-> c.opcode, uid |-> c.uid]}
    /\ next_seq' = next_seq + 1
    /\ call' = {[c EXCEPT !.copies = @ + 1]}

\* _execute_and_remember for a new request takes an id and overrides the next
\* one, which send_request_spec draws all the same.
NewRequest(op) ==
    LET id == current_id + 1
        c  == [request_id |-> id, opcode |-> op, uid |-> calls + 1, copies |-> 0]
    IN  /\ AtPrompt
        /\ CheckConn
        /\ calls < MaxCalls
        /\ current_id' = current_id + 2
        /\ calls' = calls + 1
        /\ last' = {c}
        /\ result' = {}
        /\ Send(c)
        /\ UNCHANGED <<cache, now, effects, dnsVars, linkVars, replays, foreign,
                       expected_seq, connections, responses, done>>

\* Mutant: the replay is a new request with the same arguments.
ReplayedAnew(c) == [c EXCEPT !.request_id = current_id + 1]

\* The request that is replayed: the id it had, whatever the connection.
Replayed(c) == c

\* The remembered request is one of an earlier connection: on this one nothing
\* but replays has been sent.
IsForeign == current_id = 0 \/ foreign

\* action_replay: the same opcode, arguments and id; one more id is drawn.
ActionReplay ==
    /\ AtPrompt
    /\ CheckConn
    /\ replays < MaxReplays
    /\ replays' = replays + 1
    /\ current_id' = current_id + 1
    /\ foreign' = IsForeign
    /\ result' = {}
    /\ \E c \in last : Send(Replayed(c))
    /\ UNCHANGED <<cache, now, effects, dnsVars, linkVars, last, calls,
                   expected_seq, connections, responses, done>>

\* send_request_spec has waited in vain and sends the request again.
Retry ==
    /\ \E c \in call : c.copies < MaxCopies /\ Send(c)
    /\ UNCHANGED <<cache, now, effects, dnsVars, linkVars, userVars, result,
                   expected_seq, connections, responses, done>>

\* "Max retries exceeded": the exception is printed.
GiveUp ==
    /\ call # {}
    /\ call' = {}
    /\ UNCHANGED <<cache, now, effects, dnsVars, linkVars, userVars, result,
                   next_seq, expected_seq, connections, requests, responses, done>>

\* The connection is the user's only one of this address, ever.
Fresh == Cardinality({i \in 1..Len(used) : used[i] = port}) = 1

\* The receiver hands over the packet it expects, and passes by older ones; the
\* call that waits for the id returns.
ReceiveResponse ==
    \E r \in responses :
        /\ r.port = port
        /\ r.seq <= expected_seq
        /\ responses' = responses \ {r}
        /\ expected_seq' = IF r.seq = expected_seq THEN r.seq + 1 ELSE expected_seq
        /\ LET takers == {c \in call : /\ r.seq = expected_seq
                                       /\ c.request_id = r.response.request_id}
           IN  /\ call' = call \ takers
               /\ result' =
                    IF takers = {} THEN result
                    ELSE {[uid |-> c.uid, opcode |-> c.opcode,
                           status |-> r.response.status, fresh |-> Fresh,
                           foreign |-> foreign] : c \in takers}
        /\ UNCHANGED <<cache, now, effects, dnsVars, linkVars, userVars, next_seq,
                       connections, requests, done>>

-----------------------------------------------------------------------------
(***************************************************************************)
(* _handle_datagram at the server.                                         *)
(***************************************************************************)

NewConnection == [expected_seq |-> 0, next_seq |-> 0]

\* The connection of the address, new when the address is.
Connection(p) ==
    IF p.port \in DOMAIN connections THEN connections[p.port] ELSE NewConnection

\* A packet from before expected_seq: acknowledged, and not handed over.
PassBy(p) ==
    /\ p.seq < Connection(p).expected_seq
    /\ UNCHANGED <<serverVars, connections, responses, done>>

\* The packet that is expected: its request is processed and answered.
HandOver(p) ==
    LET conn == Connection(p)
    IN  /\ p.seq = conn.expected_seq
        /\ connections' =
              [a \in DOMAIN connections \cup {p.port} |->
                  IF a = p.port THEN [expected_seq |-> conn.expected_seq + 1,
                                      next_seq |-> conn.next_seq + 1]
                  ELSE connections[a]]
        /\ \E response \in Response :
              /\ ProcessRequest(p.port, p, response)
              /\ responses' = responses \cup
                    {[port |-> p.port, seq |-> conn.next_seq,
                      response |-> response]}
        /\ done' = IF effects' = effects THEN done
                   ELSE Append(done, [uid |-> p.uid, at |-> now])

HandleDatagram ==
    \E p \in requests :
        /\ PassBy(p) \/ HandOver(p)
        /\ requests' = requests \ {p}
        /\ UNCHANGED <<now, dnsVars, linkVars, userVars, call, result, next_seq,
                       expected_seq>>

Tick ==
    /\ now < MaxTime
    /\ now' = now + 1
    /\ UNCHANGED <<cache, effects, dnsVars, linkVars, userVars, call, result,
                   next_seq, expected_seq, connections, requests, responses, done>>

Next ==
    \/ ActionDns
    \/ \E p \in Clients : ActionConnect(p)
    \/ ActionConnectFails
    \/ ActionDisconnect
    \/ \E op \in Opcodes : NewRequest(op)
    \/ ActionReplay
    \/ Retry
    \/ GiveUp
    \/ ReceiveResponse
    \/ HandleDatagram
    \/ Tick

Spec == Init /\ [][Next]_vars

-----------------------------------------------------------------------------
\* The handler of a request that writes is run twice, having failed or not, only
\* at two addresses or with the lifetime of the cached answer between the two:
\* neither retries nor any number of replays repeat it on one connection, and neither does a connection on a port
\* that was used before, although the server takes it for the old one.
RepeatedOnlyElsewhere ==
    \A i, j \in 1..Len(done) :
        i < j /\ done[i].uid = done[j].uid =>
            \/ effects[i].client # effects[j].client
            \/ done[j].at - done[i].at >= IDEMPOTENCY_TTL

\* The result is the truth about the user's append: OK only if it was done.
\* (Reading writes nothing, and a task may be answered from the entry of another
\* user's: TaskAnswerTrue of AgentExchange.)
True(r) ==
    r.opcode = "APPEND" /\ r.status = "OK" =>
        \E i \in 1..Len(done) : done[i].uid = r.uid /\ effects[i].status = "OK"

\* What the client shows is true on a port that was never used before, if no
\* request of an earlier connection has been replayed on it.
OwnResult == \A r \in result : r.fresh /\ ~ r.foreign => True(r)

\* The same of every connection on a new port.
NewPortResult == \A r \in result : r.fresh => True(r)

=============================================================================
