# Verification of rudp-agent-stack

TLA+ models, TLC configurations and TLAPS proofs for the protocols of this
repository. Paths are relative to the repository root (`src/` here).

## 1. Inventory

| component | code | state it keeps | operations | what makes it correct |
|---|---|---|---|---|
| RUDP sender | `common/rudp_sender.py` | `base`, `next_seq`, `unacked_packets`, `send_buffer`, `inflight_bytes`, `peer_rwnd`, congestion control (`cc_state`, `cwnd`, `ssthresh`, `dup_ack_count`, `last_ack_received`), RTT estimate and RTO | `enqueue_data`, `_try_send`, `on_ack_received`, `check_timeouts` | bookkeeping never drifts, receiver never overrun, nothing stranded, window state consistent |
| RUDP receiver | `common/rudp_receiver.py` | `expected_seq`, `ooo_buffer`, `assembly_buffer`, `fc_state` | `process_segment` | exactly once, in order, whole messages; truthful ACKs; the window never closes |
| RUDP packet | `common/rudp_packet.py` | none | `pack`, `unpack`, `calculate_checksum` | round trip, a corrupted packet is refused |
| RUDP transports | `client/transport/rudp_client.py`, `server/transport/rudp_server.py` | one sender and receiver per peer, `connections` | `send`, `on_packet_received` / `_handle_datagram`, the tick at the end of each receive-loop iteration | end-to-end reliable message stream per direction |
| failure injection | `simulations/failure_engine.py` | none | drop, duplicate, delay | the transport survives what it injects |
| agent client | `client/agent_client.py`, `client/agent/` | request-id counter, `_pending_responses` | `send_request_spec` with retries, `_on_message_received` | a response is matched to its request; a retry does not execute twice |
| agent server | `server/agent_server.py`, `server/agent/dispatcher.py`, `idempotency.py` | idempotency cache | `process_request` | a duplicate request is answered from the cache |
| upload sessions and file handlers | `server/agent/upload_session.py`, `server/agent/handlers/` | sessions by id, the sandbox files | `PUT_META`, `PUT_CHUNK`, `APPEND`, `GET`, `LIST` | a completed upload is the file that was sent |
| tasks | `server/agent/handlers/task.py`, `planner.py`, `tool_dispatcher.py` | task cache, the context of the running plan, temporary files | plan, run tools, write atomically | a client gets the result of its own task; no file is seen half written under its own name; an error has changed no file |
| DHCP | `server/dhcp/ip_manager.py`, `server/dhcp_server.py`, `client/dhcp_client.py` | `leased_ips`, `_allocated_ips`; client state, xid, assigned address | DISCOVER / OFFER / REQUEST / ACK / NACK, expiry | no address held by two clients, no leaked address |
| DNS | `server/dns_server.py`, `server/dns/dns_cache.py`, `client/dns_client.py` | one record with a TTL | query, answer | an answer is the mapping of the queried name |
| TCP transports | `client/transport/tcp_client.py`, `server/transport/tcp_server.py` | a socket per client; the connection being served | connect, send, receive, close; accept | an answer belongs to the request that waits for it; a busy server hangs nobody |
| command line | `client/cli/` | server address, agent client, the last request and its id | DNS, connect, disconnect, request, replay | what it shows is true of the user's own request |

How they interact: the agent client hands a request to a transport (`send`);
over TCP it is one message of a byte stream to a server that serves one connection at
a time; over RUDP it is fragmented by the sender, reassembled by the receiver of the
server's `RUDPConnection` for that address, and handed to
`AgentServer._on_udp_message` by a callback that runs inside `process_segment`;
the response takes the same way back through the other direction of the same
connection. DHCP and DNS are separate request/response protocols over plain UDP.

Hard behaviours: loss, duplication and reordering of datagrams (injected on
purpose by the failure engine), cumulative ACKs with stale windows, timeouts that
race late ACKs, retries at two levels (RUDP and agent client), an application
thread and a receive thread sharing a sender in the client, lease and cache
expiry, a server that stops while it writes a file, and sessions that outlive their
connections. Each is an entry of `hazards` in `PROJECT.json`.

## 2. Modules and the code they model

```
RudpPacket               datagram and message records, transport constants
  RudpReceiver           RUDPReceiver.process_segment
  RudpSender             RUDPSender.enqueue_data, on_ack_received, check_timeouts
    RudpConnection       sender + receiver + lossy network, one direction
      --> MessageStream  abstract promise, shown as a refinement
      RudpThreads        the same with the client's two threads interleaved,
                         a refinement of MessageStream as well
IPManager                server/dhcp/ip_manager.py
  Dhcp                   DHCPServer, DHCPClient and the datagrams between them
IdempotencyCache         server/agent/idempotency.py
  AgentServer            process_request, dispatch and the handlers' effects
    AgentExchange        AgentClient.send_request_spec and AgentServer.run, RUDP and TCP
    CliSession           client/cli with DNS, reconnection and replay
Planner                  server/agent/planner.py
  TaskExecution          handle_task and server/agent/tool_dispatcher.py
UploadSession            UploadSessionManager and handlers/put.py
  Upload                 client/agent/handlers/upload.py against it
MC*                      instances for TLC
Proofs, each module extending the one it is about:
RudpReceiverProofs       facts about sequences, then process_segment
  MCRudpReceiverProofs   the receiver against any peer
  RudpConnectionProofs   the sender's operations, the connection, then the
                         client's two threads
DhcpProofs, AgentExchangeProofs, TaskExecutionProofs, CliSessionProofs
UploadProofs             the sessions against any peer, then with their clients
```

The layers rest on one another the way the code does: `RudpConnection` is shown to
be a `MessageStream`; `AgentExchange` takes the transport to be such a stream
(each message once, in order, after some delay), and `CliSession` does so between two
open ends; `Upload` takes a call to be what
`AgentExchange` shows (at most one effect, and the answer is the answer to it).

Variables and operators keep the names of the code. A definition whose comment
begins with "Mutant:" is no part of the model: it is a plausible wrong version of
the definition after it, recorded in `PROJECT.json` with the property that
notices it.

### RUDP

`RudpSender` has the fields of `RUDPSender`. `EnqueueData(len)` cuts a message into
packets of at most MSS bytes (an empty message is one empty packet), appends them to
`send_buffer` and calls `TrySend`. `OnAckReceived` is the whole of
`on_ack_received`: removal of what a cumulative ACK covers, the congestion control
of new and of duplicate ACKs, fast retransmission at the third duplicate, window
inflation, and the trailing `_try_send`. `CheckTimeouts` is a timer that fires: it
collapses the window and resends the packet at `base`. Packets that `_try_send`
passes are a function of `cwnd`, `inflight_bytes` and `peer_rwnd`, computed over
`send_buffer` without recursion.

`RudpReceiver.ProcessSegment(p)` is the whole of `process_segment`: the in-order
branch with the drain of `ooo_buffer` and delivery of complete messages, the
out-of-order branch with its window test, the stale and the out-of-window branches,
the hysteresis of `fc_state` (which the code only logs) and the ACK that ends every
branch.

`RudpConnection` joins them. A datagram is in `data_net` or `ack_net` until it is
lost; reading it may leave a copy behind, so the network loses, duplicates, delays
and reorders at will, which includes everything `failure_engine.py` injects.

What is abstracted: a payload is the interval of the byte stream it carries (its
length and whether it ends a message); `cwnd` and `ssthresh` are whole bytes where
Python has floats, so `MSS * MSS / cwnd` is rounded down; `dup_ack_count` is kept up
to 4 since nothing tells larger counts apart; whether a timer has expired is a
nondeterministic choice, so the RTT estimate, the RTO and Karn's rule do not appear
(every timing the estimate could produce is a behaviour of the model); a datagram
that `unpack` refuses is a lost one; sequence numbers do not wrap at 2^32 (the code
does not handle the wrap, and the bounds stay far below it). `send_callback` failing
is a loss, and `deliver_callback` is assumed not to raise. Here a call of
`enqueue_data` or `on_ack_received` is one step, which is what the server's single
thread does.

`RudpThreads` is the client, where `send` runs `enqueue_data` on the application's
thread while the receive thread runs `on_ack_received` and `check_timeouts` on the
same sender. Calls are cut where the interpreter may switch threads (after a call, at
the end of a loop's body): `pc` says where each thread stands, `local` holds a value it
has read and not used, `hand` the packet it has popped. `popleft` on a buffer the other
thread has emptied and a scan over a dictionary the other thread has resized raise; the
receive loop catches neither, so its thread is "dead" from then on, while the
application sees the exception and goes on. Duplicate and old ACKs and a tick are one
step: between their reads and writes there is nothing the application's thread writes.

### DHCP

`IPManager` has the two tables and the two handlers, each of which evicts expired
leases first. `Dhcp` adds the packets the server answers with and the client: one
action for `acquire_lease` up to the first DISCOVER, one for each packet it accepts,
`Timeout` for a receive timeout (resend or give up), and `SocketError` for a socket that
raises, which ends `acquire_lease` at once. Packets that the client's
filter ignores change nothing and are no step. `net` is the set of all packets ever
sent: a packet can arrive late, repeatedly, or never. Two things are histories:
`held_until` and a packet's `granted_until` (the expiry in the server's table when
it sent the ACK). The client itself does not know the expiry: the server's ACK copies
`lease_time` from the REQUEST, where the client leaves it 0, so a bound client has
`lease_time` 0. Nothing reads that field, and "the client holds the address" is
measured against the server's promise. Transaction ids are taken to be fresh; the code draws 32 random
bits.

### Agent

`IdempotencyCache` is the cache with its TTL (an expired entry goes when it is looked
up). `AgentServer.ProcessRequest` is the pipeline: replay from the cache, or dispatch
and cache the outcome, errors included. `effects` records every run of a handler that writes,
with its outcome: one that fails may have written a part before it raised
(`append.py:98-103`), so a second run counts whether or not the first succeeded. Handlers
are abstracted to three kinds:
READ (LIST, GET, search) has no effect, APPEND writes and is protected by
the pipeline's cache only, TASK writes and has a second cache entry written by
`handlers/task.py`. A FILTER task without an output file is left out here.

`AgentExchange` has the client's wait, pause, retry and give-up over either transport,
chosen by `is_async` in the initial state. Over RUDP answers come to a callback, and
those that no call waits for are discarded. Over TCP the call itself reads; its wait is
the time-out the socket was connected with; any failure closes the socket, and since
nothing connects it again, the remaining attempts fail at once. The server accepts one
connection and reads from it until the client closes it; the others stay in `backlog`,
their requests in the socket's buffer, which are still executed when their turn comes
although the client has long given up. `Tick` waits for a client whose wait is over and
for a request that has reached `MaxDelay`; time in which nothing is under way is left
out, as no client uses an id twice.

### Tasks

`Planner` has the plans as sequences of steps joined by context keys. `TaskExecution`
carries one out, one step of the model per tool and three per atomic write (create the
temporary file, fill it, rename it), with a failure at each and a stop of the server
between any two, after which the task may be asked for again. A file is a sequence of
lines with a mark whether its writer got to the end; a line is a text and the numbers
that searches have put in front of it. What the code does, and
the model therefore too:

- the size that chooses between reading and streaming is taken from the bare name in
  the working directory, not from the sandbox, so it is unknown (0) or that of some
  unrelated file, and a file of any size may be streamed;
- a search puts its place in the input in front of each match (`tool_dispatcher.py:229`) and
  a header with their number before them (`:332`), so a search of an earlier artifact
  finds numbered lines, and the header too if it contains the pattern;
- a filter keeps the matching lines (the command line's prompt speaks of removing
  them), in a stream it puts a blank line between any two, and without an output file
  its result is not returned at all;
- with `return_plan` every task fails in its last step, after its file was written,
  because `asdict` is not imported; `ErrorLeavesFiles` is stated for the others;
- the temporary file is made in the target's directory with `delete=False`
  (`tool_dispatcher.py:164`): it is a file of the sandbox under a name of `TempNames`, which
  a task (or LIST and GET) can read while it is half written. A rename or the clean-up
  after a failing rename removes it. After a stop of the server, or a `tmp.write` that
  raises before `tmp_name` is set, it stays for ever with what it holds;
- the artifact of a large result is written to a path made of `default_client` and the
  request id, shared by all clients.

### The command line

`CliSession` is a user at the menu. `port` and `current_id` belong to the agent client and
are new with every connection; `last` belongs to the session and is not. The server
keeps `connections` by address and never removes one. The operating system may give a
port again that was closed. Then the server takes the new client for the old one: it
passes by the new client's first packets as duplicates, and its own unacknowledged
answers to the old client reach the new one, which takes them as its first packets
and, if their id is that of the waiting call, as its answer. `OwnResult` and
`NewPortResult` are therefore stated for ports used for the first time, while
`RepeatedOnlyElsewhere` holds for all of them. The first two speak of appends: reading writes
nothing, and a task may be answered from another client's entry (`TaskCrosstalk`
below). A connection that is dropped by
connecting again without disconnecting stays open and keeps its port. A new request
draws two ids (one for itself and one in `send_request_spec`, which it overrides), a
replay one. The DNS record is set once and expires for good; it is there because connecting
needs the address it gives, and no property is about it. Sessions here use RUDP;
the TCP side of the client is in `AgentExchange`. `used`, `calls`, `replays`, `foreign`
and `done` are histories.

### Uploads

`UploadSession` has `PUT_META` and `PUT_CHUNK` in both upload modes, and the files as
sequences of bytes, each byte marked with its upload and offset so that a misplaced
or foreign byte shows. `Upload` adds the clients: one call at a time, in STRICT mode
(the mode the server uses), abandoned calls whose requests still arrive, and new
uploads to the same name. The handlers may raise midway: `FailMeta` may leave the file emptied
without a session, `FailChunk` a part of the chunk written without the offset advanced; the
dispatcher answers 500 (404 for a missing file) and the client's upload ends. `target`,
`disturbed` and `used` are histories.
`cleanup_expired_sessions` has no caller and is no action. The request id the client
derives from a hash of the chunk is taken to be unique; collisions are not modelled.

## 3. Runs

| run | checks | instance and why it is enough |
|---|---|---|
| `Rudp` | types, `WindowContiguous`, `InflightExact`, `NoStall`, `CongestionWindow`, `InOrderExactlyOnce`, `AckedIsReceived`, `NeverBeyondWindow`, `NoUselessSend`, refinement of `MessageStream` (`StreamSafety`, `StreamSpec`), `SenderDrains` | messages of 1 and 3 packets (one empty, one ending with a short packet), 4 packets in all, a receive window of 2, which the congestion window outgrows: fast retransmission, recovery, slow start and avoidance, and out-of-order buffering all occur |
| `RudpReceiver` | `BufferInWindow`, `WindowNeverCloses`, `WholeMessages`, `ConsumesPrefix`, `AckIsCurrent` | a peer that sends any packet of an 8-packet stream at any time, for every division into messages, window 5: both thresholds of `fc_state` and packets beyond the window |
| `RudpThreads` | `EveryPacketKept`, `OldestAtBase`, `OneBeyondWindow` | one message of 5 packets, window 2: both threads are in `_try_send` at once, the receive thread removes what the application's has just added |
| `Dhcp` | types, `PoolExact`, `NoSharedAddress`, `AcquireReturns` | 2 clients, 2 addresses, leases of 1 in a time of 2, 2 attempts per stage, sockets that raise: leases expire, addresses are reused while old packets are still received |
| `Agent` | types, `EffectOnce`, `AnswerTrue`, `OnlyOwnAnswer`, `CallReturns` | 2 clients with the same ids, 2 calls between them, APPEND and TASK that succeed or fail, one retry each, both transports: copies and answers of an abandoned call arrive during the next, a second TCP client waits behind the first |
| `UploadSession` | types, `PrefixOnDisk`, `BufferAhead`, `CompleteIsWhole` | BUFFERABLE mode, files of up to 4 chunks, 2 names, 3 uploads, chunks in any order |
| `Upload` | `UploadIntact`, `NeverRefused` | 2 clients, one name, files of up to 3 bytes in 2 chunks, 3 calls each and 2 upload ids, enough for an upload that is disturbed by another; any handler may raise, at any byte |
| `TaskExecution` | `WholeFiles`, `ErrorLeavesFiles`, `AnswerIsTrue` | 11 tasks of all kinds (output over the input, without output, with the plan artifact, a search in an earlier artifact for a pattern its header contains, a filter of a temporary file left over), files of up to 3 lines with the limits for inline answers and truncation at 2 and 1, both sizes, 2 temporary names, 3 executions, 1 stop: a task is run again over what the stop left |
| `CliSession` | `RepeatedOnlyElsewhere`, `OwnResult` | 2 ports, 2 connections, 2 new requests and 1 replay, each sent up to twice, a cache and a DNS record that expire; all requests are appends (the proof covers every set of opcodes) |

The cfgs switch the deadlock check off where the bounded system may come to rest:
all messages sent and delivered, all ids used, time at its bound. Named bounds:
`MaxSegments`, `MaxCwnd`, `StreamLength` (RUDP), `MaxTime` (DHCP, agent, command line),
`MaxCalls` (agent, upload, command line), `MaxConnects`, `MaxReplays`, `MaxCopies`
(command line), `MaxTasks`, `MaxCrashes` (tasks), and the finite sets of ids and of temporary names. `MaxCwnd`
caps the growth of `cwnd` far above what `MaxSegments` packets can fill.

Three further runs are expected to fail; each is a disagreement between what the
repository says and what its code does (`findings` in `PROJECT.json`):

- `RudpStranded`: the two threads of the client share a sender without a lock. When an
  exception ends the receive thread, or an update of `inflight_bytes` is lost, packets
  stay in `send_buffer` with nothing left that would send them. What does survive every
  interleaving is in `RudpThreads`: no packet is lost or sent under two hands, the timer
  finds the oldest one, and the receiver is overrun by at most one packet, which it drops.
- `TaskCrosstalk`: `process_request` does not pass the client's address to `dispatch`,
  so the entry that `handle_task` keeps is shared by all clients. Two clients that
  use the same request id (all count from 1) within the TTL share a result, and the
  second task is never executed. For this reason `AnswerTrue` speaks of APPEND.
- `CliReplay`: a request of an earlier connection can be replayed on a new one, under
  its old id, which a new request may draw later; it is then answered with the
  replayed request's answer and not executed. For this reason `OwnResult` excludes
  connections with such replays.

A fourth disagreement has no run: `tests/unit/test_rudp_receiver_rwnd.py:78` describes a
receiver whose buffer is full and which advertises `rwnd = 0`. The buffer never holds
more than `MAX_RWND - 1` packets and the window never closes (`WindowNeverCloses`,
proved). This is good: the sender has no zero-window probe.

### Fairness

`RudpConnection!FairSpec`: weak fairness of `Tick` (the receive loop wakes at least every
50 ms and the RTO is at most `MAX_RTO`, so an outstanding packet is resent), and
strong fairness of receiving the packet at `base` and of receiving an ACK above
`base`. Strong fairness is the usual reading of a fair-lossy network: what is sent
again and again arrives at some time. The failure engine drops at random with a
probability below one, which satisfies it. No fairness is assumed of the application.

`Dhcp!FairSpec`: weak fairness of `Timeout`, since the client's `recvfrom` has a timeout
and its loop counts attempts. Nothing is assumed of the network or the server.

`AgentExchange!FairSpec`: weak fairness of `Progress`, that is, of the server's steps, of
time and of a client whose wait or pause is over, taken together. Nothing is assumed
of answers: the server's step may as well be one for another client, and a TCP
connection may wait behind another for ever.

## 4. Proofs

`TLAPS` proves for every value of the constants (and the assumptions named at their
declarations) what the runs check on an instance:

- **RUDP connection** (`RudpConnectionProofs`): `TypeCorrect`, `ExactlyOnceInOrder`,
  `AcksAreTrue`, `WindowRespected`, `WindowStaysOpen`, `BufferWithinWindow`,
  `MessagesWhole`, `ContiguousWindow`, `NeverStalled`, `CongestionConsistent`,
  `InflightNeverDrifts`, `OnlyOpenPacketsSent` and `RefinesMessageStream` (initial states map to initial
  states, each step to a step of `MessageStream` or a stutter).
- **RUDP receiver against any peer** (`MCRudpReceiverProofs`): `AnyArrivalOrder`,
  `AcksCurrent`.
- **The client's two threads** (`RudpConnectionProofs`): `PacketsKept`, `OldestFound`,
  `OverrunByOne`, of the connection's properties the two that survive the race,
  `InOrderDespiteRace` and `AcksTrueDespiteRace`, and the refinement
  `ThreadsRefineMessageStream`, which no run repeats.
- **DHCP** (`DhcpProofs`): `DhcpTypeCorrect`, `PoolNeverLeaks`, `AddressesNeverShared`.
- **Agent exchange** (`AgentExchangeProofs`): `ExchangeTypes`, `EffectsOnce`,
  `AnswersTrue`, `OwnAnswersOnly`, and the action property `AnswersKept`.
- **Tasks** (`TaskExecutionProofs`): `FilesWhole`, `ErrorsChangeNothing`,
  `AnswersAreTrue`.
- **Uploads** (`UploadProofs`): `SessionTypes`, `DiskHoldsPrefix`, `NoChunkLeftBehind`
  and `CompletedStaysWhole` of the session manager against peers that send chunks in any
  order (`PeersSpec`), `UploadsIntact` and `NothingRefused` of the clients (`Spec`), all
  of them in both upload modes.
- **Command line** (`CliSessionProofs`): `SessionInvariant`, `RepeatsOnlyElsewhere`,
  `ResultsAreTrue`.

Assumptions on the RUDP constants are that MSS and the receive window are positive, the
initial threshold exceeds MSS, and message lengths and bounds are natural numbers. Those on DHCP
are that the pool bounds and the lease time are natural numbers and that the markers
"no address" and "no xid" are neither. Those on the agent are that its times and bounds are
natural numbers, that the ids are natural numbers, that no client has the address
"default_client", and `RetriesWithinTTL`, on which see below. Those on tasks are that there
are three kinds of them, that the limits are natural numbers and an answer has room for a line,
that the first files are sequences of lines, all of them whole (`Init`), and that no task writes
to a name `tempfile` makes up (`TempNamesAssumption`; reading one is allowed). Those on uploads are that the largest
file has a size, chunks are not empty, the mode is one of the two, and the marker "no
upload" is no upload id. Those on the command line are that the TTL and the ids are natural
numbers and that neither "no port" nor "default_client" is a port.

The RUDP invariant is `IndInv == \E u \in base..next_seq : IndInvAt(u)`, where u is the
sequence number of the first packet never sent. The code has no such variable, and
the state alone does not say where `unacked_packets` ends and `send_buffer` begins in
the stream unless it is part of the invariant. `SndInv(u)` says that `unacked_packets`
maps `base..u-1` to the packets of the stream, `send_buffer` is the rest, u is within the window, and the
congestion control is consistent; `RcvInv` that the receiver has consumed a prefix and
buffers only packets of the stream inside its window; `NetInv(u)` that a DATA packet on
its way has been sent, and that an ACK on its way acknowledges no more than was
received and advertises between 1 and `MAX_RWND` slots. The last two are what makes
the window proof work: an old ACK can only allow less than `base + MAX_RWND`, and
`base` is at most `expected_seq`. `RudpReceiverProofs` and the first part
of `RudpConnectionProofs` prove preservation for each engine alone, for any packet or
ACK that satisfies the network part; the second part puts them together.
`RudpReceiverProofs` begins with the facts about sequences that the library does not state.

`NoSharedAddress` is not inductive: nothing in it says why the server would not give
an address away that a client relies on. `DhcpInv` adds that every ACK ever sent and
every address in use is backed: as long as the promise lasts, the server's table has
this client, this address and an expiry no earlier than promised (`AcksBacked`,
`UseBacked`), that expiries are bounded by `now` plus the lease time (`ExpiryBounded`),
and that a transaction id belongs to one client (`XidsOwned`, `HandshakeBegun`), so that
a client takes up only ACKs meant for it. With `PoolExact` the address follows.

`InflightExact` follows from the same invariant but not by arithmetic: the sum over
`unacked_packets` is a fold over a set that takes the packets out in an unknown
order, so nothing can be said by induction on it. The proof replaces the sum by a count.
The packets of the stream carry disjoint intervals of bytes, so the number of distinct bytes in a set of
them (`BytesOf`) satisfies the equation that defines the fold; two solutions of the equation
that differ would differ on a smallest set, and they do not (`SumCountsBytes`).
For `base..u-1` the bytes are one interval, whose length is what the sender has in
`inflight_bytes`.

The receiver needs the sender's good behaviour for none of this: `AloneInv` says the same
of it with a peer that sends any packet of its stream at any time. Packets beyond the window
are then dropped by its own test, not kept away by the sender's.

For two threads `IndInv` is too strong: while a thread holds a packet, `unacked_packets`
has a hole, and the buffer's head is no longer the first packet never sent. `ThreadsInv` keeps
u, now the end of what has been taken from the buffer, and says that each packet of
`base..u-1` is in `unacked_packets` or in a hand (`Kept`), never in two hands
(`HandsDiffer`), and that the buffer is the rest. What makes it inductive is `HeldFresh`: a packet in
a hand has never been on the wire. So the receiver cannot have it and no ACK can move `base`
past it, which is why it is not filed again after it was acknowledged. `Overrun` counts the
threads that have passed the window test and not yet popped: u and they together exceed
`base + MAX_RWND` by one at most, since the second thread's test still holds when
the first has popped one packet.

For the refinement a message counts as sent when `enqueue_data` begins: `sent` is
`written \o making`, of which `delivered` is a prefix. To append a packet is then a
stutter, since it only moves the border between the two, and beginning a message is `Send` because outside
the loop nothing is left to append (`MakingInv`). Otherwise a message would enter the
abstract stream packet by packet, which `MessageStream` does not allow. That the peer
gets whole messages only is `WholeDelivery`, the same lemma for both refinements.

`EffectOnce` is not inductive: nothing in it says why a copy that is still on its way will be
answered from the cache. `IInv` of `AgentExchangeProofs` says of every copy under way when
its request was first made and how long it can still take, and of every request executed
that the cache has its answer and keeps it for longer than that; here `RetriesWithinTTL` is
used, and only here. `AnswerTrue` needs moreover that an entry of the cache is true of
what was done, and that what is on its way back is an entry of the cache. Over TCP a
third part says that a client whose call failed has closed its socket, hence that its
connection carries at most one answer.

`TaskInv` relates the steps that remain to what is in memory and on disk. They are in
order (`Ordered`, by the rank of their tools) and each finds what it consumes
(`SuppliedInTime`), whence a write writes what an earlier step computed; when a file was changed,
only a report that needs nothing is left (`NothingLeftToFail`), whence an error has changed
nothing. That only names of `TempNames` are half written (`WholeFiles`) rests on a rename
being taken only when the temporary file is whole, and on `TempNamesAssumption`: no
task's target is taken for a temporary file. `InputKept` makes `AnswerIsTrue` survive a
stop of the server between the write and the answer: the input may by then be
overwritten, but for a task that is `Repeatable` it gives the same result again. The
lemmas on the filter say so: to filter what was filtered, also with blank lines in
between, changes nothing if the pattern is in no blank line. It is not so of a search
of its own artifact, which would show other numbers, nor of a hash written over its
input: `AnswerIsTrue` speaks of these for the first execution only.

Of the session manager the hard part is the drain loop, a recursive function over
the buffer. The library's induction theorems being out of reach, `DrainDefined` shows by
the greatest offset at which it would not that the loop is defined everywhere (offsets grow and are
bounded by the file), and `RunReaches` in the same way that what it writes is an
interval that begins at the expected offset and ends where the next chunk is missing. The
invariant `PeersInv` adds to the properties that buffered chunks are cut where the client cuts
them (`WellCut`): without it a chunk could overlap the next one and be left behind.

`UploadIntact` is not inductive: nothing in it says what a call that was given up
may still do. `UploadInv` says of every chunk on its way that it is the one its session
expects (`ChunksExpected`), that an upload has one on its way at most
(`OneUnderWay`) and belongs to one client (`HeldByOne`), that as long as a chunk of an open
session is on its way the file holds exactly the bytes before it, unless another upload
changed it (`Sessions`; a chunk that raised midway may leave more, but then none is on its
way any more), and of a client what is true when
the answer it waits for is there (`Waiting`): no chunk of its upload is on its way any
more, and the beginning of it is on disk unless another upload came between (`Ready`). A
request left behind by a failed upload carries another upload id and hence cannot write
into this session; that it may write into the same file is what `disturbed` records.

In a session two requests can have the same id, since a new connection counts from 1
again; the invariant `SessionInv` therefore speaks of the numbers the requests have in the
history. For `RepeatedOnlyElsewhere` it says that such a number determines the request
(`OneRequest`) and that of a request which was written, and of which there is still a copy on its
way, waiting or remembered for a replay, the cache has an answer no older than the write
(`AnswerKept`): the next copy is answered from it, or the TTL has passed. For `OwnResult` it says
that on a port used for the first time, and without a foreign replay, an id stands for one
request (`OwnIds`), and that neither the cache (`OwnCache`) nor an answer on its way
(`OwnResponses`) claims an append that was not done. These hold when the connection is made
because nothing at the server is older than the address (`Located`, `CacheOK`); on a used
port they fail, and so they do after a foreign replay, which is the run `CliReplay`.

Only model-checked: liveness (`StreamSpec`, `SenderDrains`, `AcquireReturns`, `CallReturns`),
which the prover does not reach. Every other property of a passing run is proved.

The agent properties rest on the assumption `RetriesWithinTTL`: all attempts of a call
and the way of the last one fit into the TTL of the cache. With the code's constants
(5 retries, 15 s, pauses of at most 4 s, TTL 120 s) it says that a request spends less
than 25 s in the transport. RUDP retransmits without limit, so this is a real
condition on the network, not a fact about the code.

## 5. Not modelled

- The values of the RTT estimate and of the RTO: that the timer may fire at any tick
  covers all of them. `current_time` is read before the blocking `recv`, so a sample can
  be too small or negative; this costs needless retransmissions and no property here.
- The packet's byte layout and checksum (a packet that fails it is a lost one), the
  wrap of the sequence number at 2^32, which the code does not handle, and the
  encodings of envelopes, mixed-mode messages and HTTP: string and byte manipulation
  with no state.
- What `GET` and `LIST` return, and queries of names other than `agent.local`. The path
  policy is left out everywhere: file names are those it accepts (a PUT it refuses,
  `put.py:34`, is answered with an error and changes nothing).
- A BUFFERABLE session whose write of a drained chunk raises (the server runs in STRICT
  mode); `UploadSession` is run without failing writes, `Upload` with them.
- An `os.remove` that fails in the clean-up of `_atomic_write` (it would leave a whole
  temporary file, as a stop before the rename does), the blanks around a match that a search
  strips, and line ends other than newline.
- Prompts, printing and downloads of the command line, the processes' entry points and
  the scripts. The client's `TaskHandler`, which would fetch an artifact by
  itself, calls `client.get_file`, which does not exist.
- Code nobody calls: `congestion_control.py`, `IdempotencyCache.cleanup`,
  `cleanup_expired_sessions`. Sessions and cache entries are therefore never removed by
  age alone; there is no bound to check.
- Three outcomes the code does not prevent and no property denies; each is a hazard
  with a note in `PROJECT.json`. Two live uploads of one file may both report OK for a mixed
  file (`UploadIntact` excepts an upload whose file another one changed). An
  artifact may be overwritten by another client's task before its owner has fetched it
  (`AnswerIsTrue` speaks of the moment of the answer). A client on a reused port may take
  an old client's answer for its own (`OwnResult` speaks of fresh ports).
- A crash of the server other than during a task: it loses sessions, connections and
  the cache, and nothing in the code recovers them.

## 6. Plan

Done: (1) RUDP engines, connection, refinement, proofs; (2) DHCP with proofs; (3) the
agent exchange over both transports; (4) uploads; (5) the client's threads; (6) the
planner and the tools with crashes; (7) the command line with DNS, reconnection and
replay; (8) proofs of every safety property of the passing runs, and the refinement of
`MessageStream` by the connection with and without threads.

Left: uploads over TCP, where a failed call ends the connection in the middle of a file.
