--------------------------- MODULE AgentExchange ----------------------------
(***************************************************************************)
(* The clients of client/agent_client.py and the server of AgentServer over*)
(* either transport: send_request_spec with its retries.                   *)
(*                                                                         *)
(* Over RUDP the transport is what RudpConnection is shown to be: each     *)
(* message arrives once and in order, after any delay.  The duplicates here*)
(* are the client's own: when no answer comes in time it sends the request *)
(* again under the same id, although the first copy is still on its way.   *)
(* Answers that come while the client waits for nothing, or for another id,*)
(* are discarded.  Over TCP any failure closes the socket and nothing opens*)
(* it again, so the retries find it closed; the server serves one          *)
(* connection until it ends, while the others wait in the backlog.         *)
(*                                                                         *)
(* A member of Clients is one AgentClient with one connection.  Time       *)
(* matters, because the cache forgets.  MaxDelay bounds how long a request *)
(* travels (transport retransmissions included) and how long a served TCP  *)
(* connection waits for the server; the client acts when its waits run out.*)
(***************************************************************************)
EXTENDS AgentServer

CONSTANTS
    timeout,       \* wait for an answer (15 s)
    MAX_RETRIES,   \* 5
    INITIAL_RTO,   \* first pause before a retry (0.5 s)
    MAX_RTO,       \* longest pause (4 s)
    MaxDelay,      \* bound on the travel time of a request
    NoClient,      \* no connection is being served
    MaxCalls,      \* bound on the calls of all clients
    MaxTime        \* bound on now

ASSUME TimingAssumption ==
    /\ timeout \in Nat \ {0}
    /\ MAX_RETRIES \in Nat
    /\ INITIAL_RTO \in Nat
    /\ MAX_RTO \in Nat
    /\ MaxDelay \in Nat
    /\ MaxCalls \in Nat
ASSUME NoClientAssumption == NoClient \notin Clients

\* The last copy of a request arrives before the cache forgets the first.  With
\* the values of the code: 5 * (15 + 4) seconds and less than 25 for the way.
ASSUME RetriesWithinTTL ==
    MAX_RETRIES * (timeout + MAX_RTO) + MaxDelay < IDEMPOTENCY_TTL

VARIABLES
    is_async,     \* the transport is RUDP, not TCP
    sock,         \* TCP: the clients whose socket is open
    backlog,      \* TCP: the clients whose connection is not accepted yet
    conn,         \* TCP: the client whose connection is being served
    phase,        \* IDLE, WAITING for the event, or PAUSED before a retry
    current_id,   \* RequestIdManager._current_id
    opcode,       \* of the current call
    retries,
    deadline,     \* when the wait or the pause runs out
    call_at,      \* history: when the current call began
    answer,       \* the response the call has returned; none if it raised
    requests,     \* messages on their way to the server
    responses     \* messages on their way to the client

clientVars == <<phase, current_id, opcode, retries, deadline, call_at, answer>>
transportVars == <<is_async, sock, backlog, conn>>
vars == <<cache, now, effects, is_async, sock, backlog, conn, phase, current_id, opcode, retries, deadline,
          call_at, answer, requests, responses>>

\* sent_at and call_at record when this copy and when the first copy were sent.
Request ==
    [request_id : RequestIds, opcode : Opcodes, sent_at : Nat, call_at : Nat]

Init ==
    /\ ServerInit
    /\ is_async \in BOOLEAN
    /\ sock = IF is_async THEN {} ELSE Clients
    /\ backlog = sock
    /\ conn = NoClient
    /\ phase = [c \in Clients |-> "IDLE"]
    /\ current_id = [c \in Clients |-> 0]
    /\ opcode = [c \in Clients |-> "READ"]
    /\ retries = [c \in Clients |-> 0]
    /\ deadline = [c \in Clients |-> 0]
    /\ call_at = [c \in Clients |-> 0]
    /\ answer = [c \in Clients |-> {}]
    /\ requests = [c \in Clients |-> <<>>]
    /\ responses = [c \in Clients |-> <<>>]

\* How long the client waits: 15 s for the event, and the timeout of the socket,
\* which is the one it was connected with.
Wait == IF is_async THEN timeout ELSE INITIAL_RTO

\* Bounds: the number of calls, and a call begins only if it can end by MaxTime.
CanBegin ==
    /\ SumFunction(current_id) < MaxCalls
    /\ now + (MAX_RETRIES + 1) * Wait + MAX_RETRIES * MAX_RTO <= MaxTime

-----------------------------------------------------------------------------
(***************************************************************************)
(* send_request_spec                                                       *)
(***************************************************************************)

\* The message queue of client c after a copy of its call is sent.
WithCopy(c, id, op, began) ==
    [requests EXCEPT ![c] = Append(@, [request_id |-> id, opcode |-> op,
                                       sent_at |-> now, call_at |-> began])]

\* The pause before the r-th retry.
Pause(r) ==
    IF INITIAL_RTO * 2^(r - 1) < MAX_RTO THEN INITIAL_RTO * 2^(r - 1) ELSE MAX_RTO

\* Mutant: the attempt that has just failed is not counted.
GivesUpLate(n) == n > MAX_RETRIES + 1

GivesUp(n) == n > MAX_RETRIES

\* Mutant: a synchronous transport is not closed after an error.
ClosedKept(c) == UNCHANGED <<sock, responses>>

\* A synchronous transport is closed, and what was on its way is lost.
Closed(c) ==
    /\ sock' = sock \ {c}
    /\ responses' = IF is_async THEN responses
                    ELSE [responses EXCEPT ![c] = <<>>]

\* The n-th attempt has failed: pause, or give up.
Failed(c, n) ==
    /\ Closed(c)
    /\ retries' = [retries EXCEPT ![c] = n]
    /\ IF GivesUp(n)
       THEN /\ phase' = [phase EXCEPT ![c] = "IDLE"]
            /\ UNCHANGED deadline
       ELSE /\ phase' = [phase EXCEPT ![c] = "PAUSED"]
            /\ deadline' = [deadline EXCEPT ![c] = now + Pause(n)]

\* send_bytes raises when the socket is closed; the event-driven send never does.
CanSend(c) == is_async \/ c \in sock

\* An attempt after n that failed: the message is sent and the client waits for
\* the event, or for the socket; a socket that is closed raises at once.
Attempt(c, id, op, began, n) ==
    IF CanSend(c)
    THEN /\ requests' = WithCopy(c, id, op, began)
         /\ retries' = [retries EXCEPT ![c] = n]
         /\ phase' = [phase EXCEPT ![c] = "WAITING"]
         /\ deadline' = [deadline EXCEPT ![c] = now + Wait]
         /\ UNCHANGED <<sock, responses>>
    ELSE Failed(c, n + 1) /\ UNCHANGED requests

\* A new call: the next id and the first attempt.
Execute(c, op) ==
    LET id == current_id[c] + 1
    IN  /\ phase[c] = "IDLE"
        /\ id \in RequestIds
        /\ CanBegin
        /\ current_id' = [current_id EXCEPT ![c] = id]
        /\ opcode' = [opcode EXCEPT ![c] = op]
        /\ call_at' = [call_at EXCEPT ![c] = now]
        /\ answer' = [answer EXCEPT ![c] = {}]
        /\ Attempt(c, id, op, now, 0)
        /\ UNCHANGED <<cache, now, effects, is_async, backlog, conn>>

\* event.wait or recv times out: the pending entry is dropped.
WaitTimeout(c) ==
    /\ phase[c] = "WAITING"
    /\ now >= deadline[c]
    /\ Failed(c, retries[c] + 1)
    /\ UNCHANGED <<cache, now, effects, is_async, backlog, conn, current_id,
                   opcode, call_at, answer, requests>>

\* Mutant: over TCP the client waits until the socket is open again.
RetryConnected(c) ==
    /\ phase[c] = "PAUSED"
    /\ now >= deadline[c]
    /\ CanSend(c)
    /\ Attempt(c, current_id[c], opcode[c], call_at[c], retries[c])
    /\ UNCHANGED <<cache, now, effects, is_async, backlog, conn, current_id,
                   opcode, call_at, answer>>

\* The pause is over: another attempt, under the same id.
Retry(c) ==
    /\ phase[c] = "PAUSED"
    /\ now >= deadline[c]
    /\ Attempt(c, current_id[c], opcode[c], call_at[c], retries[c])
    /\ UNCHANGED <<cache, now, effects, is_async, backlog, conn, current_id,
                   opcode, call_at, answer>>

\* Mutant: an answer is taken up whatever its id.
AwaitsAnything(c, response) == phase[c] = "WAITING"

\* _pending_requests has an entry for the id of this answer; over TCP, the
\* header that is read has the id of the request.
Awaits(c, response) ==
    phase[c] = "WAITING" /\ response.request_id = current_id[c]

\* The call returns what it has received.
TakeUp(c, response) ==
    /\ phase' = [phase EXCEPT ![c] = "IDLE"]
    /\ answer' = [answer EXCEPT ![c] = {response}]
    /\ responses' = [responses EXCEPT ![c] = Tail(@)]
    /\ UNCHANGED <<sock, retries, deadline>>

\* _on_message_received: the waiting call returns, or the answer is discarded.
OnMessageReceived(c) ==
    /\ is_async
    /\ responses[c] # <<>>
    /\ IF Awaits(c, Head(responses[c]))
       THEN TakeUp(c, Head(responses[c]))
       ELSE /\ responses' = [responses EXCEPT ![c] = Tail(@)]
            /\ UNCHANGED <<sock, phase, answer, retries, deadline>>
    /\ UNCHANGED <<cache, now, effects, is_async, backlog, conn, current_id,
                   opcode, call_at, requests>>

\* receive_exact: the call returns, or the id does not match and it has failed.
ReceiveExact(c) ==
    /\ ~ is_async
    /\ phase[c] = "WAITING"
    /\ responses[c] # <<>>
    /\ IF Awaits(c, Head(responses[c]))
       THEN TakeUp(c, Head(responses[c]))
       ELSE Failed(c, retries[c] + 1) /\ UNCHANGED answer
    /\ UNCHANGED <<cache, now, effects, is_async, backlog, conn, current_id,
                   opcode, call_at, requests>>

\* The user disconnects: AgentClient.close.
Close(c) ==
    /\ phase[c] = "IDLE"
    /\ c \in sock
    /\ Closed(c)
    /\ UNCHANGED <<cache, now, effects, is_async, backlog, conn, clientVars,
                   requests>>

-----------------------------------------------------------------------------
(***************************************************************************)
(* The server.                                                             *)
(***************************************************************************)

\* The transport's send: over TCP an answer to a closed connection is lost.
SendBack(c, response) ==
    responses' = IF is_async \/ c \in sock
                 THEN [responses EXCEPT ![c] = Append(@, response)]
                 ELSE responses

\* The oldest request of c is processed and its answer is sent back.
Process(c) ==
    /\ requests[c] # <<>>
    /\ \E response \in Response :
          /\ ProcessRequest(c, Head(requests[c]), response)
          /\ SendBack(c, response)
    /\ requests' = [requests EXCEPT ![c] = Tail(@)]
    /\ UNCHANGED <<now, transportVars, clientVars>>

\* _on_udp_message: one request at a time, of any client.
OnUdpMessage(c) == is_async /\ Process(c)

\* accept: the next connection of the backlog.
Accept(c) ==
    /\ conn = NoClient
    /\ c \in backlog
    /\ conn' = c
    /\ backlog' = backlog \ {c}
    /\ UNCHANGED <<cache, now, effects, is_async, sock, clientVars, requests,
                   responses>>

\* _handle_connection: only the requests of the accepted connection.
HandleConnection(c) == conn = c /\ Process(c)

\* The client has closed it and everything it sent has been read.
EndConnection ==
    /\ conn # NoClient
    /\ conn \notin sock
    /\ requests[conn] = <<>>
    /\ conn' = NoClient
    /\ UNCHANGED <<cache, now, effects, is_async, sock, backlog, clientVars,
                   requests, responses>>

\* Time passes, but not beyond a client's wait or the arrival of a request.  The
\* time in which nothing is under way is left out: no client uses an id again.
Tick ==
    /\ now < MaxTime
    /\ \E c \in Clients : phase[c] # "IDLE" \/ requests[c] # <<>>
    /\ \A c \in Clients :
          /\ phase[c] # "IDLE" => now < deadline[c]
          /\ is_async \/ conn = c =>
                \A i \in 1..Len(requests[c]) :
                   now < requests[c][i].sent_at + MaxDelay
    /\ now' = now + 1
    /\ UNCHANGED <<cache, effects, transportVars, clientVars, requests, responses>>

Serve ==
    \/ \E c \in Clients : OnUdpMessage(c)
    \/ \E c \in Clients : Accept(c)
    \/ \E c \in Clients : HandleConnection(c)
    \/ EndConnection

Next ==
    \/ \E c \in Clients, op \in Opcodes : Execute(c, op)
    \/ \E c \in Clients : WaitTimeout(c)
    \/ \E c \in Clients : Retry(c)
    \/ \E c \in Clients : OnMessageReceived(c)
    \/ \E c \in Clients : ReceiveExact(c)
    \/ \E c \in Clients : Close(c)
    \/ Serve
    \/ Tick

Spec == Init /\ [][Next]_vars

\* The threads of the server and of the clients run, and time passes.
Progress ==
    \/ Serve
    \/ Tick
    \/ \E c \in Clients : WaitTimeout(c) \/ Retry(c)

FairSpec == Spec /\ WF_vars(Progress)

-----------------------------------------------------------------------------
CacheEntry == [response_data : Response, timestamp : Nat]

\* Type invariant of send_request_spec, the cache and the messages under way.
TypeOK ==
    /\ cache \in [DOMAIN cache -> CacheEntry]
    /\ DOMAIN cache \subseteq (Clients \cup {default_client}) \X RequestIds \X Opcodes
    /\ now \in Nat
    /\ effects \in Seq(Effect)
    /\ is_async \in BOOLEAN
    /\ sock \subseteq Clients
    /\ backlog \subseteq Clients
    /\ conn \in Clients \cup {NoClient}
    /\ phase \in [Clients -> {"IDLE", "WAITING", "PAUSED"}]
    /\ current_id \in [Clients -> RequestIds \cup {0}]
    /\ opcode \in [Clients -> Opcodes \cup {"READ"}]
    /\ retries \in [Clients -> 0..(MAX_RETRIES + 1)]
    /\ deadline \in [Clients -> Int]
    /\ call_at \in [Clients -> Nat]
    /\ answer \in [Clients -> SUBSET Response]
    /\ requests \in [Clients -> Seq(Request)]
    /\ responses \in [Clients -> Seq(Response)]

\* The handler of a request that writes is not run twice, not even if it failed,
\* however often the client repeats it and however late the copies arrive ("ensuring that L4 transport duplications
\* never result in duplicate L7 tool execution", README.md).
EffectOnce ==
    \A i, j \in 1..Len(effects) :
        /\ effects[i].client = effects[j].client
        /\ effects[i].request_id = effects[j].request_id
        => i = j

Done(c, id) ==
    \E i \in 1..Len(effects) :
        effects[i] = [client |-> c, request_id |-> id, status |-> "OK"]

\* What a call of APPEND returns is the truth about the caller's own append:
\* OK iff it was done, an error iff its handler raised, and no copy still to come
\* will do it after all.
AnswerTrue ==
    \A c \in Clients : \A r \in answer[c] :
        r.opcode = "APPEND" => (r.status = "OK" <=> Done(c, current_id[c]))

\* The same of tasks, whose entries in the cache have the client_id of nobody.
TaskAnswerTrue ==
    \A c \in Clients : \A r \in answer[c] :
        r.opcode = "TASK" => (r.status = "OK" <=> Done(c, current_id[c]))

\* Over TCP nothing but the answer to the request that waits for it is ever on
\* its way to the client: whatever went wrong with an earlier call has closed
\* the socket, so the "Request ID Mismatch" of send_request_spec never happens.
OnlyOwnAnswer ==
    ~ is_async => \A c \in Clients : \A i \in 1..Len(responses[c]) :
        i = 1 /\ Awaits(c, responses[c][i])

\* Every call returns, with an answer or an exception, although the server may
\* be busy with another connection for ever.
CallReturns == \A c \in Clients : phase[c] # "IDLE" ~> phase[c] = "IDLE"

=============================================================================
