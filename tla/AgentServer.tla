---------------------------- MODULE AgentServer -----------------------------
(***************************************************************************)
(* The request pipeline of server/agent_server.py (process_request) and of *)
(* agent/dispatcher.py: look the request up in the idempotency cache, run  *)
(* its handler, cache whatever it answered, errors included.               *)
(*                                                                         *)
(* The opcodes stand for the kinds of handler: "READ" (LIST, GET and the   *)
(* search task) changes nothing, "APPEND" writes and is protected only by  *)
(* the cache, "TASK" (hash-and-store, filter into a file) writes a file and*)
(* has a second cache entry of its own (handlers/task.py).  Filtering      *)
(* without an output file, which reads that entry and never writes it, is  *)
(* left out; the uploads are in UploadSession.  What a handler writes is   *)
(* abstracted to the fact that it wrote.                                   *)
(***************************************************************************)
EXTENDS IdempotencyCache, Sequences

CONSTANTS
    Clients,      \* client addresses (ip:port)
    Opcodes,      \* the opcodes in use
    RequestIds,   \* ids a client may use
    default_client

ASSUME OpcodesAssumption == Opcodes \subseteq {"READ", "APPEND", "TASK"}
ASSUME DefaultClientAssumption == default_client \notin Clients
ASSUME RequestIdsAssumption == RequestIds \subseteq Nat

VARIABLES effects   \* the handlers run so far that write: for whom, and the outcome

serverVars == <<cache, effects>>

\* A handler that returned has written.  One that raised has written nothing (no
\* such file, too large, path not allowed), a part (an append to a full disk) or
\* all (a task whose plan artifact is wanted).
Effect ==
    [client : Clients, request_id : RequestIds, status : {"OK", "ERROR"}]

\* origin is the client whose request was executed to get this answer.
Response ==
    [request_id : RequestIds, opcode : Opcodes, status : {"OK", "ERROR"},
     origin : Clients]

Answer(client_id, req, status) ==
    [request_id |-> req.request_id, opcode |-> req.opcode,
     status |-> status, origin |-> client_id]

ServerInit == CacheInit /\ effects = <<>>

RequestKey(client_id, req) == Key(client_id, req.request_id, req.opcode)

\* handle_task is called without the client's address (process_request passes
\* none to dispatch), so its own entry is always one of default_client.
TaskKey(req) == Key(default_client, req.request_id, req.opcode)

Writes(req) == req.opcode \in {"APPEND", "TASK"}

-----------------------------------------------------------------------------
(***************************************************************************)
(* process_request.  Each case leaves the response it returns in response. *)
(***************************************************************************)

\* A duplicate: the cached response, and nothing else.
Replay(client_id, req, response) ==
    /\ Hit(RequestKey(client_id, req))
    /\ response = cache[RequestKey(client_id, req)].response_data
    /\ UNCHANGED serverVars

\* The cache when the handler is called.
Looked(client_id, req) == Missed(cache, RequestKey(client_id, req))

\* handle_task finds its own entry and returns it.
TaskReplay(client_id, req, response) ==
    /\ req.opcode = "TASK"
    /\ Hit(TaskKey(req))
    /\ response = cache[TaskKey(req)].response_data
    /\ cache' = Stored(Looked(client_id, req), RequestKey(client_id, req),
                       response)
    /\ UNCHANGED effects

\* The cache when the handler has done its work: a task with side effects
\* stores its response itself.
HandlerStored(client_id, req, response) ==
    IF req.opcode = "TASK"
    THEN Stored(Looked(client_id, req), TaskKey(req), response)
    ELSE Looked(client_id, req)

Recorded(client_id, req, status) ==
    IF Writes(req)
    THEN Append(effects, [client |-> client_id, request_id |-> req.request_id,
                          status |-> status])
    ELSE effects

\* The handler does its work and process_request stores the response.
Perform(client_id, req, response) ==
    /\ response = Answer(client_id, req, "OK")
    /\ cache' = Stored(HandlerStored(client_id, req, response),
                       RequestKey(client_id, req), response)
    /\ effects' = Recorded(client_id, req, "OK")

\* Mutant: errors are not cached.
FailUncached(client_id, req, response) ==
    /\ response = Answer(client_id, req, "ERROR")
    /\ cache' = Looked(client_id, req)
    /\ effects' = Recorded(client_id, req, "ERROR")

\* The handler raises; the error is cached like any other response.
Fail(client_id, req, response) ==
    /\ response = Answer(client_id, req, "ERROR")
    /\ cache' =
         LET looked == IF req.opcode = "TASK"
                       THEN Missed(Looked(client_id, req), TaskKey(req))
                       ELSE Looked(client_id, req)
         IN  Stored(looked, RequestKey(client_id, req), response)
    /\ effects' = Recorded(client_id, req, "ERROR")

Dispatch(client_id, req, response) ==
    \/ TaskReplay(client_id, req, response)
    \/ /\ ~ (req.opcode = "TASK" /\ Hit(TaskKey(req)))
       /\ Perform(client_id, req, response) \/ Fail(client_id, req, response)

\* Mutant: the result is not looked up first.
ProcessRequestUncached(client_id, req, response) ==
    Dispatch(client_id, req, response)

ProcessRequest(client_id, req, response) ==
    \/ Replay(client_id, req, response)
    \/ /\ ~ Hit(RequestKey(client_id, req))
       /\ Dispatch(client_id, req, response)

=============================================================================
