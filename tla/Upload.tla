------------------------------- MODULE Upload -------------------------------
(***************************************************************************)
(* Clients that upload files (client/agent/handlers/upload.py: one PUT_META*)
(* and then the chunks one after the other) to the session manager of      *)
(* UploadSession, possibly several to one file.                            *)
(*                                                                         *)
(* A call is what AgentExchange shows it to be: its request takes effect at*)
(* most once, and the answer is the answer to it.  The requests of a client*)
(* arrive in order; a call may give up waiting at any time, and its request*)
(* may then still take effect, before any later request of that client.    *)
(*                                                                         *)
(* The file operations of the server may raise, having done a part of their*)
(* work.  Every name of Filenames is one that the policy guard accepts.    *)
(***************************************************************************)
EXTENDS UploadSession

CONSTANTS
    Clients,
    NoUpload,
    MaxCalls      \* bound on the calls of a client

ASSUME NoUploadAssumption == NoUpload \notin UploadIds

VARIABLES
    stage,      \* IDLE, META or CHUNK: the call the client waits for
    call,       \* number of the current call
    name,       \* remote_name
    size,       \* file_size
    upload,     \* upload_id
    offset,     \* of the chunk being sent
    result,     \* of the last upload
    requests,   \* calls on their way
    answers,    \* answers on their way (status 400: refused, 500: raised)
    target,     \* history: file of each upload
    disturbed   \* history: uploads whose file another upload has changed since

uploaderVars == <<stage, call, name, size, upload, offset, result>>
vars == <<sessions, files, used, stage, call, name, size, upload, offset,
          result, requests, answers, target, disturbed>>

Init ==
    /\ SessionInit
    /\ stage = [c \in Clients |-> "IDLE"]
    /\ call = [c \in Clients |-> 0]
    /\ name \in [Clients -> Filenames]
    /\ size = [c \in Clients |-> 0]
    /\ upload = [c \in Clients |-> NoUpload]
    /\ offset = [c \in Clients |-> 0]
    /\ result = [c \in Clients |-> "NONE"]
    /\ requests = [c \in Clients |-> <<>>]
    /\ answers = [c \in Clients |-> <<>>]
    /\ target = <<>>
    /\ disturbed = {}

-----------------------------------------------------------------------------
(***************************************************************************)
(* UploadHandler.run                                                       *)
(***************************************************************************)

Send(c, request) ==
    /\ call' = [call EXCEPT ![c] = @ + 1]
    /\ requests' = [requests EXCEPT ![c] = Append(@, [request EXCEPT !.call = call'[c]])]

MetaRequest(f, n) == [op |-> "PUT_META", call |-> 0, name |-> f, size |-> n]
ChunkRequest(u, o, len) ==
    [op |-> "PUT_CHUNK", call |-> 0, upload |-> u, offset |-> o, len |-> len]

\* validate_file refuses larger files; overwrite is always set.
Start(c, f, n) ==
    /\ stage[c] = "IDLE"
    /\ call[c] < MaxCalls
    /\ n <= MAX_FILE_SIZE
    /\ Send(c, MetaRequest(f, n))
    /\ stage' = [stage EXCEPT ![c] = "META"]
    /\ name' = [name EXCEPT ![c] = f]
    /\ size' = [size EXCEPT ![c] = n]
    /\ upload' = [upload EXCEPT ![c] = NoUpload]
    /\ result' = [result EXCEPT ![c] = "NONE"]
    /\ UNCHANGED <<sessionVars, offset, answers, target, disturbed>>

\* get_chunks: the chunk at offset o.
ChunkLen(c, o) == Min({chunk_size, size[c] - o})

Finish(c, status) ==
    /\ stage' = [stage EXCEPT ![c] = "IDLE"]
    /\ result' = [result EXCEPT ![c] = status]
    /\ UNCHANGED <<offset, call, requests>>

\* The next chunk, if there is one.
Proceed(c, u, o) ==
    IF o < size[c]
    THEN /\ Send(c, ChunkRequest(u, o, ChunkLen(c, o)))
         /\ stage' = [stage EXCEPT ![c] = "CHUNK"]
         /\ offset' = [offset EXCEPT ![c] = o]
         /\ UNCHANGED result
    ELSE Finish(c, "OK")

\* The answer to an abandoned call is discarded.
DiscardAnswer(c) ==
    /\ answers[c] # <<>>
    /\ stage[c] = "IDLE" \/ Head(answers[c]).call # call[c]
    /\ answers' = [answers EXCEPT ![c] = Tail(@)]
    /\ UNCHANGED <<sessionVars, uploaderVars, requests, target, disturbed>>

ReceiveAnswer(c) ==
    LET a == Head(answers[c])
    IN  /\ answers[c] # <<>>
        /\ stage[c] # "IDLE"
        /\ a.call = call[c]
        /\ answers' = [answers EXCEPT ![c] = Tail(@)]
        /\ IF a.status = 400 THEN Finish(c, "REJECTED") /\ UNCHANGED upload
           ELSE IF a.status = 500 THEN Finish(c, "FAILED") /\ UNCHANGED upload
           ELSE IF stage[c] = "META"
           THEN Proceed(c, a.upload, 0) /\ upload' = [upload EXCEPT ![c] = a.upload]
           ELSE Proceed(c, upload[c], offset[c] + ChunkLen(c, offset[c]))
                /\ UNCHANGED upload
        /\ UNCHANGED <<sessionVars, name, size, target, disturbed>>

\* execute raises TimeoutError; the upload fails.
GiveUp(c) ==
    /\ stage[c] # "IDLE"
    /\ Finish(c, "TIMEOUT")
    /\ UNCHANGED <<sessionVars, name, size, upload, answers, target, disturbed>>

-----------------------------------------------------------------------------
(***************************************************************************)
(* The server.                                                             *)
(***************************************************************************)

Reply(c, status, u) ==
    /\ answers' = [answers EXCEPT ![c] =
                      Append(@, [call |-> Head(requests[c]).call,
                                 status |-> status, upload |-> u])]
    /\ requests' = [requests EXCEPT ![c] = Tail(@)]
    /\ UNCHANGED uploaderVars

\* Uploads of file f other than u that exist when u changes it.
Others(u, f) == {v \in used \ {u} : target[v] = f}

Touched(u, f) ==
    disturbed' = IF files' = files THEN disturbed ELSE disturbed \cup Others(u, f)

\* Start keeps to what MetaRefused allows, so PUT_META is not refused here;
\* RefuseMeta is among the steps of MCUploadSession.
ServeMeta(c) ==
    LET r == Head(requests[c])
    IN  /\ requests[c] # <<>>
        /\ r.op = "PUT_META"
        /\ \E u \in UploadIds :
              /\ CreateSession(u, r.name, r.size, TRUE)
              /\ Reply(c, 200, u)
              /\ target' = [v \in used' |-> IF v = u THEN r.name ELSE target[v]]
              /\ disturbed' = disturbed \cup Others(u, r.name)

ServeChunk(c) ==
    LET r == Head(requests[c])
    IN  /\ requests[c] # <<>>
        /\ r.op = "PUT_CHUNK"
        /\ \/ ApplyChunk(r.upload, r.offset, r.len) /\ Reply(c, 200, r.upload)
           \/ RefuseChunk(r.upload, r.offset, r.len) /\ Reply(c, 400, r.upload)
        /\ Touched(r.upload, target[r.upload])
        /\ UNCHANGED target

\* A handler that raises, which the dispatcher answers with 500 (404 when the
\* file is not there).  The part of the file it has changed stays so.
FailRequest(c) ==
    LET r == Head(requests[c])
    IN  /\ requests[c] # <<>>
        /\ \/ /\ r.op = "PUT_META"
              /\ FailMeta(r.name, r.size, TRUE)
              /\ Reply(c, 500, NoUpload)
              /\ Touched(NoUpload, r.name)
           \/ /\ r.op = "PUT_CHUNK"
              /\ FailChunk(r.upload, r.offset, r.len)
              /\ Reply(c, 500, r.upload)
              /\ Touched(r.upload, target[r.upload])
        /\ UNCHANGED target

Next ==
    \/ \E c \in Clients, f \in Filenames, n \in 0..MAX_FILE_SIZE : Start(c, f, n)
    \/ \E c \in Clients : DiscardAnswer(c)
    \/ \E c \in Clients : ReceiveAnswer(c)
    \/ \E c \in Clients : GiveUp(c)
    \/ \E c \in Clients : ServeMeta(c)
    \/ \E c \in Clients : ServeChunk(c)
    \/ \E c \in Clients : FailRequest(c)

Spec == Init /\ [][Next]_vars

-----------------------------------------------------------------------------
\* An upload that has returned OK is on disk, whole and in place, unless another
\* upload has changed the same file since it began.  What earlier uploads left
\* behind (a longer file, a half-written one, abandoned calls still on their way)
\* does not matter.
UploadIntact ==
    \A c \in Clients :
        result[c] = "OK" /\ upload[c] \notin disturbed =>
            files[name[c]] = Bytes(upload[c], size[c])

\* The server never refuses a request of this client: the chunks of a session
\* come in the order it expects, also when several uploads share a file and
\* when calls were given up or have failed.
NeverRefused == \A c \in Clients : result[c] # "REJECTED"

=============================================================================
