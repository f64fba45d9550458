-------------------------- MODULE CliSessionProofs --------------------------
(***************************************************************************)
(* A session of the interactive client, for every set of ports, opcodes    *)
(* and lifetimes and any number of connections, requests and replays: no   *)
(* request is written twice at one address while its answer is cached, and *)
(* what the client shows on a port of its own is true.                     *)
(*                                                                         *)
(* Two requests can share an id (a new AgentClient counts from 1 again), so*)
(* the invariant is about the numbers the user's requests have in the      *)
(* history.  The first property needs that whoever holds a copy of a       *)
(* request that was written also finds its answer in the cache, or one that*)
(* has expired.  The second needs that nothing the server keeps is older   *)
(* than a connection on a new port, so that on such a connection an id     *)
(* stands for one request.                                                 *)
(***************************************************************************)
EXTENDS CliSession, FiniteSetTheorems, SequenceTheorems, TLAPS

Call == [request_id : Nat, opcode : Opcodes, uid : Nat, copies : Nat]

\* The ports of all connections so far.
Visited == {used[i] : i \in 1..Len(used)}

\* Whatever may still be sent or processed: the call under way, the remembered
\* one, and the packets on their way.
Issued == call \cup last \cup requests

SameCall(c, d) ==
    c.uid = d.uid /\ c.request_id = d.request_id /\ c.opcode = d.opcode

\* Only addresses that were connected have packets, and only a client that is
\* connected has a call under way.
Located ==
    /\ used \in Seq(Clients)
    /\ port \in Visited \cup {NoPort}
    /\ port = NoPort => call = {}
    /\ \A q \in requests : q.port \in Visited
    /\ \A r \in responses : r.port \in Visited

\* What is recorded of a handler run.
Run == [client : Clients, request_id : Nat, status : {"OK", "ERROR"}]

SessionTypeOK ==
    /\ now \in Nat
    /\ calls \in Nat
    /\ current_id \in Nat
    /\ call \subseteq Call
    /\ last \subseteq Call
    /\ \A q \in requests : q.uid \in Nat /\ q.request_id \in Nat /\ q.opcode \in Opcodes
    /\ \A r \in responses : r.response.request_id \in Nat
    /\ done \in Seq([uid : Nat, at : Nat])
    /\ effects \in Seq(Run)
    /\ Len(done) = Len(effects)

\* The cached answers are those of the ids they are filed under.
CacheOK ==
    \A a \in Clients \cup {default_client}, id \in Nat, op \in Opcodes :
        Key(a, id, op) \in DOMAIN cache =>
            /\ a \in Visited \cup {default_client}
            /\ cache[Key(a, id, op)].timestamp \in 0..now
            /\ cache[Key(a, id, op)].response_data.request_id = id

\* The number of a request determines it.
OneRequest ==
    /\ \A c \in Issued : c.uid <= calls
    /\ \A c, d \in Issued : c.uid = d.uid => SameCall(c, d)

\* A request that was written has an answer in the cache since, for as long as
\* there is a copy of it.
AnswerKept ==
    \A i \in 1..Len(done) :
        /\ done[i].uid <= calls
        /\ \A c \in Issued : c.uid = done[i].uid =>
              /\ c.request_id = effects[i].request_id
              /\ Key(effects[i].client, c.request_id, c.opcode) \in DOMAIN cache
              /\ done[i].at <=
                   cache[Key(effects[i].client, c.request_id, c.opcode)].timestamp

\* Of these, the ones of the present connection.  Before it has sent a request
\* of its own the remembered one belongs to an earlier connection.
Own == call \cup {c \in last : current_id > 0} \cup {q \in requests : q.port = port}

Did(u) == \E i \in 1..Len(done) : done[i].uid = u /\ effects[i].status = "OK"

\* On the present connection an id stands for one request...
OwnIds ==
    \A c \in Own :
        /\ c.request_id <= current_id
        /\ \A d \in Own : c.request_id = d.request_id => SameCall(c, d)

\* ... and neither the cache ...
OwnCache ==
    \A id \in Nat, op \in Opcodes :
        Key(port, id, op) \in DOMAIN cache =>
            /\ id <= current_id
            /\ op = "APPEND" /\ cache[Key(port, id, op)].response_data.status = "OK" =>
                  \A c \in Own : c.request_id = id /\ c.opcode = op => Did(c.uid)

\* ... nor an answer on its way says of an append that it was done when it was
\* not.
OwnResponses ==
    \A r \in responses : r.port = port =>
        /\ r.response.request_id <= current_id
        /\ r.response.status = "OK" =>
              \A c \in Own :
                  c.request_id = r.response.request_id /\ c.opcode = "APPEND" =>
                      Did(c.uid)

OwnOK == Fresh /\ ~ foreign => OwnIds /\ OwnCache /\ OwnResponses

WriteInv == OneRequest /\ AnswerKept /\ RepeatedOnlyElsewhere

SessionCore == SessionTypeOK /\ Located /\ CacheOK /\ WriteInv /\ OwnOK

SessionInv == SessionCore /\ OwnResult

-----------------------------------------------------------------------------
(***************************************************************************)
(* One call of process_request.                                            *)
(***************************************************************************)

LEMMA KeysDiffer ==
    ASSUME NEW a, NEW id, NEW op, NEW b, NEW jd, NEW oq,
           Key(a, id, op) = Key(b, jd, oq)
    PROVE  a = b /\ id = jd /\ op = oq
  BY DEF Key

\* Storing puts the response under its key and leaves the other entries.
LEMMA StoredEntries ==
    ASSUME NEW c, NEW k, NEW r
    PROVE  /\ DOMAIN Stored(c, k, r) = DOMAIN c \cup {k}
           /\ Stored(c, k, r)[k] = [response_data |-> r, timestamp |-> now]
           /\ \A j \in DOMAIN c \ {k} : Stored(c, k, r)[j] = c[j]
  BY DEF Stored

LEMMA MissedEntries ==
    ASSUME NEW c, NEW k
    PROVE  /\ DOMAIN Missed(c, k) = DOMAIN c \ {k}
           /\ \A j \in DOMAIN c \ {k} : Missed(c, k)[j] = c[j]
  BY DEF Missed, Restrict

\* The cache after a request was processed: the response under rk, and of the
\* other entries at most the one under tk changed.
Refiled(rk, tk, response) ==
    /\ rk \in DOMAIN cache'
    /\ cache'[rk] = [response_data |-> response, timestamp |-> now]
    /\ \A k : k # rk /\ k # tk =>
          /\ k \in DOMAIN cache' <=> k \in DOMAIN cache
          /\ k \in DOMAIN cache => cache'[k] = cache[k]
    /\ tk \in DOMAIN cache' =>
          \/ cache'[tk] = [response_data |-> response, timestamp |-> now]
          \/ tk \in DOMAIN cache /\ cache'[tk] = cache[tk]

LEMMA DispatchRefiles ==
    ASSUME NEW a \in Clients, NEW req, NEW response, Dispatch(a, req, response)
    PROVE  Refiled(RequestKey(a, req), TaskKey(req), response)
<1> DEFINE rk == RequestKey(a, req)
           tk == TaskKey(req)
           lk == Missed(cache, rk)
<1>1. rk # tk
  BY KeysDiffer, DefaultClientAssumption DEF RequestKey, TaskKey
<1>2. /\ DOMAIN lk = DOMAIN cache \ {rk}
      /\ \A j \in DOMAIN cache \ {rk} : lk[j] = cache[j]
  BY MissedEntries
<1> HIDE DEF rk, tk, lk
<1>3. PICK c : /\ cache' = Stored(c, rk, response)
               /\ c \in {lk, Stored(lk, tk, response), Missed(lk, tk)}
  <2>1. CASE TaskReplay(a, req, response)
    BY <2>1 DEF TaskReplay, Looked, rk, lk
  <2>2. CASE Perform(a, req, response)
    BY <2>2 DEF Perform, HandlerStored, Looked, rk, tk, lk
  <2>3. CASE Fail(a, req, response)
    BY <2>3 DEF Fail, Looked, rk, tk, lk
  <2> QED BY <2>1, <2>2, <2>3 DEF Dispatch
<1>4. /\ DOMAIN cache' = DOMAIN c \cup {rk}
      /\ cache'[rk] = [response_data |-> response, timestamp |-> now]
      /\ \A j \in DOMAIN c \ {rk} : cache'[j] = c[j]
  <2>1. \A x : /\ DOMAIN Stored(c, rk, x) = DOMAIN c \cup {rk}
               /\ Stored(c, rk, x)[rk] = [response_data |-> x, timestamp |-> now]
               /\ \A j \in DOMAIN c \ {rk} : Stored(c, rk, x)[j] = c[j]
    BY StoredEntries
  <2> QED BY <1>3, <2>1, Zenon
<1>5. CASE c = lk
  BY <1>1, <1>2, <1>4, <1>5, Zenon DEF Refiled, rk, tk
<1>6. CASE c = Stored(lk, tk, response)
  <2>1. /\ DOMAIN c = DOMAIN lk \cup {tk}
        /\ c[tk] = [response_data |-> response, timestamp |-> now]
        /\ \A j \in DOMAIN lk \ {tk} : c[j] = lk[j]
    <3>1. \A x : /\ DOMAIN Stored(lk, tk, x) = DOMAIN lk \cup {tk}
                 /\ Stored(lk, tk, x)[tk] = [response_data |-> x, timestamp |-> now]
                 /\ \A j \in DOMAIN lk \ {tk} : Stored(lk, tk, x)[j] = lk[j]
      BY StoredEntries
    <3> QED BY <1>6, <3>1, Zenon
  <2> QED BY <1>1, <1>2, <1>4, <2>1, Zenon DEF Refiled, rk, tk
<1>7. CASE c = Missed(lk, tk)
  <2>1. /\ DOMAIN c = DOMAIN lk \ {tk}
        /\ \A j \in DOMAIN lk \ {tk} : c[j] = lk[j]
    BY <1>7, MissedEntries
  <2> QED BY <1>1, <1>2, <1>4, <2>1, Zenon DEF Refiled, rk, tk
<1> QED BY <1>3, <1>5, <1>6, <1>7

RunOf(a, req, status) ==
    [client |-> a, request_id |-> req.request_id, status |-> status]

\* The response is the one that is cached, or the request was executed, or
\* refused, or answered by the task's own entry, and the response is cached now.
Processed(a, req, response) ==
    /\ response.request_id = req.request_id
    /\ \/ /\ UNCHANGED serverVars
          /\ Hit(RequestKey(a, req))
          /\ response = cache[RequestKey(a, req)].response_data
       \/ /\ ~ Hit(RequestKey(a, req))
          /\ Refiled(RequestKey(a, req), TaskKey(req), response)
          /\ \/ /\ response.status \in {"OK", "ERROR"}
                /\ effects' = Append(effects, RunOf(a, req, response.status))
             \/ effects' = effects /\ req.opcode # "APPEND"

LEMMA ProcessRequestIs ==
    ASSUME NEW a \in Clients, NEW req, req.request_id \in Nat, req.opcode \in Opcodes,
           NEW response, CacheOK, ProcessRequest(a, req, response)
    PROVE  Processed(a, req, response)
<1>1. CASE Replay(a, req, response)
  <2>1. cache[RequestKey(a, req)].response_data.request_id = req.request_id
    BY <1>1 DEF Replay, Hit, RequestKey, CacheOK
  <2> QED BY <1>1, <2>1, Zenon DEF Replay, Processed
<1>2. CASE ~ Hit(RequestKey(a, req)) /\ Dispatch(a, req, response)
  <2>1. Refiled(RequestKey(a, req), TaskKey(req), response)
    BY <1>2, DispatchRefiles
  <2>2. CASE TaskReplay(a, req, response)
    <3>1. cache[TaskKey(req)].response_data.request_id = req.request_id
      BY <2>2 DEF TaskReplay, Hit, TaskKey, CacheOK
    <3>2. req.opcode # "APPEND"
      BY <2>2 DEF TaskReplay
    <3> QED BY <1>2, <2>1, <2>2, <3>1, <3>2, Zenon DEF TaskReplay, Processed
  <2>3. CASE Perform(a, req, response)
    <3>1. response.request_id = req.request_id /\ response.status = "OK"
      BY <2>3 DEF Perform, Answer
    <3>2. \/ effects' = Append(effects, RunOf(a, req, response.status))
          \/ effects' = effects /\ req.opcode # "APPEND"
      BY <2>3, <3>1 DEF Perform, Recorded, RunOf, Writes
    <3> QED BY <1>2, <2>1, <3>1, <3>2, Zenon DEF Processed
  <2>4. CASE Fail(a, req, response)
    <3>1. response.request_id = req.request_id /\ response.status = "ERROR"
      BY <2>4 DEF Fail, Answer
    <3>2. \/ effects' = Append(effects, RunOf(a, req, response.status))
          \/ effects' = effects /\ req.opcode # "APPEND"
      BY <2>4, <3>1 DEF Fail, Recorded, RunOf, Writes
    <3> QED BY <1>2, <2>1, <3>1, <3>2, Zenon DEF Processed
  <2> QED BY <1>2, <2>2, <2>3, <2>4 DEF Dispatch
<1> QED BY <1>1, <1>2 DEF ProcessRequest

\* No entry of a client is lost, and none becomes older.
Kept(c, id, op) ==
    Key(c, id, op) \in DOMAIN cache =>
        /\ Key(c, id, op) \in DOMAIN cache'
        /\ cache[Key(c, id, op)].timestamp <= cache'[Key(c, id, op)].timestamp

LEMMA EntriesKept ==
    ASSUME NEW a \in Clients, NEW req, NEW response, Processed(a, req, response),
           CacheOK, now \in Nat,
           NEW c \in Clients, NEW id \in Nat, NEW op \in Opcodes
    PROVE  Kept(c, id, op)
<1> SUFFICES ASSUME Key(c, id, op) \in DOMAIN cache
             PROVE  /\ Key(c, id, op) \in DOMAIN cache'
                    /\ cache[Key(c, id, op)].timestamp <= cache'[Key(c, id, op)].timestamp
  BY DEF Kept
<1>1. PICK k : k = Key(c, id, op)
  OBVIOUS
<1>2. k \in DOMAIN cache /\ cache[k].timestamp \in Nat /\ cache[k].timestamp <= now
  BY <1>1 DEF CacheOK
<1>3. k # TaskKey(req)
  BY <1>1, KeysDiffer, DefaultClientAssumption DEF TaskKey
<1>4. CASE UNCHANGED serverVars
  BY <1>1, <1>2, <1>4 DEF serverVars
<1>5. CASE Refiled(RequestKey(a, req), TaskKey(req), response)
  <2>1. CASE k = RequestKey(a, req)
    <3>1. k \in DOMAIN cache' /\ cache'[k].timestamp = now
      BY <1>5, <2>1 DEF Refiled
    <3> QED BY <1>1, <1>2, <3>1
  <2>2. CASE k # RequestKey(a, req)
    <3>1. k \in DOMAIN cache' /\ cache'[k] = cache[k]
      BY <1>2, <1>3, <1>5, <2>2, Zenon DEF Refiled
    <3> QED BY <1>1, <1>2, <3>1
  <2> QED BY <2>1, <2>2
<1> QED BY <1>4, <1>5 DEF Processed

LEMMA CacheOKKept ==
    ASSUME NEW a \in Visited, NEW req, NEW response, Processed(a, req, response),
           req.request_id \in Nat, CacheOK, now \in Nat,
           UNCHANGED <<used, now>>
    PROVE  CacheOK'
<1> SUFFICES ASSUME NEW b \in Clients \cup {default_client}, NEW id \in Nat,
                    NEW op \in Opcodes, Key(b, id, op) \in DOMAIN cache'
             PROVE  /\ b \in Visited' \cup {default_client}
                    /\ cache'[Key(b, id, op)].timestamp \in 0..now'
                    /\ cache'[Key(b, id, op)].response_data.request_id = id
  BY DEF CacheOK
<1>1. PICK k : k = Key(b, id, op)
  OBVIOUS
<1>2. Visited' = Visited
  BY DEF Visited
<1>3. k \in DOMAIN cache =>
        /\ b \in Visited \cup {default_client}
        /\ cache[k].timestamp \in 0..now
        /\ cache[k].response_data.request_id = id
  BY <1>1 DEF CacheOK
<1>4. CASE k \in DOMAIN cache /\ cache'[k] = cache[k]
  BY <1>1, <1>2, <1>3, <1>4
<1>5. CASE /\ cache'[k] = [response_data |-> response, timestamp |-> now]
           /\ k \in {RequestKey(a, req), TaskKey(req)}
  <2>1. id = req.request_id /\ b \in {a, default_client}
    BY <1>1, <1>5, KeysDiffer DEF RequestKey, TaskKey
  <2>2. response.request_id = id
    BY <2>1 DEF Processed
  <2>3. cache'[k].timestamp = now /\ cache'[k].response_data = response
    BY <1>5
  <2>4. now \in 0..now /\ now' = now
    OBVIOUS
  <2> QED BY <1>1, <1>2, <2>1, <2>2, <2>3, <2>4
<1>6. CASE UNCHANGED serverVars
  BY <1>1, <1>4, <1>6 DEF serverVars
<1>7. CASE Refiled(RequestKey(a, req), TaskKey(req), response)
  BY <1>1, <1>4, <1>5, <1>7, Zenon DEF Refiled
<1> QED BY <1>6, <1>7 DEF Processed

-----------------------------------------------------------------------------
(***************************************************************************)
(* Writes: no request is repeated while its answer is cached.              *)
(***************************************************************************)

LEMMA DoneFields ==
    ASSUME SessionTypeOK
    PROVE  /\ Len(done) \in Nat /\ Len(effects) = Len(done)
           /\ \A i \in 1..Len(done) : /\ done[i].uid \in Nat /\ done[i].at \in Nat
                                      /\ effects[i].client \in Clients
                                      /\ effects[i].request_id \in Nat
<1> DEFINE R == [uid : Nat, at : Nat]
           E == Run
<1>1. done \in Seq(R) /\ effects \in Seq(E) /\ Len(done) = Len(effects)
  BY DEF SessionTypeOK
<1> HIDE DEF R, E
<1>2. /\ Len(done) \in Nat
      /\ \A i \in 1..Len(done) : done[i] \in R
      /\ \A i \in 1..Len(effects) : effects[i] \in E
  BY <1>1
<1> QED BY <1>1, <1>2 DEF R, E, Run

\* A step that writes nothing and issues copies of known calls only.
LEMMA WritesQuiet ==
    ASSUME WriteInv, UNCHANGED <<cache, effects, done, calls>>,
           \A c \in Issued' : \E d \in Issued : SameCall(c, d)
    PROVE  WriteInv'
<1>1. RepeatedOnlyElsewhere'
  BY DEF WriteInv, RepeatedOnlyElsewhere
<1>2. OneRequest'
  <2> SUFFICES ASSUME NEW c \in Issued'
               PROVE  /\ c.uid <= calls
                      /\ \A d \in Issued' : c.uid = d.uid => SameCall(c, d)
    BY DEF OneRequest
  <2>1. PICK x \in Issued : SameCall(c, x)
    OBVIOUS
  <2>2. c.uid <= calls
    BY <2>1, Zenon DEF WriteInv, OneRequest, SameCall
  <2>3. ASSUME NEW d \in Issued', c.uid = d.uid PROVE SameCall(c, d)
    <3>1. PICK y \in Issued : SameCall(d, y)
      OBVIOUS
    <3>2. SameCall(x, y)
      <4>1. x.uid = y.uid
        BY <2>1, <2>3, <3>1, Zenon DEF SameCall
      <4> QED BY <4>1, Zenon DEF WriteInv, OneRequest
    <3> QED BY <2>1, <3>1, <3>2, Zenon DEF SameCall
  <2> QED BY <2>2, <2>3
<1>3. AnswerKept'
  <2> SUFFICES ASSUME NEW i \in 1..Len(done)
               PROVE  /\ done[i].uid <= calls
                      /\ \A c \in Issued' : c.uid = done[i].uid =>
                            /\ c.request_id = effects[i].request_id
                            /\ Key(effects[i].client, c.request_id, c.opcode) \in DOMAIN cache
                            /\ done[i].at <=
                                 cache[Key(effects[i].client, c.request_id, c.opcode)].timestamp
    BY Zenon DEF AnswerKept
  <2>1. done[i].uid <= calls
    BY DEF WriteInv, AnswerKept
  <2>2. ASSUME NEW c \in Issued', c.uid = done[i].uid
        PROVE  /\ c.request_id = effects[i].request_id
               /\ Key(effects[i].client, c.request_id, c.opcode) \in DOMAIN cache
               /\ done[i].at <=
                    cache[Key(effects[i].client, c.request_id, c.opcode)].timestamp
    <3>1. PICK x \in Issued : SameCall(c, x)
      OBVIOUS
    <3>2. x.uid = done[i].uid /\ x.request_id = c.request_id /\ x.opcode = c.opcode
      BY <2>2, <3>1, Zenon DEF SameCall
    <3>3. /\ x.request_id = effects[i].request_id
          /\ Key(effects[i].client, x.request_id, x.opcode) \in DOMAIN cache
          /\ done[i].at <=
               cache[Key(effects[i].client, x.request_id, x.opcode)].timestamp
      BY <3>2, Zenon DEF WriteInv, AnswerKept
    <3> QED BY <3>2, <3>3, Zenon
  <2> QED BY <2>1, <2>2, Zenon
<1> QED BY <1>1, <1>2, <1>3 DEF WriteInv

\* A new request has a number that none has had.
LEMMA WritesNew ==
    ASSUME WriteInv, SessionTypeOK, UNCHANGED <<cache, effects, done>>,
           calls' = calls + 1,
           \A c \in Issued : c.uid \in Nat,
           NEW new, new.uid = calls + 1,
           \A c \in Issued' : SameCall(c, new) \/ \E d \in Issued : SameCall(c, d)
    PROVE  WriteInv'
<1>1. RepeatedOnlyElsewhere'
  BY DEF WriteInv, RepeatedOnlyElsewhere
<1>2. calls \in Nat /\ \A i \in 1..Len(done) : done[i].uid \in Nat
  BY DoneFields DEF SessionTypeOK
<1>3. /\ \A c \in Issued : c.uid <= calls
      /\ \A i \in 1..Len(done) : done[i].uid <= calls
  BY DEF WriteInv, OneRequest, AnswerKept
<1>4. ASSUME NEW c, NEW x \in Issued, SameCall(c, x)
      PROVE  ~ (c.uid = calls + 1) /\ c.uid <= calls + 1
  BY <1>2, <1>3, <1>4 DEF SameCall
<1>5. OneRequest'
  <2>1. \A c \in Issued' : c.uid <= calls'
    <3> SUFFICES ASSUME NEW c \in Issued' PROVE c.uid <= calls + 1
      BY Zenon
    <3>1. CASE SameCall(c, new)
      BY <3>1, <1>2 DEF SameCall
    <3> QED BY <3>1, <1>4
  <2>2. ASSUME NEW c \in Issued', NEW d \in Issued', c.uid = d.uid
        PROVE  SameCall(c, d)
    <3>1. CASE SameCall(c, new) /\ SameCall(d, new)
      BY <3>1, Zenon DEF SameCall
    <3>2. ASSUME NEW x \in Issued, SameCall(c, x), SameCall(d, new) PROVE FALSE
      BY <2>2, <3>2, <1>4, Zenon DEF SameCall
    <3>3. ASSUME NEW x \in Issued, SameCall(d, x), SameCall(c, new) PROVE FALSE
      BY <2>2, <3>3, <1>4, Zenon DEF SameCall
    <3>4. ASSUME NEW x \in Issued, NEW y \in Issued, SameCall(c, x), SameCall(d, y)
          PROVE  SameCall(c, d)
      <4>1. SameCall(x, y)
        <5>1. x.uid = y.uid
          BY <2>2, <3>4, Zenon DEF SameCall
        <5> QED BY <5>1, Zenon DEF WriteInv, OneRequest
      <4> QED BY <3>4, <4>1, Zenon DEF SameCall
    <3> QED BY <3>1, <3>2, <3>3, <3>4, Zenon
  <2> QED BY <2>1, <2>2 DEF OneRequest
<1>6. AnswerKept'
  <2> SUFFICES ASSUME NEW i \in 1..Len(done)
               PROVE  /\ done[i].uid <= calls + 1
                      /\ \A c \in Issued' : c.uid = done[i].uid =>
                            /\ c.request_id = effects[i].request_id
                            /\ Key(effects[i].client, c.request_id, c.opcode) \in DOMAIN cache
                            /\ done[i].at <=
                                 cache[Key(effects[i].client, c.request_id, c.opcode)].timestamp
    BY Zenon DEF AnswerKept
  <2>1. done[i].uid <= calls + 1 /\ done[i].uid # calls + 1
    BY <1>2, <1>3
  <2>2. ASSUME NEW c \in Issued', c.uid = done[i].uid
        PROVE  /\ c.request_id = effects[i].request_id
               /\ Key(effects[i].client, c.request_id, c.opcode) \in DOMAIN cache
               /\ done[i].at <=
                    cache[Key(effects[i].client, c.request_id, c.opcode)].timestamp
    <3>1. PICK x \in Issued : SameCall(c, x)
      BY <2>1, <2>2, Zenon DEF SameCall
    <3>2. x.uid = done[i].uid /\ x.request_id = c.request_id /\ x.opcode = c.opcode
      BY <2>2, <3>1, Zenon DEF SameCall
    <3>3. /\ x.request_id = effects[i].request_id
          /\ Key(effects[i].client, x.request_id, x.opcode) \in DOMAIN cache
          /\ done[i].at <=
               cache[Key(effects[i].client, x.request_id, x.opcode)].timestamp
      BY <3>2, Zenon DEF WriteInv, AnswerKept
    <3> QED BY <3>2, <3>3, Zenon
  <2> QED BY <2>1, <2>2, Zenon
<1> QED BY <1>1, <1>5, <1>6 DEF WriteInv

\* The server takes a request from the network and processes it.
Taken(p, response) ==
    /\ p \in requests
    /\ p.port \in Visited
    /\ Processed(p.port, p, response)
    /\ requests' = requests \ {p}
    /\ done' = IF effects' = effects THEN done
               ELSE Append(done, [uid |-> p.uid, at |-> now])
    /\ UNCHANGED <<now, calls, call, last, used, port, current_id, foreign, result>>

\* What it writes is the last of the writes, and the others stay.
Written(p, status) ==
    /\ Len(done') = Len(done) + 1
    /\ Len(effects') = Len(done) + 1
    /\ \A i \in 1..Len(done) : done'[i] = done[i] /\ effects'[i] = effects[i]
    /\ done'[Len(done) + 1] = [uid |-> p.uid, at |-> now]
    /\ effects'[Len(done) + 1] = RunOf(p.port, p, status)

LEMMA TakenWrites ==
    ASSUME NEW p, NEW response, Taken(p, response), SessionTypeOK, Visited \subseteq Clients
    PROVE  /\ done' \in Seq([uid : Nat, at : Nat])
           /\ effects' \in Seq(Run)
           /\ \/ UNCHANGED <<done, effects>>
              \/ Written(p, response.status) /\ effects' # effects
<1> DEFINE R == [uid : Nat, at : Nat]
           E == Run
           x == [uid |-> p.uid, at |-> now]
           e == RunOf(p.port, p, response.status)
<1>1. done \in Seq(R) /\ effects \in Seq(E) /\ Len(effects) = Len(done)
  BY DEF SessionTypeOK
<1>2. x \in R /\ (response.status \in {"OK", "ERROR"} => e \in E)
  BY DEF SessionTypeOK, Taken, Run, RunOf
<1>3. \/ effects' = effects
      \/ effects' = Append(effects, e) /\ response.status \in {"OK", "ERROR"}
  BY DEF Taken, Processed, serverVars
<1>4. done' = IF effects' = effects THEN done ELSE Append(done, x)
  BY DEF Taken
<1> HIDE DEF R, E, x, e
<1>5. CASE effects' = effects
  BY <1>1, <1>4, <1>5 DEF R, E
<1>6. CASE effects' # effects
  <2>1. effects' = Append(effects, e) /\ done' = Append(done, x) /\ e \in E
    BY <1>2, <1>3, <1>4, <1>6
  <2>2. /\ done' \in Seq(R) /\ Len(done') = Len(done) + 1
        /\ \A i \in 1..Len(done) : done'[i] = done[i]
        /\ done'[Len(done) + 1] = x
    BY <1>1, <1>2, <2>1
  <2>3. /\ effects' \in Seq(E) /\ Len(effects') = Len(effects) + 1
        /\ \A i \in 1..Len(effects) : effects'[i] = effects[i]
        /\ effects'[Len(effects) + 1] = e
    BY <1>1, <1>2, <2>1
  <2>4. Written(p, response.status)
    BY <1>1, <2>2, <2>3, Zenon DEF Written, x, e
  <2> QED BY <1>6, <2>2, <2>3, <2>4, Zenon DEF R, E
<1> QED BY <1>5, <1>6

\* A write that was done before keeps its answer.
LEMMA OldAnswersKept ==
    ASSUME NEW p, NEW response, Taken(p, response), SessionTypeOK, CacheOK, AnswerKept,
           Visited \subseteq Clients, NEW i \in 1..Len(done), NEW c \in Issued,
           c.uid = done[i].uid, c.request_id \in Nat, c.opcode \in Opcodes
    PROVE  /\ c.request_id = effects[i].request_id
           /\ Key(effects[i].client, c.request_id, c.opcode) \in DOMAIN cache'
           /\ done[i].at <=
                cache'[Key(effects[i].client, c.request_id, c.opcode)].timestamp
<1>1. PICK k : k = Key(effects[i].client, c.request_id, c.opcode)
  OBVIOUS
<1>2. /\ c.request_id = effects[i].request_id
      /\ k \in DOMAIN cache /\ done[i].at <= cache[k].timestamp
  BY <1>1, Zenon DEF AnswerKept
<1>3. effects[i].client \in Clients /\ done[i].at \in Nat
  BY DoneFields
<1>4. Kept(effects[i].client, c.request_id, c.opcode)
  <2>1. p.port \in Clients /\ Processed(p.port, p, response) /\ now \in Nat
    BY DEF Taken, SessionTypeOK
  <2> QED BY <1>3, <2>1, EntriesKept
<1>5. k \in DOMAIN cache' /\ cache[k].timestamp <= cache'[k].timestamp
  BY <1>1, <1>2, <1>4 DEF Kept
<1>6. cache[k].timestamp \in Nat
  BY <1>1, <1>2, <1>3 DEF CacheOK
<1>7. cache'[k].timestamp \in Nat
  <2>1. CacheOK'
    <3>1. /\ p.port \in Visited /\ p.request_id \in Nat /\ Processed(p.port, p, response)
          /\ now \in Nat /\ UNCHANGED <<used, now>>
      BY DEF Taken, SessionTypeOK
    <3> QED BY <3>1, CacheOKKept
  <2>2. now' \in Nat
    BY DEF Taken, SessionTypeOK
  <2> QED BY <1>1, <1>3, <1>5, <2>1, <2>2 DEF CacheOK
<1>8. done[i].at <= cache'[k].timestamp
  BY <1>2, <1>3, <1>5, <1>6, <1>7
<1> QED BY <1>1, <1>2, <1>5, <1>8

\* The server repeats a write only when the answer of the first has expired.
LEMMA WritesTaken ==
    ASSUME NEW p, NEW response, Taken(p, response), SessionTypeOK, CacheOK, WriteInv,
           Visited \subseteq Clients,
           \A c \in Issued : c.uid \in Nat /\ c.request_id \in Nat /\ c.opcode \in Opcodes
    PROVE  WriteInv'
<1>1. Issued' \subseteq Issued /\ p \in Issued /\ calls' = calls
  BY DEF Issued, Taken
<1>2. /\ \A c \in Issued : c.uid <= calls
      /\ \A c, d \in Issued : c.uid = d.uid => SameCall(c, d)
      /\ AnswerKept /\ RepeatedOnlyElsewhere
  BY DEF WriteInv, OneRequest
<1>3. OneRequest'
  BY <1>1, <1>2, Zenon DEF OneRequest
<1>4. \A i \in 1..Len(done) : \A c \in Issued' : c.uid = done[i].uid =>
          /\ c.request_id = effects[i].request_id
          /\ Key(effects[i].client, c.request_id, c.opcode) \in DOMAIN cache'
          /\ done[i].at <=
               cache'[Key(effects[i].client, c.request_id, c.opcode)].timestamp
  BY <1>1, <1>2, OldAnswersKept
<1>5. \A i \in 1..Len(done) : done[i].uid <= calls
  BY <1>2 DEF AnswerKept
<1>6. CASE UNCHANGED <<done, effects>>
  <2>1. RepeatedOnlyElsewhere'
    BY <1>2, <1>6 DEF RepeatedOnlyElsewhere
  <2>2. AnswerKept'
    BY <1>1, <1>4, <1>5, <1>6, Zenon DEF AnswerKept
  <2> QED BY <1>3, <2>1, <2>2 DEF WriteInv
<1>7. CASE Written(p, response.status) /\ effects' # effects
  <2> DEFINE n == Len(done)
             rk == RequestKey(p.port, p)
  <2>1. /\ ~ Hit(rk)
        /\ rk \in DOMAIN cache' /\ cache'[rk].timestamp = now
    <3>1. ~ UNCHANGED serverVars
      BY <1>7 DEF serverVars
    <3>2. ~ Hit(rk) /\ Refiled(rk, TaskKey(p), response)
      BY <3>1 DEF Taken, Processed
    <3>3. cache'[rk] = [response_data |-> response, timestamp |-> now]
      BY <3>2 DEF Refiled
    <3> QED BY <3>2, <3>3 DEF Refiled
  <2>2. /\ n \in Nat /\ Len(done') = n + 1 /\ Len(effects') = n + 1
        /\ \A i \in 1..n : done'[i] = done[i] /\ effects'[i] = effects[i]
        /\ done'[n + 1].uid = p.uid /\ done'[n + 1].at = now
        /\ effects'[n + 1].client = p.port /\ effects'[n + 1].request_id = p.request_id
    BY <1>7, DoneFields DEF Written, RunOf
  <2>3. \A i \in 1..Len(done') : i \in 1..n \/ i = n + 1
    BY <2>2
  <2> HIDE DEF n
  <2>4. AnswerKept'
    <3> SUFFICES ASSUME NEW i \in 1..Len(done')
                 PROVE  /\ done'[i].uid <= calls'
                        /\ \A c \in Issued' : c.uid = done'[i].uid =>
                              /\ c.request_id = effects'[i].request_id
                              /\ Key(effects'[i].client, c.request_id, c.opcode) \in DOMAIN cache'
                              /\ done'[i].at <=
                                   cache'[Key(effects'[i].client, c.request_id, c.opcode)].timestamp
      BY Zenon DEF AnswerKept
    <3>1. CASE i \in 1..n
      <4>1. done'[i] = done[i] /\ effects'[i] = effects[i]
        BY <2>2, <3>1
      <4> QED BY <1>1, <1>4, <1>5, <3>1, <4>1, Zenon DEF n
    <3>2. CASE i = n + 1
      <4>1. done'[i].uid <= calls'
        BY <1>1, <1>2, <2>2, <3>2, Zenon
      <4>2. ASSUME NEW c \in Issued', c.uid = done'[i].uid
            PROVE  /\ c.request_id = effects'[i].request_id
                   /\ Key(effects'[i].client, c.request_id, c.opcode) \in DOMAIN cache'
                   /\ done'[i].at <=
                        cache'[Key(effects'[i].client, c.request_id, c.opcode)].timestamp
        <5>1. SameCall(c, p)
          BY <1>1, <1>2, <2>2, <3>2, <4>2, Zenon
        <5>2. c.request_id = p.request_id /\ c.opcode = p.opcode
          BY <5>1 DEF SameCall
        <5>3. Key(effects'[i].client, c.request_id, c.opcode) = rk
          BY <2>2, <3>2, <5>2, Zenon DEF RequestKey
        <5>4. done'[i].at <= cache'[rk].timestamp
          BY <2>1, <2>2, <3>2 DEF SessionTypeOK
        <5> QED BY <2>1, <2>2, <3>2, <5>2, <5>3, <5>4, Zenon
      <4> QED BY <4>1, <4>2, Zenon
    <3> QED BY <2>3, <3>1, <3>2
  <2>5. RepeatedOnlyElsewhere'
    <3> SUFFICES ASSUME NEW i \in 1..Len(done'), NEW j \in 1..Len(done'),
                        i < j, done'[i].uid = done'[j].uid,
                        effects'[i].client = effects'[j].client
                 PROVE  done'[j].at - done'[i].at >= IDEMPOTENCY_TTL
      BY Zenon DEF RepeatedOnlyElsewhere
    <3>1. CASE j \in 1..n
      <4>1. i \in 1..n
        BY <2>2, <3>1
      <4>2. done'[i] = done[i] /\ effects'[i] = effects[i]
            /\ done'[j] = done[j] /\ effects'[j] = effects[j]
        BY <2>2, <3>1, <4>1
      <4> QED BY <1>2, <3>1, <4>1, <4>2 DEF RepeatedOnlyElsewhere, n
    <3>2. CASE j = n + 1
      <4>1. i \in 1..n
        BY <2>2, <2>3, <3>2
      <4>2. done[i].uid = p.uid /\ effects[i].client = p.port
        BY <2>2, <3>2, <4>1
      <4>3. /\ rk \in DOMAIN cache /\ done[i].at <= cache[rk].timestamp
        BY <1>1, <1>2, <4>1, <4>2, Zenon DEF AnswerKept, RequestKey, n
      <4>4. cache[rk].timestamp \in Nat
        <5>1. p.port \in Clients /\ p.request_id \in Nat /\ p.opcode \in Opcodes
          BY <1>1 DEF Taken
        <5> QED BY <4>3, <5>1 DEF RequestKey, CacheOK
      <4>5. now - cache[rk].timestamp >= IDEMPOTENCY_TTL
        <5>1. ~ (now - cache[rk].timestamp < IDEMPOTENCY_TTL)
          BY <2>1, <4>3 DEF Hit
        <5>2. now \in Nat
          BY DEF SessionTypeOK
        <5> QED BY <4>4, <5>1, <5>2, TTLAssumption
      <4>6. done[i].at \in Nat /\ now \in Nat
        BY <4>1, DoneFields DEF SessionTypeOK, n
      <4>7. now - done[i].at >= IDEMPOTENCY_TTL
        BY <4>3, <4>4, <4>5, <4>6, TTLAssumption
      <4> QED BY <2>2, <3>2, <4>1, <4>7
    <3> QED BY <2>3, <3>1, <3>2
  <2> QED BY <1>3, <2>4, <2>5 DEF WriteInv
<1> QED BY <1>6, <1>7, TakenWrites

-----------------------------------------------------------------------------
(***************************************************************************)
(* Results: what the client shows on a port of its own.                    *)
(***************************************************************************)

\* A session without a connection is on no port of its own.
LEMMA FreshIsConnected ==
    ASSUME Located, Fresh
    PROVE  port \in Visited /\ port \in Clients
<1>1. used \in Seq(Clients) /\ port \in Visited \cup {NoPort}
  BY DEF Located
<1>2. \A i \in 1..Len(used) : used[i] \in Clients
  BY <1>1
<1>3. Visited \subseteq Clients
  BY <1>2 DEF Visited
<1>4. port # NoPort
  <2> SUFFICES ASSUME port = NoPort PROVE FALSE
    OBVIOUS
  <2>1. {i \in 1..Len(used) : used[i] = port} = {}
    BY <1>2, NoPortAssumption
  <2> QED BY <2>1, FS_EmptySet DEF Fresh
<1> QED BY <1>1, <1>3, <1>4

\* A connection that makes its port a port of its own is the first on it.
LEMMA FreshIsNew ==
    ASSUME used \in Seq(Clients), NEW p \in Clients, used' = Append(used, p),
           port' = p, Fresh'
    PROVE  p \notin Visited
<1> SUFFICES ASSUME NEW j \in 1..Len(used), used[j] = p PROVE FALSE
  BY DEF Visited
<1> DEFINE T == {i \in 1..Len(used') : used'[i] = p}
<1>1. /\ Len(used) \in Nat /\ Len(used') = Len(used) + 1
      /\ \A i \in 1..Len(used) : used'[i] = used[i]
      /\ used'[Len(used) + 1] = p
  OBVIOUS
<1>2. j \in T /\ Len(used) + 1 \in T /\ j # Len(used) + 1
  BY <1>1
<1>3. IsFiniteSet(T)
  <2>1. IsFiniteSet(1..Len(used'))
    BY <1>1, FS_Interval
  <2> QED BY <2>1, FS_Subset
<1>4. Cardinality(T) = 1
  BY DEF Fresh
<1> HIDE DEF T
<1>5. PICK x : T = {x}
  BY <1>3, <1>4, FS_Singleton
<1> QED BY <1>2, <1>5

\* A step that writes nothing, answers nothing and issues copies of the present
\* connection's calls only.
LEMMA OwnQuiet ==
    ASSUME OwnOK, UNCHANGED <<port, used, cache, effects, done>>,
           current_id \in Nat, current_id' \in Nat, current_id <= current_id',
           \A c \in Own : c.request_id \in Nat,
           \A r \in responses : r.response.request_id \in Nat,
           responses' \subseteq responses,
           ~ foreign' => /\ ~ foreign
                         /\ \A c \in Own' : \E d \in Own : SameCall(c, d)
    PROVE  OwnOK'
<1> SUFFICES ASSUME Fresh', ~ foreign'
             PROVE  OwnIds' /\ OwnCache' /\ OwnResponses'
  BY DEF OwnOK
<1>1. Fresh /\ ~ foreign
  BY DEF Fresh
<1>2. OwnIds /\ OwnCache /\ OwnResponses
  BY <1>1 DEF OwnOK
<1>3. \A c \in Own' : \E d \in Own : SameCall(c, d)
  OBVIOUS
<1>4. \A u : Did(u)' <=> Did(u)
  BY DEF Did
<1>5. OwnIds'
  <2> SUFFICES ASSUME NEW c \in Own'
               PROVE  /\ c.request_id <= current_id'
                      /\ \A d \in Own' : c.request_id = d.request_id => SameCall(c, d)
    BY DEF OwnIds
  <2>1. PICK x \in Own : SameCall(c, x)
    BY <1>3
  <2>2. c.request_id <= current_id'
    <3>1. c.request_id = x.request_id /\ x.request_id <= current_id /\ x.request_id \in Nat
      BY <1>2, <2>1 DEF OwnIds, SameCall
    <3> QED BY <3>1
  <2>3. ASSUME NEW d \in Own', c.request_id = d.request_id PROVE SameCall(c, d)
    <3>1. PICK y \in Own : SameCall(d, y)
      BY <1>3
    <3>2. x.request_id = y.request_id
      BY <2>1, <2>3, <3>1, Zenon DEF SameCall
    <3>3. SameCall(x, y)
      BY <1>2, <3>2, Zenon DEF OwnIds
    <3> QED BY <2>1, <3>1, <3>3, Zenon DEF SameCall
  <2> QED BY <2>2, <2>3
<1>6. ASSUME NEW id, NEW op,
             \A d \in Own : d.request_id = id /\ d.opcode = op => Did(d.uid)
      PROVE  \A c \in Own' : c.request_id = id /\ c.opcode = op => Did(c.uid)'
  BY <1>3, <1>4, <1>6, Zenon DEF SameCall
<1>7. OwnCache'
  <2> SUFFICES ASSUME NEW id \in Nat, NEW op \in Opcodes, Key(port, id, op) \in DOMAIN cache
               PROVE  /\ id <= current_id'
                      /\ op = "APPEND" /\ cache[Key(port, id, op)].response_data.status = "OK" =>
                            \A c \in Own' : c.request_id = id /\ c.opcode = op => Did(c.uid)'
    BY Zenon DEF OwnCache
  <2>1. /\ id <= current_id
        /\ op = "APPEND" /\ cache[Key(port, id, op)].response_data.status = "OK" =>
              \A c \in Own : c.request_id = id /\ c.opcode = op => Did(c.uid)
    BY <1>2, Zenon DEF OwnCache
  <2>2. id <= current_id'
    BY <2>1
  <2> QED BY <1>6, <2>1, <2>2, Zenon
<1>8. OwnResponses'
  <2> SUFFICES ASSUME NEW r \in responses', r.port = port
               PROVE  /\ r.response.request_id <= current_id'
                      /\ r.response.status = "OK" =>
                            \A c \in Own' :
                                c.request_id = r.response.request_id /\ c.opcode = "APPEND" =>
                                    Did(c.uid)'
    BY Zenon DEF OwnResponses
  <2>1. r \in responses
    OBVIOUS
  <2>2. /\ r.response.request_id <= current_id
        /\ r.response.status = "OK" =>
              \A c \in Own :
                  c.request_id = r.response.request_id /\ c.opcode = "APPEND" => Did(c.uid)
    BY <1>2, <2>1, Zenon DEF OwnResponses
  <2>3. r.response.request_id <= current_id'
    BY <2>1, <2>2
  <2> QED BY <1>6, <2>2, <2>3, Zenon
<1> QED BY <1>5, <1>7, <1>8

\* A new request takes an id that the connection has not used.
LEMMA OwnNew ==
    ASSUME OwnOK, UNCHANGED <<port, used, cache, effects, done, responses, foreign>>,
           current_id \in Nat, current_id' = current_id + 2,
           \A c \in Own : c.request_id \in Nat,
           \A r \in responses : r.response.request_id \in Nat,
           NEW new, new.request_id = current_id + 1,
           \A c \in Own' : SameCall(c, new) \/ \E d \in Own : SameCall(c, d)
    PROVE  OwnOK'
<1> SUFFICES ASSUME Fresh', ~ foreign'
             PROVE  OwnIds' /\ OwnCache' /\ OwnResponses'
  BY DEF OwnOK
<1>1. Fresh /\ ~ foreign
  BY DEF Fresh
<1>2. OwnIds /\ OwnCache /\ OwnResponses
  BY <1>1 DEF OwnOK
<1>3. \A u : Did(u)' <=> Did(u)
  BY DEF Did
<1>4. ASSUME NEW c, NEW x \in Own, SameCall(c, x)
      PROVE  c.request_id \in Nat /\ c.request_id <= current_id
  BY <1>2, <1>4 DEF OwnIds, SameCall
<1>5. ASSUME NEW id \in Nat, id <= current_id, NEW c \in Own', c.request_id = id
      PROVE  \E d \in Own : SameCall(c, d)
  <2>1. ~ SameCall(c, new)
    BY <1>5 DEF SameCall
  <2> QED BY <2>1
<1>6. OwnIds'
  <2> SUFFICES ASSUME NEW c \in Own'
               PROVE  /\ c.request_id <= current_id'
                      /\ \A d \in Own' : c.request_id = d.request_id => SameCall(c, d)
    BY DEF OwnIds
  <2>1. CASE SameCall(c, new)
    <3>1. c.request_id = current_id + 1
      BY <2>1 DEF SameCall
    <3>2. ASSUME NEW d \in Own', c.request_id = d.request_id PROVE SameCall(c, d)
      <4>1. ASSUME NEW y \in Own, SameCall(d, y) PROVE FALSE
        <5>1. d.request_id \in Nat /\ d.request_id <= current_id
          BY <1>4, <4>1
        <5> QED BY <3>1, <3>2, <5>1
      <4>2. SameCall(d, new)
        BY <4>1, Zenon
      <4> QED BY <2>1, <4>2, Zenon DEF SameCall
    <3>3. c.request_id <= current_id'
      BY <3>1
    <3> QED BY <3>2, <3>3
  <2>2. ASSUME NEW x \in Own, SameCall(c, x)
        PROVE  /\ c.request_id <= current_id'
               /\ \A d \in Own' : c.request_id = d.request_id => SameCall(c, d)
    <3>1. c.request_id \in Nat /\ c.request_id <= current_id
      BY <1>4, <2>2
    <3>2. c.request_id <= current_id'
      BY <3>1
    <3>3. ASSUME NEW d \in Own', c.request_id = d.request_id PROVE SameCall(c, d)
      <4>1. PICK y \in Own : SameCall(d, y)
        BY <1>5, <3>1, <3>3
      <4>2. x.request_id = y.request_id
        BY <2>2, <3>3, <4>1, Zenon DEF SameCall
      <4>3. SameCall(x, y)
        BY <1>2, <4>2, Zenon DEF OwnIds
      <4> QED BY <2>2, <4>1, <4>3, Zenon DEF SameCall
    <3> QED BY <3>2, <3>3
  <2> QED BY <2>1, <2>2
<1>7. ASSUME NEW id \in Nat, id <= current_id, NEW op,
             \A d \in Own : d.request_id = id /\ d.opcode = op => Did(d.uid)
      PROVE  /\ id <= current_id'
             /\ \A c \in Own' : c.request_id = id /\ c.opcode = op => Did(c.uid)'
  <2>1. id <= current_id'
    BY <1>7
  <2>2. \A c \in Own' : c.request_id = id => \E d \in Own : SameCall(c, d)
    BY <1>5, <1>7
  <2>3. ASSUME NEW c \in Own', c.request_id = id, c.opcode = op PROVE Did(c.uid)'
    <3>1. PICK d \in Own : SameCall(c, d)
      BY <2>2, <2>3
    <3>2. d.request_id = id /\ d.opcode = op /\ d.uid = c.uid
      BY <2>3, <3>1, Zenon DEF SameCall
    <3>3. Did(d.uid)
      BY <1>7, <3>2, Zenon
    <3> QED BY <1>3, <3>2, <3>3, Zenon
  <2> QED BY <2>1, <2>3
<1>8. OwnCache'
  <2> SUFFICES ASSUME NEW id \in Nat, NEW op \in Opcodes, Key(port, id, op) \in DOMAIN cache
               PROVE  /\ id <= current_id'
                      /\ op = "APPEND" /\ cache[Key(port, id, op)].response_data.status = "OK" =>
                            \A c \in Own' : c.request_id = id /\ c.opcode = op => Did(c.uid)'
    BY Zenon DEF OwnCache
  <2>1. /\ id <= current_id
        /\ op = "APPEND" /\ cache[Key(port, id, op)].response_data.status = "OK" =>
              \A c \in Own : c.request_id = id /\ c.opcode = op => Did(c.uid)
    BY <1>2, Zenon DEF OwnCache
  <2>2. id <= current_id'
    BY <2>1
  <2> QED BY <1>7, <2>1, <2>2, Zenon
<1>9. OwnResponses'
  <2> SUFFICES ASSUME NEW r \in responses, r.port = port
               PROVE  /\ r.response.request_id <= current_id'
                      /\ r.response.status = "OK" =>
                            \A c \in Own' :
                                c.request_id = r.response.request_id /\ c.opcode = "APPEND" =>
                                    Did(c.uid)'
    BY Zenon DEF OwnResponses
  <2>1. /\ r.response.request_id <= current_id /\ r.response.request_id \in Nat
        /\ r.response.status = "OK" =>
              \A c \in Own :
                  c.request_id = r.response.request_id /\ c.opcode = "APPEND" => Did(c.uid)
    BY <1>2, Zenon DEF OwnResponses
  <2>2. r.response.request_id <= current_id'
    BY <2>1
  <2> QED BY <1>7, <2>1, <2>2, Zenon
<1> QED BY <1>6, <1>8, <1>9

\* A new connection: a port that none was on has nothing.
LEMMA OwnConnect ==
    ASSUME Located, CacheOK, NEW p \in Clients, used' = Append(used, p), port' = p,
           call' = {}, current_id' = 0, UNCHANGED <<requests, responses, cache>>
    PROVE  OwnOK'
<1> SUFFICES ASSUME Fresh' PROVE OwnIds' /\ OwnCache' /\ OwnResponses'
  BY DEF OwnOK
<1>1. p \notin Visited
  BY FreshIsNew DEF Located
<1>2. \A c : c \notin Own'
  BY <1>1 DEF Own, Located
<1>3. OwnIds'
  BY <1>2 DEF OwnIds
<1>4. OwnCache'
  <2> SUFFICES ASSUME NEW id \in Nat, NEW op \in Opcodes, Key(p, id, op) \in DOMAIN cache
               PROVE  FALSE
    BY Zenon DEF OwnCache
  <2> QED BY <1>1, DefaultClientAssumption DEF CacheOK
<1>5. OwnResponses'
  BY <1>1, Zenon DEF OwnResponses, Located
<1> QED BY <1>3, <1>4, <1>5

LEMMA DidKept ==
    ASSUME NEW p, NEW response, Taken(p, response), SessionTypeOK, Visited \subseteq Clients,
           NEW u, Did(u)
    PROVE  Did(u)'
<1>1. PICK i \in 1..Len(done) : done[i].uid = u /\ effects[i].status = "OK"
  BY DEF Did
<1>2. CASE UNCHANGED <<done, effects>>
  BY <1>1, <1>2 DEF Did
<1>3. CASE Written(p, response.status)
  <2>1. i \in 1..Len(done') /\ done'[i] = done[i] /\ effects'[i] = effects[i]
    BY <1>3, DoneFields DEF Written
  <2> QED BY <1>1, <2>1 DEF Did
<1> QED BY <1>2, <1>3, TakenWrites

\* OK for an append of the present connection, executed now or before.
LEMMA AppendDone ==
    ASSUME NEW p, NEW response, Taken(p, response), SessionTypeOK, Visited \subseteq Clients,
           p.port = port, response.status = "OK", OwnIds, OwnCache,
           p.request_id \in Nat, p.opcode \in Opcodes,
           NEW c \in Own, c.request_id = p.request_id, c.opcode = "APPEND"
    PROVE  Did(c.uid)'
<1>1. p \in Own
  BY DEF Own, Taken
<1>2. c.uid = p.uid /\ p.opcode = "APPEND"
  BY <1>1, Zenon DEF OwnIds, SameCall
<1>3. Processed(p.port, p, response)
  BY DEF Taken
<1>4. CASE Hit(RequestKey(p.port, p)) /\ response = cache[RequestKey(p.port, p)].response_data
  <2>1. RequestKey(p.port, p) = Key(port, p.request_id, p.opcode)
    BY DEF RequestKey
  <2>2. Did(c.uid)
    BY <1>2, <1>4, <2>1, Zenon DEF OwnCache, Hit
  <2> QED BY <2>2, DidKept
<1>5. CASE effects' = Append(effects, RunOf(p.port, p, response.status))
  <2>1. effects' # effects
    <3>1. PICK E, e : effects \in Seq(E) /\ e = RunOf(p.port, p, response.status)
      BY DEF SessionTypeOK
    <3>2. effects' = Append(effects, e)
      BY <1>5, <3>1
    <3> QED BY <3>1, <3>2
  <2>2. Written(p, response.status)
    BY <2>1, TakenWrites
  <2>3. /\ Len(done) + 1 \in 1..Len(done')
        /\ done'[Len(done) + 1].uid = p.uid
        /\ effects'[Len(done) + 1].status = "OK"
    BY <2>2, DoneFields DEF Written, RunOf
  <2> QED BY <1>2, <2>3, Zenon DEF Did
<1>6. CASE p.opcode # "APPEND"
  BY <1>2, <1>6
<1> QED BY <1>3, <1>4, <1>5, <1>6 DEF Processed

LEMMA OwnTaken ==
    ASSUME NEW p, NEW response, Taken(p, response), SessionTypeOK, CacheOK, OwnOK, Located,
           Visited \subseteq Clients, p.request_id \in Nat, p.opcode \in Opcodes,
           NEW s, responses' = responses \cup {[port |-> p.port, seq |-> s,
                                                response |-> response]}
    PROVE  OwnOK'
<1> SUFFICES ASSUME Fresh', ~ foreign'
             PROVE  OwnIds' /\ OwnCache' /\ OwnResponses'
  BY DEF OwnOK
<1>1. Fresh /\ ~ foreign
  BY DEF Fresh, Taken
<1>2. OwnIds /\ OwnCache /\ OwnResponses
  BY <1>1 DEF OwnOK
<1>3. Own' \subseteq Own /\ port' = port /\ current_id' = current_id
  BY DEF Own, Taken
<1>4. port \in Clients
  BY <1>1, FreshIsConnected
<1>5. \A u : Did(u) => Did(u)'
  BY DidKept
<1>6. p.port = port => p.request_id <= current_id
  BY <1>2 DEF OwnIds, Own, Taken
<1>7. p.port = port /\ response.status = "OK" =>
        \A c \in Own : c.request_id = p.request_id /\ c.opcode = "APPEND" => Did(c.uid)'
  BY <1>2, AppendDone
<1>8. Processed(p.port, p, response) /\ response.request_id = p.request_id
  BY DEF Taken, Processed
<1>9. OwnIds'
  BY <1>2, <1>3, Zenon DEF OwnIds
<1>10. OwnCache'
  <2> SUFFICES ASSUME NEW id \in Nat, NEW op \in Opcodes, Key(port, id, op) \in DOMAIN cache'
               PROVE  /\ id <= current_id
                      /\ op = "APPEND" /\ cache'[Key(port, id, op)].response_data.status = "OK" =>
                            \A c \in Own' : c.request_id = id /\ c.opcode = op => Did(c.uid)'
    BY <1>3, Zenon DEF OwnCache
  <2>1. PICK k : k = Key(port, id, op)
    OBVIOUS
  <2>2. k \in DOMAIN cache =>
          /\ id <= current_id
          /\ op = "APPEND" /\ cache[k].response_data.status = "OK" =>
                \A c \in Own : c.request_id = id /\ c.opcode = op => Did(c.uid)
    BY <1>2, <2>1, Zenon DEF OwnCache
  <2>3. CASE k \in DOMAIN cache /\ cache'[k] = cache[k]
    BY <1>3, <1>5, <2>1, <2>2, <2>3, Zenon
  <2>4. CASE k = RequestKey(p.port, p) /\ cache'[k].response_data = response
    <3>1. p.port = port /\ id = p.request_id /\ op = p.opcode
      <4>1. Key(port, id, op) = Key(p.port, p.request_id, p.opcode)
        BY <2>1, <2>4, Zenon DEF RequestKey
      <4> QED BY <4>1, KeysDiffer
    <3> QED BY <1>3, <1>6, <1>7, <2>1, <2>4, <3>1, Zenon
  <2>5. CASE UNCHANGED serverVars
    BY <2>1, <2>3, <2>5 DEF serverVars
  <2>6. CASE Refiled(RequestKey(p.port, p), TaskKey(p), response)
    <3>1. k # TaskKey(p)
      BY <1>4, <2>1, KeysDiffer, DefaultClientAssumption DEF TaskKey
    <3>2. CASE k = RequestKey(p.port, p)
      <4>1. cache'[k].response_data = response
        BY <2>6, <3>2 DEF Refiled
      <4> QED BY <2>4, <3>2, <4>1
    <3>3. CASE k # RequestKey(p.port, p)
      BY <2>1, <2>3, <2>6, <3>1, <3>3, Zenon DEF Refiled
    <3> QED BY <3>2, <3>3
  <2> QED BY <1>8, <2>5, <2>6 DEF Processed
<1>11. OwnResponses'
  <2> SUFFICES ASSUME NEW r \in responses', r.port = port
               PROVE  /\ r.response.request_id <= current_id
                      /\ r.response.status = "OK" =>
                            \A c \in Own' :
                                c.request_id = r.response.request_id /\ c.opcode = "APPEND" =>
                                    Did(c.uid)'
    BY <1>3, Zenon DEF OwnResponses
  <2>1. CASE r \in responses
    <3>1. /\ r.response.request_id <= current_id
          /\ r.response.status = "OK" =>
                \A c \in Own :
                    c.request_id = r.response.request_id /\ c.opcode = "APPEND" => Did(c.uid)
      BY <1>2, <2>1, Zenon DEF OwnResponses
    <3> QED BY <1>3, <1>5, <3>1, Zenon
  <2>2. CASE r = [port |-> p.port, seq |-> s, response |-> response]
    <3>1. r.response = response /\ p.port = port
      BY <2>2
    <3> QED BY <1>3, <1>6, <1>7, <1>8, <3>1, Zenon
  <2> QED BY <2>1, <2>2
<1> QED BY <1>9, <1>10, <1>11

-----------------------------------------------------------------------------
(***************************************************************************)
(* The steps of the session.                                               *)
(***************************************************************************)

LEMMA CoreTypes ==
    ASSUME SessionCore
    PROVE  /\ Visited \subseteq Clients
           /\ \A c \in Issued : c.uid \in Nat /\ c.request_id \in Nat /\ c.opcode \in Opcodes
           /\ \A c \in Own : c \in Issued
           /\ \A r \in responses : r.response.request_id \in Nat
           /\ calls \in Nat /\ current_id \in Nat /\ now \in Nat
           /\ call \subseteq Call /\ last \subseteq Call
<1>1. SessionTypeOK /\ used \in Seq(Clients)
  BY DEF SessionCore, Located
<1>2. \A i \in 1..Len(used) : used[i] \in Clients
  BY <1>1
<1>3. Visited \subseteq Clients
  BY <1>2 DEF Visited
<1>4. \A c \in Call : c.uid \in Nat /\ c.request_id \in Nat /\ c.opcode \in Opcodes
  BY DEF Call
<1>5. \A c \in Issued : c.uid \in Nat /\ c.request_id \in Nat /\ c.opcode \in Opcodes
  BY <1>1, <1>4 DEF Issued, SessionTypeOK
<1>6. \A c \in Own : c \in Issued
  BY DEF Own, Issued
<1> QED BY <1>1, <1>3, <1>5, <1>6 DEF SessionTypeOK

LEMMA CacheQuiet ==
    ASSUME CacheOK, cache' = cache, Visited \subseteq Visited',
           now \in Nat, now' \in Nat, now <= now'
    PROVE  CacheOK'
<1>1. \A x \in 0..now : x \in 0..now'
  OBVIOUS
<1> QED BY <1>1, Zenon DEF CacheOK

\* What is on the wire and remembered is well-formed after the step.
IssuedOK ==
    /\ call' \subseteq Call
    /\ last' \subseteq Call
    /\ \A q \in requests' : /\ q.uid \in Nat /\ q.request_id \in Nat /\ q.opcode \in Opcodes
                            /\ q.port \in Visited

\* A step of the client that connects to no port and makes no new request.
LEMMA QuietStep ==
    ASSUME SessionCore, UNCHANGED <<cache, effects, done, calls, used>>, IssuedOK,
           now' \in Nat, now <= now', current_id' \in Nat, current_id <= current_id',
           port' \in {port, NoPort}, port' = NoPort => call' = {},
           responses' \subseteq responses,
           \A c \in Issued' : \E d \in Issued : SameCall(c, d),
           port' = port /\ ~ foreign' =>
               ~ foreign /\ \A c \in Own' : \E d \in Own : SameCall(c, d)
    PROVE  SessionCore'
<1>1. /\ SessionTypeOK /\ Located /\ CacheOK /\ WriteInv /\ OwnOK
      /\ Visited' = Visited
  BY DEF SessionCore, Visited
<1>2. SessionTypeOK'
  BY <1>1 DEF SessionTypeOK, IssuedOK
<1>3. Located'
  BY <1>1 DEF Located, IssuedOK
<1>4. CacheOK'
  BY <1>1, CacheQuiet DEF SessionTypeOK
<1>5. WriteInv'
  BY <1>1, WritesQuiet
<1>6. OwnOK'
  <2>1. CASE port' = port
    <3>1. ~ foreign' => ~ foreign /\ \A c \in Own' : \E d \in Own : SameCall(c, d)
      BY <2>1
    <3>2. /\ \A c \in Own : c.request_id \in Nat
          /\ \A r \in responses : r.response.request_id \in Nat
          /\ current_id \in Nat
      BY CoreTypes
    <3> QED BY <1>1, <2>1, <3>1, <3>2, OwnQuiet
  <2>2. CASE port' = NoPort
    <3>1. ~ Fresh'
      <4>1. used' \in Seq(Clients)
        BY <1>3 DEF Located
      <4>2. {i \in 1..Len(used') : used'[i] = port'} = {}
        BY <2>2, <4>1, NoPortAssumption
      <4> QED BY <4>2, FS_EmptySet DEF Fresh
    <3> QED BY <3>1 DEF OwnOK
  <2> QED BY <2>1, <2>2
<1> QED BY <1>2, <1>3, <1>4, <1>5, <1>6 DEF SessionCore

\* A copy of a call is the same call.
LEMMA SendCopies ==
    ASSUME NEW c \in Call, Send(c)
    PROVE  /\ call' \subseteq Call
           /\ \A x \in call' : SameCall(x, c)
           /\ \A q \in requests' : q \in requests \/ (q.port = port /\ SameCall(q, c))
<1> DEFINE d == [c EXCEPT !.copies = @ + 1]
<1>1. d \in Call /\ d.uid = c.uid /\ d.request_id = c.request_id /\ d.opcode = c.opcode
  BY DEF Call
<1>2. call' = {d}
  BY DEF Send
<1>3. PICK s : requests' = requests \cup
          {[port |-> port, seq |-> s, request_id |-> c.request_id,
            opcode |-> c.opcode, uid |-> c.uid]}
  BY DEF Send
<1> HIDE DEF d
<1>4. \A q \in requests' : q \in requests \/ (q.port = port /\ SameCall(q, c))
  BY <1>3 DEF SameCall
<1> QED BY <1>1, <1>2, <1>4 DEF SameCall

\* A result that was shown stays true.
LEMMA ResultKept ==
    ASSUME OwnResult, result' \subseteq result, \A u : Did(u) => Did(u)'
    PROVE  OwnResult'
<1>1. \A r : True(r) <=> (r.opcode = "APPEND" /\ r.status = "OK" => Did(r.uid))
  BY DEF True, Did
<1>2. \A r : True(r)' <=> (r.opcode = "APPEND" /\ r.status = "OK" => Did(r.uid)')
  BY DEF True, Did
<1> QED BY <1>1, <1>2, Zenon DEF OwnResult

LEMMA DidSame ==
    ASSUME UNCHANGED <<effects, done>>
    PROVE  \A u : Did(u) => Did(u)'
  BY DEF Did

LEMMA ConnectStep ==
    ASSUME SessionCore, NEW p \in Clients, ActionConnect(p)
    PROVE  SessionCore'
<1>1. /\ call' = {} /\ current_id' = 0 /\ port' = p /\ used' = Append(used, p)
      /\ UNCHANGED <<cache, now, effects, last, call, requests, responses, calls, done>>
  BY DEF ActionConnect, AtPrompt, NewTransport
<1>2. SessionTypeOK /\ Located /\ CacheOK /\ WriteInv
  BY DEF SessionCore
<1>3. /\ used' \in Seq(Clients) /\ Len(used) \in Nat /\ Len(used') = Len(used) + 1
      /\ \A i \in 1..Len(used) : used'[i] = used[i]
      /\ used'[Len(used) + 1] = p
  <2>1. used \in Seq(Clients)
    BY <1>2 DEF Located
  <2> QED BY <1>1, <2>1
<1>4. Visited \subseteq Visited' /\ p \in Visited'
  <2>1. \A i \in 1..Len(used) : i \in 1..Len(used')
    BY <1>3
  <2>2. Len(used) + 1 \in 1..Len(used')
    BY <1>3
  <2> QED BY <1>3, <2>1, <2>2, Zenon DEF Visited
<1>5. SessionTypeOK'
  BY <1>1, <1>2 DEF SessionTypeOK
<1>6. Located'
  <2>1. \A q \in requests : q.port \in Visited'
    BY <1>2, <1>4 DEF Located
  <2>2. \A r \in responses : r.port \in Visited'
    BY <1>2, <1>4 DEF Located
  <2> QED BY <1>1, <1>3, <1>4, <2>1, <2>2 DEF Located
<1>7. CacheOK'
  <2>1. now \in Nat
    BY <1>2 DEF SessionTypeOK
  <2> QED BY <1>1, <1>2, <1>4, <2>1, CacheQuiet
<1>8. WriteInv'
  <2>1. \A c \in Issued' : \E d \in Issued : SameCall(c, d)
    BY <1>1 DEF Issued, SameCall
  <2> QED BY <1>1, <1>2, <2>1, WritesQuiet
<1>9. OwnOK'
  BY <1>1, <1>2, OwnConnect
<1> QED BY <1>5, <1>6, <1>7, <1>8, <1>9 DEF SessionCore

LEMMA NewRequestStep ==
    ASSUME SessionCore, NEW op \in Opcodes, NewRequest(op)
    PROVE  SessionCore'
<1>1. PICK new : new = [request_id |-> current_id + 1, opcode |-> op, uid |-> calls + 1,
                        copies |-> 0]
  OBVIOUS
<1>2. /\ Send(new) /\ last' = {new} /\ call = {} /\ port # NoPort
      /\ calls' = calls + 1 /\ current_id' = current_id + 2
  BY <1>1 DEF NewRequest, AtPrompt, CheckConn
<1>3. UNCHANGED <<cache, now, effects, port, used, foreign, responses, done>>
  BY DEF NewRequest, linkVars
<1>4. /\ calls \in Nat /\ current_id \in Nat /\ now \in Nat
      /\ \A c \in Issued : c.uid \in Nat /\ c.request_id \in Nat /\ c.opcode \in Opcodes
      /\ \A c \in Own : c \in Issued
      /\ \A r \in responses : r.response.request_id \in Nat
  BY CoreTypes
<1>5. /\ new \in Call /\ new.uid = calls + 1 /\ new.request_id = current_id + 1
      /\ new.uid \in Nat /\ new.request_id \in Nat /\ new.opcode \in Opcodes
  BY <1>1, <1>4 DEF Call
<1>6. /\ call' \subseteq Call
      /\ \A x \in call' : SameCall(x, new)
      /\ \A q \in requests' : q \in requests \/ (q.port = port /\ SameCall(q, new))
  BY <1>2, <1>5, SendCopies
<1>7. SameCall(new, new)
  BY DEF SameCall
<1>8. /\ SessionTypeOK /\ Located /\ CacheOK /\ WriteInv /\ OwnOK
      /\ Visited' = Visited
  BY <1>3 DEF SessionCore, Visited
<1>9. SessionTypeOK'
  <2>1. \A q \in requests' : q.uid \in Nat /\ q.request_id \in Nat /\ q.opcode \in Opcodes
    BY <1>4, <1>5, <1>6, Zenon DEF Issued, SameCall
  <2>2. last' \subseteq Call /\ calls' \in Nat /\ current_id' \in Nat
    BY <1>2, <1>4, <1>5
  <2> QED BY <1>3, <1>6, <1>8, <2>1, <2>2 DEF SessionTypeOK
<1>10. Located'
  <2>1. port \in Visited
    BY <1>2, <1>8 DEF Located
  <2>2. \A q \in requests' : q.port \in Visited
    BY <1>6, <1>8, <2>1, Zenon DEF Located
  <2> QED BY <1>2, <1>3, <1>8, <2>2 DEF Located
<1>11. CacheOK'
  BY <1>3, <1>4, <1>8, CacheQuiet
<1>12. WriteInv'
  <2>1. \A c \in Issued' : SameCall(c, new) \/ \E d \in Issued : SameCall(c, d)
    <3> SUFFICES ASSUME NEW c \in Issued'
                 PROVE  SameCall(c, new) \/ \E d \in Issued : SameCall(c, d)
      OBVIOUS
    <3>1. c \in requests \/ SameCall(c, new)
      BY <1>2, <1>6, <1>7 DEF Issued
    <3> QED BY <3>1, Zenon DEF Issued, SameCall
  <2> QED BY <1>2, <1>3, <1>4, <1>5, <1>8, <2>1, WritesNew
<1>13. OwnOK'
  <2>1. \A c \in Own' : SameCall(c, new) \/ \E d \in Own : SameCall(c, d)
    <3> SUFFICES ASSUME NEW c \in Own'
                 PROVE  SameCall(c, new) \/ \E d \in Own : SameCall(c, d)
      OBVIOUS
    <3>1. (c \in requests /\ c.port = port) \/ SameCall(c, new)
      BY <1>2, <1>3, <1>6, <1>7 DEF Own
    <3>2. SameCall(c, c)
      BY DEF SameCall
    <3> QED BY <3>1, <3>2 DEF Own
  <2> QED BY <1>2, <1>3, <1>4, <1>5, <1>8, <2>1, OwnNew
<1> QED BY <1>9, <1>10, <1>11, <1>12, <1>13 DEF SessionCore

\* A retry or a replay sends a copy of a call that is known.
LEMMA SendStep ==
    ASSUME SessionCore, NEW c \in Issued, c \in Call, Send(c), port # NoPort,
           UNCHANGED <<cache, effects, done, calls, used, now, port, last, responses>>,
           current_id' \in Nat, current_id <= current_id',
           ~ foreign' => ~ foreign /\ c \in Own /\ (current_id' > 0 => current_id > 0)
    PROVE  SessionCore'
<1>1. /\ call' \subseteq Call
      /\ \A x \in call' : SameCall(x, c)
      /\ \A q \in requests' : q \in requests \/ (q.port = port /\ SameCall(q, c))
  BY SendCopies
<1>2. /\ now \in Nat /\ last \subseteq Call
      /\ \A d \in Issued : d.uid \in Nat /\ d.request_id \in Nat /\ d.opcode \in Opcodes
  BY CoreTypes
<1>3. port \in Visited /\ \A q \in requests : q.port \in Visited
  BY DEF SessionCore, Located
<1>4. IssuedOK
  <2>1. \A q \in requests' : q.uid \in Nat /\ q.request_id \in Nat /\ q.opcode \in Opcodes
    BY <1>1, <1>2, Zenon DEF Issued, SameCall
  <2>2. \A q \in requests' : q.port \in Visited
    BY <1>1, <1>3, Zenon
  <2> QED BY <1>1, <1>2, <2>1, <2>2 DEF IssuedOK
<1>5. \A x : SameCall(x, x)
  BY DEF SameCall
<1>6. \A x \in Issued' : \E d \in Issued : SameCall(x, d)
  <2> SUFFICES ASSUME NEW x \in Issued' PROVE \E d \in Issued : SameCall(x, d)
    OBVIOUS
  <2>1. x \in Issued \/ SameCall(x, c)
    BY <1>1 DEF Issued
  <2> QED BY <1>5, <2>1, Zenon
<1>7. ~ foreign' => ~ foreign /\ \A x \in Own' : \E d \in Own : SameCall(x, d)
  <2> SUFFICES ASSUME ~ foreign', NEW x \in Own' PROVE \E d \in Own : SameCall(x, d)
    OBVIOUS
  <2>1. x \in Own \/ SameCall(x, c)
    BY <1>1 DEF Own
  <2> QED BY <1>5, <2>1, Zenon
<1> QED BY <1>2, <1>4, <1>6, <1>7, QuietStep

LEMMA RetryStep ==
    ASSUME SessionCore, Retry
    PROVE  SessionCore'
<1>1. PICK c \in call : Send(c)
  BY DEF Retry
<1>2. UNCHANGED <<cache, effects, done, calls, used, now, port, last, responses,
                  current_id, foreign>>
  BY DEF Retry, linkVars, userVars
<1>3. c \in Call /\ c \in Issued /\ c \in Own /\ current_id \in Nat
  BY CoreTypes DEF Issued, Own
<1>4. port # NoPort
  BY <1>1 DEF SessionCore, Located
<1> QED BY <1>1, <1>2, <1>3, <1>4, SendStep

LEMMA ReplayStep ==
    ASSUME SessionCore, ActionReplay
    PROVE  SessionCore'
<1>1. PICK c \in last : Send(c)
  BY DEF ActionReplay, Replayed
<1>2. /\ UNCHANGED <<cache, effects, done, calls, used, now, port, last, responses>>
      /\ port # NoPort /\ current_id' = current_id + 1 /\ foreign' = IsForeign
  BY DEF ActionReplay, linkVars, CheckConn
<1>3. c \in Call /\ c \in Issued /\ current_id \in Nat
  BY CoreTypes DEF Issued
<1>4. current_id' \in Nat /\ current_id <= current_id'
  BY <1>2, <1>3
<1>5. ~ foreign' => ~ foreign /\ current_id > 0
  <2>1. ~ foreign' => ~ foreign /\ current_id # 0
    BY <1>2, Zenon DEF IsForeign
  <2> QED BY <1>3, <2>1
<1>6. ~ foreign' => ~ foreign /\ c \in Own /\ (current_id' > 0 => current_id > 0)
  BY <1>5 DEF Own
<1> QED BY <1>1, <1>2, <1>3, <1>4, <1>6, SendStep

\* A step that leaves the calls and the packets alone, or takes some away.
LEMMA TakingStep ==
    ASSUME SessionCore, UNCHANGED <<cache, effects, done, calls, used, current_id, last,
                                    foreign, requests>>,
           now' \in Nat, now <= now', port' \in {port, NoPort},
           port' = NoPort => call' = {},
           responses' \subseteq responses, call' \subseteq call
    PROVE  SessionCore'
<1>1. current_id \in Nat /\ call \subseteq Call /\ last \subseteq Call
  BY CoreTypes
<1>2. IssuedOK
  BY <1>1 DEF IssuedOK, SessionCore, SessionTypeOK, Located
<1>3. \A c : SameCall(c, c)
  BY DEF SameCall
<1>4. Issued' \subseteq Issued /\ (port' = port => Own' \subseteq Own)
  BY DEF Issued, Own
<1>5. /\ \A c \in Issued' : \E d \in Issued : SameCall(c, d)
      /\ port' = port /\ ~ foreign' =>
             ~ foreign /\ \A c \in Own' : \E d \in Own : SameCall(c, d)
  BY <1>3, <1>4, Zenon
<1>6. current_id' \in Nat /\ current_id <= current_id'
  BY <1>1
<1> QED BY <1>2, <1>5, <1>6, QuietStep

LEMMA HandleStep ==
    ASSUME SessionCore, OwnResult, HandleDatagram
    PROVE  SessionCore' /\ OwnResult'
<1>1. PICK p \in requests :
          /\ PassBy(p) \/ HandOver(p)
          /\ requests' = requests \ {p}
          /\ UNCHANGED <<now, port, used, current_id, last, calls, foreign, call, result>>
  BY DEF HandleDatagram, linkVars, userVars
<1>2. /\ SessionTypeOK /\ Located /\ CacheOK /\ WriteInv /\ OwnOK
      /\ Visited' = Visited
  BY <1>1 DEF SessionCore, Visited
<1>3. /\ p.port \in Visited /\ p.port \in Clients
      /\ p.request_id \in Nat /\ p.opcode \in Opcodes /\ p \in Issued
      /\ Visited \subseteq Clients /\ now \in Nat /\ current_id \in Nat
      /\ call \subseteq Call /\ last \subseteq Call
      /\ \A c \in Issued : c.uid \in Nat /\ c.request_id \in Nat /\ c.opcode \in Opcodes
  BY <1>1, <1>2, CoreTypes DEF Located, Issued
<1>4. CASE PassBy(p)
  <2>1. UNCHANGED <<cache, effects, done, responses>>
    BY <1>4 DEF PassBy, serverVars
  <2>2. IssuedOK
    BY <1>1, <1>2, <1>3 DEF IssuedOK, SessionTypeOK, Located
  <2>3. \A c : SameCall(c, c)
    BY DEF SameCall
  <2>4. Issued' \subseteq Issued /\ Own' \subseteq Own
    BY <1>1 DEF Issued, Own
  <2>5. /\ \A c \in Issued' : \E d \in Issued : SameCall(c, d)
        /\ port' = port /\ ~ foreign' =>
               ~ foreign /\ \A c \in Own' : \E d \in Own : SameCall(c, d)
    BY <1>1, <2>3, <2>4, Zenon
  <2>6. port' = NoPort => call' = {}
    BY <1>1, <1>2 DEF Located
  <2>7. SessionCore'
    BY <1>1, <1>3, <2>1, <2>2, <2>5, <2>6, QuietStep
  <2>8. OwnResult'
    BY <1>1, <2>1, DidSame, ResultKept
  <2> QED BY <2>7, <2>8
<1>5. CASE HandOver(p)
  <2>0. PICK s : s = Connection(p).next_seq
    OBVIOUS
  <2>1. PICK response \in Response :
            /\ ProcessRequest(p.port, p, response)
            /\ responses' = responses \cup {[port |-> p.port, seq |-> s,
                                             response |-> response]}
            /\ done' = IF effects' = effects THEN done
                       ELSE Append(done, [uid |-> p.uid, at |-> now])
    BY <1>5, <2>0 DEF HandOver
  <2>2. Processed(p.port, p, response)
    BY <1>2, <1>3, <2>1, ProcessRequestIs
  <2>3. Taken(p, response)
    BY <1>1, <1>3, <2>1, <2>2, Zenon DEF Taken
  <2>4. response.request_id \in Nat
    BY RequestIdsAssumption DEF Response
  <2>5. SessionTypeOK'
    <3>1. /\ done' \in Seq([uid : Nat, at : Nat])
          /\ effects' \in Seq(Run)
      BY <1>2, <1>3, <2>3, TakenWrites
    <3>2. Len(done') = Len(effects')
      <4>1. UNCHANGED <<done, effects>> \/ Written(p, response.status)
        BY <1>2, <1>3, <2>3, TakenWrites
      <4> QED BY <1>2, <4>1 DEF Written, SessionTypeOK
    <3>3. \A r \in responses' : r.response.request_id \in Nat
      BY <1>2, <2>1, <2>4 DEF SessionTypeOK
    <3>4. /\ now' \in Nat /\ calls' \in Nat /\ current_id' \in Nat
          /\ call' \subseteq Call /\ last' \subseteq Call
          /\ \A q \in requests' : q.uid \in Nat /\ q.request_id \in Nat /\ q.opcode \in Opcodes
      BY <1>1, <1>2 DEF SessionTypeOK
    <3> QED BY <3>1, <3>2, <3>3, <3>4, Zenon DEF SessionTypeOK
  <2>6. Located'
    <3>1. \A r \in responses' : r.port \in Visited
      BY <1>2, <1>3, <2>1 DEF Located
    <3> QED BY <1>1, <1>2, <3>1 DEF Located
  <2>7. CacheOK'
    BY <1>1, <1>2, <1>3, <2>2, CacheOKKept
  <2>8. WriteInv'
    BY <1>2, <1>3, <2>3, WritesTaken
  <2>9. OwnOK'
    BY <1>2, <1>3, <2>1, <2>3, OwnTaken
  <2>10. OwnResult'
    <3>1. \A u : Did(u) => Did(u)'
      BY <1>2, <1>3, <2>3, DidKept
    <3> QED BY <1>1, <3>1, ResultKept
  <2> QED BY <2>5, <2>6, <2>7, <2>8, <2>9, <2>10 DEF SessionCore
<1> QED BY <1>1, <1>4, <1>5

\* The call that waits gets the answer to its own request.
LEMMA ReceiveStep ==
    ASSUME SessionCore, OwnResult, ReceiveResponse
    PROVE  SessionCore' /\ OwnResult'
<1> DEFINE Takers(r) == {c \in call : /\ r.seq = expected_seq
                                      /\ c.request_id = r.response.request_id}
           Shown(r) == {[uid |-> c.uid, opcode |-> c.opcode,
                         status |-> r.response.status, fresh |-> Fresh,
                         foreign |-> foreign] : c \in Takers(r)}
<1>1. PICK r \in responses :
          /\ r.port = port /\ responses' = responses \ {r}
          /\ call' = call \ Takers(r)
          /\ result' = IF Takers(r) = {} THEN result ELSE Shown(r)
          /\ UNCHANGED <<cache, now, effects, port, used, current_id, last, calls, foreign,
                         requests, done>>
  BY DEF ReceiveResponse, linkVars, userVars
<1>2. SessionCore'
  <2>1. now' \in Nat /\ now <= now'
    BY <1>1, CoreTypes
  <2>2. port' = NoPort => call' = {}
    BY <1>1 DEF SessionCore, Located
  <2>3. port' \in {port, NoPort} /\ responses' \subseteq responses /\ call' \subseteq call
    BY <1>1
  <2> QED BY <1>1, <2>1, <2>2, <2>3, TakingStep
<1>3. CASE result' = result
  <2>1. \A u : Did(u) => Did(u)'
    BY <1>1, DidSame
  <2> QED BY <1>2, <1>3, <2>1, ResultKept
<1>4. CASE result' = Shown(r)
  <2> SUFFICES ASSUME NEW x \in result', x.fresh, ~ x.foreign,
                      x.opcode = "APPEND", x.status = "OK"
               PROVE  Did(x.uid)'
    <3>1. \A x : True(x)' <=> (x.opcode = "APPEND" /\ x.status = "OK" => Did(x.uid)')
      BY DEF True, Did
    <3> QED BY <1>2, <3>1, Zenon DEF OwnResult
  <2>1. PICK c \in Takers(r) :
            /\ x.uid = c.uid /\ x.opcode = c.opcode /\ x.status = r.response.status
            /\ x.fresh = Fresh /\ x.foreign = foreign
    <3>1. PICK c \in Takers(r) :
              x = [uid |-> c.uid, opcode |-> c.opcode, status |-> r.response.status,
                   fresh |-> Fresh, foreign |-> foreign]
      BY <1>4, Zenon
    <3> QED BY <3>1, Zenon
  <2>2. /\ c \in call /\ c.request_id = r.response.request_id
        /\ c.opcode = "APPEND" /\ r.response.status = "OK"
    BY <2>1
  <2>3. Fresh /\ ~ foreign
    BY <2>1
  <2>4. OwnResponses
    BY <2>3 DEF SessionCore, OwnOK
  <2>5. c \in Own
    BY <2>2 DEF Own
  <2>6. Did(c.uid)
    BY <1>1, <2>2, <2>4, <2>5, Zenon DEF OwnResponses
  <2> QED BY <1>1, <2>1, <2>6 DEF Did
<1> QED BY <1>1, <1>2, <1>3, <1>4

LEMMA SessionStep ==
    ASSUME SessionInv, [Next]_vars
    PROVE  SessionInv'
<1>1. SessionCore /\ OwnResult
  BY DEF SessionInv
<1>2. now \in Nat /\ now <= now
  BY <1>1, CoreTypes
<1>3. port = NoPort => call = {}
  BY <1>1 DEF SessionCore, Located
<1> DEFINE Quiet == UNCHANGED <<cache, effects, done, calls, used, current_id, last,
                                foreign, requests>>
<1>4. ASSUME UNCHANGED <<effects, done>>, result' \subseteq result PROVE OwnResult'
  BY <1>1, <1>4, DidSame, ResultKept
<1>5. CASE ActionDns
  <2>1. Quiet /\ UNCHANGED <<now, port, responses, call, result>>
    BY <1>5 DEF ActionDns, linkVars, userVars
  <2> QED BY <1>1, <1>2, <1>3, <1>4, <2>1, TakingStep DEF SessionInv
<1>6. ASSUME NEW p \in Clients, ActionConnect(p) PROVE SessionInv'
  <2>1. UNCHANGED <<effects, done, result>>
    BY <1>6 DEF ActionConnect
  <2> QED BY <1>1, <1>4, <1>6, <2>1, ConnectStep DEF SessionInv
<1>7. CASE ActionConnectFails
  <2>1. /\ Quiet /\ port' = NoPort /\ call' = {} /\ call = {}
        /\ UNCHANGED <<now, responses, result>>
    BY <1>7 DEF ActionConnectFails, AtPrompt, userVars
  <2> QED BY <1>1, <1>2, <1>4, <2>1, TakingStep DEF SessionInv
<1>8. CASE ActionDisconnect
  <2>1. /\ Quiet /\ port' = NoPort /\ call' = {} /\ call = {}
        /\ UNCHANGED <<now, responses, result>>
    BY <1>8 DEF ActionDisconnect, AtPrompt, userVars
  <2> QED BY <1>1, <1>2, <1>4, <2>1, TakingStep DEF SessionInv
<1>9. ASSUME NEW op \in Opcodes, NewRequest(op) PROVE SessionInv'
  <2>1. UNCHANGED <<effects, done>> /\ result' \subseteq result
    BY <1>9 DEF NewRequest
  <2> QED BY <1>1, <1>4, <1>9, <2>1, NewRequestStep DEF SessionInv
<1>10. CASE ActionReplay
  <2>1. UNCHANGED <<effects, done>> /\ result' \subseteq result
    BY <1>10 DEF ActionReplay
  <2> QED BY <1>1, <1>4, <1>10, <2>1, ReplayStep DEF SessionInv
<1>11. CASE Retry
  <2>1. UNCHANGED <<effects, done>> /\ result' \subseteq result
    BY <1>11 DEF Retry
  <2> QED BY <1>1, <1>4, <1>11, <2>1, RetryStep DEF SessionInv
<1>12. CASE GiveUp
  <2>1. Quiet /\ call' = {} /\ UNCHANGED <<now, port, responses, result>>
    BY <1>12 DEF GiveUp, linkVars, userVars
  <2> QED BY <1>1, <1>2, <1>4, <2>1, TakingStep DEF SessionInv
<1>13. CASE ReceiveResponse
  BY <1>1, <1>13, ReceiveStep DEF SessionInv
<1>14. CASE HandleDatagram
  BY <1>1, <1>14, HandleStep DEF SessionInv
<1>15. CASE Tick
  <2>1. Quiet /\ now' = now + 1 /\ UNCHANGED <<port, responses, call, result>>
    BY <1>15 DEF Tick, linkVars, userVars
  <2>2. now' \in Nat /\ now <= now'
    BY <1>2, <2>1
  <2> QED BY <1>1, <1>3, <1>4, <2>1, <2>2, TakingStep DEF SessionInv
<1>16. CASE UNCHANGED vars
  <2>1. Quiet /\ UNCHANGED <<now, port, responses, call, result>>
    BY <1>16 DEF vars
  <2> QED BY <1>1, <1>2, <1>3, <1>4, <2>1, TakingStep DEF SessionInv
<1> QED BY <1>5, <1>6, <1>7, <1>8, <1>9, <1>10, <1>11, <1>12, <1>13, <1>14, <1>15,
           <1>16 DEF Next

LEMMA SessionStarts ==
    ASSUME Init
    PROVE  SessionInv
<1> USE DEF Init
<1>1. /\ cache = <<>> /\ now = 0 /\ effects = <<>> /\ done = <<>> /\ used = <<>>
      /\ call = {} /\ last = {} /\ requests = {} /\ responses = {} /\ result = {}
      /\ port = NoPort /\ calls = 0 /\ current_id = 0
  BY DEF ServerInit, CacheInit
<1>2. SessionTypeOK
  BY <1>1 DEF SessionTypeOK
<1>3. Located
  BY <1>1 DEF Located, Visited
<1>4. \A k : k \notin DOMAIN cache
  BY <1>1
<1>5. CacheOK
  BY <1>4 DEF CacheOK
<1>6. \A c : c \notin Issued /\ c \notin Own
  BY <1>1 DEF Issued, Own
<1>7. \A i : i \notin 1..Len(done)
  BY <1>1
<1>8. WriteInv
  BY <1>6, <1>7 DEF WriteInv, OneRequest, AnswerKept, RepeatedOnlyElsewhere
<1>9. OwnOK
  BY <1>1, <1>4, <1>6 DEF OwnOK, OwnIds, OwnCache, OwnResponses
<1>10. OwnResult
  BY <1>1 DEF OwnResult
<1> QED BY <1>2, <1>3, <1>5, <1>8, <1>9, <1>10 DEF SessionInv, SessionCore

\* What may still be sent, the cache and the history of writes agree, and so do
\* they on a port of the connection's own.
THEOREM SessionInvariant == Spec => []SessionInv
  BY SessionStarts, SessionStep, PTL DEF Spec

\* Neither the retries of send_request_spec nor any number of replays, nor a
\* reconnection on an old port, make the server write a request twice at one
\* address before its answer in the cache has expired.
THEOREM RepeatsOnlyElsewhere == Spec => []RepeatedOnlyElsewhere
<1>1. SessionInv => RepeatedOnlyElsewhere
  BY DEF SessionInv, SessionCore, WriteInv
<1> QED BY <1>1, SessionInvariant, PTL

\* The OK that the client shows for an append, on a port that was never used
\* before and without a replay of an earlier connection's request, is true.
THEOREM ResultsAreTrue == Spec => []OwnResult
<1>1. SessionInv => OwnResult
  BY DEF SessionInv
<1> QED BY <1>1, SessionInvariant, PTL

=============================================================================
