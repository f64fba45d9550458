------------------------ MODULE AgentExchangeProofs -------------------------
(***************************************************************************)
(* Theorems about AgentExchange, for any number of clients, calls, retries *)
(* and any values of the timers that satisfy RetriesWithinTTL.             *)
(*                                                                         *)
(* The argument.  A request is executed once because every later copy of it*)
(* finds the answer of the first in the cache.  Over RUDP that is a matter *)
(* of time: no copy is sent later than MAX_RETRIES waits and pauses after  *)
(* the call began (CallsInTime), none travels longer than MaxDelay         *)
(* (CopiesInTime), and the entry is not older than the call (EntriesYoung).*)
(* Over TCP it is a matter of the socket: the first failure closes it, so  *)
(* there is only ever one copy (OneOverTcp).  Both rest on an id having one*)
(* opcode, wherever it is written down (OneOpcode).                        *)
(***************************************************************************)
EXTENDS AgentExchange, TLAPS

-----------------------------------------------------------------------------
(***************************************************************************)
(* The inductive invariant.                                                *)
(***************************************************************************)

\* The server has an answer to request id of client c in its cache.
Known(c, id, op) == Key(c, id, op) \in DOMAIN cache

\* Client c has used id for a request with this opcode: in its current call, in
\* a copy under way, or in a request the server remembers.
Used(c, id, op) ==
    \/ id = current_id[c] /\ op = opcode[c]
    \/ \E i \in 1..Len(requests[c]) :
          requests[c][i].request_id = id /\ requests[c][i].opcode = op
    \/ Known(c, id, op)

AnyId == RequestIds \cup {0}
AnyOpcode == Opcodes \cup {"READ"}

\* Ids are used in increasing order and each for one opcode.
OneOpcode ==
    \A c \in Clients : \A id \in AnyId, op \in AnyOpcode :
        Used(c, id, op) =>
            /\ id <= current_id[c]
            /\ \A other \in AnyOpcode : Used(c, id, other) => op = other

\* What is said of an append is true.
Truthful(c, r) ==
    r.opcode = "APPEND" => (r.status = "OK" <=> Done(c, r.request_id))

\* An entry of the cache answers the request it is filed under, truthfully.
CacheSound ==
    /\ \A k \in DOMAIN cache : /\ cache[k].response_data.request_id = k[2]
                               /\ cache[k].response_data.opcode = k[3]
    /\ \A c \in Clients : \A id \in RequestIds, op \in Opcodes :
          Known(c, id, op) => Truthful(c, cache[Key(c, id, op)].response_data)

\* Every write is remembered.
EffectsKnown ==
    \A i \in 1..Len(effects) : \E op \in Opcodes :
        Known(effects[i].client, effects[i].request_id, op)

\* What is on its way to a client, and what its call has returned, the server
\* remembers too.
AnswersSound ==
    \A c \in Clients :
        /\ \A i \in 1..Len(responses[c]) :
              /\ Known(c, responses[c][i].request_id, responses[c][i].opcode)
              /\ Truthful(c, responses[c][i])
        /\ \A r \in answer[c] :
              /\ r.request_id = current_id[c]
              /\ Known(c, r.request_id, r.opcode)
              /\ Truthful(c, r)

\* What one attempt and the pause after it may take.
Round == timeout + MAX_RTO

\* A call that has not ended is one of an opcode in use, not yet out of
\* retries, and as old as its attempts allow.
CallsInTime ==
    \A c \in Clients :
        /\ call_at[c] <= now
        /\ phase[c] # "IDLE" =>
              /\ current_id[c] \in RequestIds
              /\ opcode[c] \in Opcodes
              /\ retries[c] <= MAX_RETRIES
        /\ is_async /\ phase[c] = "WAITING" =>
              /\ now <= call_at[c] + retries[c] * Round + timeout
              /\ deadline[c] <= call_at[c] + retries[c] * Round + timeout
        /\ is_async /\ phase[c] = "PAUSED" =>
              /\ now <= call_at[c] + retries[c] * Round
              /\ deadline[c] <= call_at[c] + retries[c] * Round

\* A copy is sent before its call has run out of retries, and does not travel
\* for ever.
CopiesInTime ==
    \A c \in Clients : \A i \in 1..Len(requests[c]) :
        /\ requests[c][i].call_at <= now
        /\ is_async =>
              /\ requests[c][i].sent_at
                     <= requests[c][i].call_at + MAX_RETRIES * Round
              /\ now <= requests[c][i].sent_at + MaxDelay

\* An answer was not cached before the call it answers began; over TCP, no copy
\* of a request that was answered is under way.
EntriesYoung ==
    \A c \in Clients :
        /\ Known(c, current_id[c], opcode[c]) =>
              call_at[c] <= cache[Key(c, current_id[c], opcode[c])].timestamp
        /\ \A i \in 1..Len(requests[c]) :
              LET r == requests[c][i]
              IN  Known(c, r.request_id, r.opcode) =>
                     /\ is_async
                     /\ r.call_at
                          <= cache[Key(c, r.request_id, r.opcode)].timestamp

\* Over TCP a connection carries one request or one answer at a time, and only
\* while its client waits; a client that pauses has closed it.
OneOverTcp ==
    ~ is_async => \A c \in Clients :
        /\ Len(requests[c]) <= 1
        /\ phase[c] = "PAUSED" => c \notin sock
        /\ c \notin sock => responses[c] = <<>>
        /\ c \in sock => Len(requests[c]) + Len(responses[c]) <= 1
        /\ c \in sock /\ Len(requests[c]) = 1 =>
              /\ phase[c] = "WAITING"
              /\ requests[c][1].request_id = current_id[c]
        /\ Len(responses[c]) = 1 => Awaits(c, responses[c][1])

IInv ==
    /\ TypeOK
    /\ OneOpcode
    /\ CacheSound
    /\ EffectsKnown
    /\ EffectOnce
    /\ AnswersSound
    /\ CallsInTime
    /\ CopiesInTime
    /\ EntriesYoung
    /\ OneOverTcp

-----------------------------------------------------------------------------
(***************************************************************************)
(* Arithmetic of the timers.                                               *)
(***************************************************************************)

\* n attempts and pauses take n rounds; all of them and the way fit into the
\* life of an entry.
LEMMA Rounds ==
    ASSUME NEW n \in Nat, n <= MAX_RETRIES
    PROVE  /\ Round \in Nat
           /\ n * Round \in Nat
           /\ MAX_RETRIES * Round \in Nat
           /\ (n + 1) * Round = n * Round + Round
           /\ n * Round <= MAX_RETRIES * Round
           /\ MAX_RETRIES * Round + MaxDelay < IDEMPOTENCY_TTL
<1>1. Round \in Nat
  BY TimingAssumption DEF Round
<1>2. MAX_RETRIES * Round + MaxDelay < IDEMPOTENCY_TTL
  BY RetriesWithinTTL DEF Round
<1>3. MAX_RETRIES \in Nat
  BY TimingAssumption
<1> QED BY <1>1, <1>2, <1>3

\* A pause is never longer than MAX_RTO (min in send_request_spec).
LEMMA PauseBound ==
    ASSUME NEW n \in Nat \ {0}
    PROVE  Pause(n) \in Int /\ Pause(n) <= MAX_RTO
<1>1. n - 1 \in Nat
  OBVIOUS
<1>2. 2^(n - 1) \in Int
  BY <1>1
<1>3. INITIAL_RTO * 2^(n - 1) \in Int
  BY <1>2, TimingAssumption
<1> QED BY <1>3, TimingAssumption DEF Pause

-----------------------------------------------------------------------------
(***************************************************************************)
(* The server.                                                             *)
(***************************************************************************)

\* The oldest request of c.
Oldest(c) == Head(requests[c])

\* What executing request r of client c does: it was not known, it is now, with
\* the response just made, and of the other clients and requests everything is
\* as before.
Run(c, id, status) ==
    [client |-> c, request_id |-> id, status |-> status]
Executed(c, r, response) ==
    /\ ~ Known(c, r.request_id, r.opcode)
    /\ Key(c, r.request_id, r.opcode) \in DOMAIN cache'
    /\ cache'[Key(c, r.request_id, r.opcode)]
          = [response_data |-> response, timestamp |-> now]
    /\ \A d \in Clients, id \in AnyId, op \in AnyOpcode :
          <<d, id, op>> # <<c, r.request_id, r.opcode>> =>
             /\ Key(d, id, op) \in DOMAIN cache' <=> Known(d, id, op)
             /\ Known(d, id, op) => cache'[Key(d, id, op)] = cache[Key(d, id, op)]
    /\ \/ effects' = effects /\ r.opcode # "APPEND"
       \/ effects' = Append(effects, Run(c, r.request_id, response.status))

\* The keys and values of the cache.
CacheShape(f) ==
    /\ f \in [DOMAIN f -> CacheEntry]
    /\ DOMAIN f \subseteq (Clients \cup {default_client}) \X RequestIds \X Opcodes
    /\ \A k \in DOMAIN f : /\ f[k].response_data.request_id = k[2]
                           /\ f[k].response_data.opcode = k[3]

\* A lookup that misses keeps the shape.
LEMMA MissedShape ==
    ASSUME NEW f, CacheShape(f), NEW key
    PROVE  CacheShape(Missed(f, key))
BY DEF CacheShape, Missed, Restrict

\* So does the store of a response under a key of its request.
LEMMA StoredShape ==
    ASSUME NEW f, CacheShape(f), now \in Nat, NEW response \in Response,
           NEW d \in Clients \cup {default_client},
           NEW id \in RequestIds, NEW op \in Opcodes,
           response.request_id = id, response.opcode = op
    PROVE  CacheShape(Stored(f, Key(d, id, op), response))
<1> DEFINE key == Key(d, id, op)
           e == [response_data |-> response, timestamp |-> now]
           g == Stored(f, key, response)
<1>1. key \in (Clients \cup {default_client}) \X RequestIds \X Opcodes
      /\ key[2] = id /\ key[3] = op
  BY DEF Key
<1>2. e \in CacheEntry
  BY DEF CacheEntry
<1>3. DOMAIN g = DOMAIN f \cup {key}
  BY DEF Stored
<1>4. \A k \in DOMAIN g : g[k] = IF k = key THEN e ELSE f[k]
  BY DEF Stored
<1>5. g = [k \in DOMAIN g |-> g[k]]
  BY DEF Stored
<1> HIDE DEF key, e, g
<1>6. \A k \in DOMAIN g : g[k] \in CacheEntry
  BY <1>2, <1>3, <1>4 DEF CacheShape
<1>7. e.response_data = response
  BY DEF e
<1> QED BY <1>1, <1>3, <1>4, <1>5, <1>6, <1>7 DEF CacheShape, g, key

\* The cache after a request was executed and its response stored: f is what the
\* handler's own lookups and stores have made of it.
LEMMA StoredIsExecuted ==
    ASSUME NEW c \in Clients, NEW r \in Request, NEW response, NEW f,
           \A d \in Clients, id \in AnyId, op \in AnyOpcode :
              <<d, id, op>> # <<c, r.request_id, r.opcode>> =>
                 /\ Key(d, id, op) \in DOMAIN f <=> Known(d, id, op)
                 /\ Known(d, id, op) => f[Key(d, id, op)] = cache[Key(d, id, op)],
           cache' = Stored(f, RequestKey(c, r), response)
    PROVE  /\ Key(c, r.request_id, r.opcode) \in DOMAIN cache'
           /\ cache'[Key(c, r.request_id, r.opcode)]
                 = [response_data |-> response, timestamp |-> now]
           /\ \A d \in Clients, id \in AnyId, op \in AnyOpcode :
                 <<d, id, op>> # <<c, r.request_id, r.opcode>> =>
                    /\ Key(d, id, op) \in DOMAIN cache' <=> Known(d, id, op)
                    /\ Known(d, id, op) =>
                          cache'[Key(d, id, op)] = cache[Key(d, id, op)]
BY DEF Stored, RequestKey, Key, Known

\* A key of the default client is no key of a client.
LEMMA TaskKeyElsewhere ==
    ASSUME NEW d \in Clients, NEW id, NEW op, NEW r
    PROVE  Key(d, id, op) # TaskKey(r)
BY DefaultClientAssumption DEF Key, TaskKey

\* The lookups before a handler runs touch no other client request.
LEMMA LookedKeeps ==
    ASSUME NEW c \in Clients, NEW r \in Request, NEW f,
           \/ f = Looked(c, r)
           \/ f = Missed(Looked(c, r), TaskKey(r))
           \/ \E response : f = Stored(Looked(c, r), TaskKey(r), response)
    PROVE  \A d \in Clients, id \in AnyId, op \in AnyOpcode :
              <<d, id, op>> # <<c, r.request_id, r.opcode>> =>
                 /\ Key(d, id, op) \in DOMAIN f <=> Known(d, id, op)
                 /\ Known(d, id, op) => f[Key(d, id, op)] = cache[Key(d, id, op)]
<1> SUFFICES ASSUME NEW d \in Clients, NEW id \in AnyId, NEW op \in AnyOpcode,
                    <<d, id, op>> # <<c, r.request_id, r.opcode>>
             PROVE  /\ Key(d, id, op) \in DOMAIN f <=> Known(d, id, op)
                    /\ Known(d, id, op) => f[Key(d, id, op)] = cache[Key(d, id, op)]
  BY Zenon
<1> DEFINE k == Key(d, id, op)
<1>1. k # TaskKey(r) /\ k # RequestKey(c, r)
  BY TaskKeyElsewhere DEF RequestKey, Key
<1> HIDE DEF k
<1>2. /\ k \in DOMAIN Looked(c, r) <=> k \in DOMAIN cache
      /\ k \in DOMAIN cache => Looked(c, r)[k] = cache[k]
  BY <1>1 DEF Looked, Missed, Restrict
<1>3. /\ k \in DOMAIN f <=> k \in DOMAIN Looked(c, r)
      /\ k \in DOMAIN cache => f[k] = Looked(c, r)[k]
  BY <1>1, <1>2 DEF Missed, Restrict, Stored
<1> QED BY <1>2, <1>3 DEF k, Known

\* A copy that arrives finds the answer, if there is one, still good.
LEMMA KnownIsHit ==
    ASSUME IInv, NEW c \in Clients, requests[c] # <<>>,
           Known(c, Oldest(c).request_id, Oldest(c).opcode)
    PROVE  Hit(RequestKey(c, Oldest(c)))
<1> DEFINE r == requests[c][1]
           k == Key(c, r.request_id, r.opcode)
<1>1. /\ 1 \in 1..Len(requests[c])
      /\ r \in Request
      /\ Oldest(c) = r
  BY DEF IInv, TypeOK, Oldest
<1>2. k \in DOMAIN cache
  BY <1>1 DEF Known
<1>3. is_async /\ r.call_at <= cache[k].timestamp
  BY <1>1, <1>2 DEF IInv, EntriesYoung, Known
<1>4. now <= r.sent_at + MaxDelay /\ r.sent_at <= r.call_at + MAX_RETRIES * Round
  BY <1>1, <1>3 DEF IInv, CopiesInTime
<1>5. MAX_RETRIES * Round + MaxDelay < IDEMPOTENCY_TTL /\ MAX_RETRIES * Round \in Nat
  BY Rounds, TimingAssumption
<1>6. r.sent_at \in Nat /\ r.call_at \in Nat
  BY <1>1 DEF Request
<1>7. cache[k].timestamp \in Nat /\ now \in Nat
  BY <1>2 DEF IInv, TypeOK, CacheEntry
<1> HIDE DEF r, k
<1>8. now - cache[k].timestamp < IDEMPOTENCY_TTL
  <2>1. PICK m \in Nat : m = MAX_RETRIES * Round
    BY <1>5
  <2>2. PICK t \in Nat : t = cache[k].timestamp
    BY <1>7
  <2>3. PICK s \in Nat, b \in Nat : s = r.sent_at /\ b = r.call_at
    BY <1>6
  <2>4. /\ now <= s + MaxDelay /\ s <= b + m /\ b <= t
        /\ m + MaxDelay < IDEMPOTENCY_TTL
    BY <2>1, <2>2, <2>3, <1>3, <1>4, <1>5
  <2>5. now - t < IDEMPOTENCY_TTL
    BY <2>4, <1>7, TimingAssumption, TTLAssumption
  <2> QED BY <2>2, <2>5
<1> QED BY <1>1, <1>2, <1>8 DEF Hit, RequestKey, k

\* Either the request was known and its answer is repeated, or it is executed.
LEMMA ProcessRequestStep ==
    ASSUME IInv, NEW c \in Clients, requests[c] # <<>>,
           NEW r, r = Oldest(c), NEW response \in Response,
           ProcessRequest(c, r, response)
    PROVE  /\ r = requests[c][1] /\ r \in Request
           /\ CacheShape(cache)'
           /\ response.request_id = r.request_id
           /\ response.opcode = r.opcode
           /\ \/ /\ Known(c, r.request_id, r.opcode)
                 /\ response = cache[Key(c, r.request_id, r.opcode)].response_data
                 /\ UNCHANGED <<cache, effects>>
              \/ Executed(c, r, response)
<1> DEFINE k == Key(c, r.request_id, r.opcode)
<1>1. r = requests[c][1] /\ r \in Request
  BY DEF IInv, TypeOK, Oldest
<1>2. CacheShape(cache) /\ now \in Nat
  BY DEF IInv, TypeOK, CacheSound, CacheShape
<1>3. /\ r.request_id \in RequestIds /\ r.opcode \in Opcodes
      /\ r.request_id \in AnyId /\ r.opcode \in AnyOpcode
  BY <1>1 DEF Request, AnyId, AnyOpcode
<1>4. k \in DOMAIN cache => Hit(k)
  BY KnownIsHit DEF Known, RequestKey
<1>5. CASE Replay(c, r, response)
  <2>1. k \in DOMAIN cache /\ response = cache[k].response_data
        /\ UNCHANGED <<cache, effects>>
    BY <1>5 DEF Replay, Hit, RequestKey, serverVars
  <2>2. response.request_id = r.request_id /\ response.opcode = r.opcode
    BY <2>1, <1>2 DEF CacheShape, Key
  <2>3. CacheShape(cache)'
    BY <2>1, <1>2 DEF CacheShape, CacheEntry
  <2> QED BY <1>1, <2>1, <2>2, <2>3 DEF Known
<1>6. CASE ~ Hit(RequestKey(c, r)) /\ Dispatch(c, r, response)
  <2>1. ~ Known(c, r.request_id, r.opcode)
    BY <1>4, <1>6 DEF Known, RequestKey
  <2>2. CacheShape(Looked(c, r))
    BY <1>2, MissedShape DEF Looked
  <2>3. ASSUME NEW f, CacheShape(f),
               \/ f = Looked(c, r)
               \/ f = Missed(Looked(c, r), TaskKey(r))
               \/ \E resp : f = Stored(Looked(c, r), TaskKey(r), resp),
               response.request_id = r.request_id, response.opcode = r.opcode,
               cache' = Stored(f, RequestKey(c, r), response),
               \/ effects' = effects /\ r.opcode # "APPEND"
               \/ effects' = Append(effects, Run(c, r.request_id, response.status))
        PROVE  /\ CacheShape(cache)'
               /\ Executed(c, r, response)
    <3>1. \A d \in Clients, id \in AnyId, op \in AnyOpcode :
              <<d, id, op>> # <<c, r.request_id, r.opcode>> =>
                 /\ Key(d, id, op) \in DOMAIN f <=> Known(d, id, op)
                 /\ Known(d, id, op) => f[Key(d, id, op)] = cache[Key(d, id, op)]
      BY <2>3, <1>1, LookedKeeps
    <3>2. Executed(c, r, response)
      BY <2>1, <2>3, <3>1, <1>1, StoredIsExecuted DEF Executed
    <3>3. CacheShape(Stored(f, Key(c, r.request_id, r.opcode), response))
      BY <1>2, <1>3, <2>3, StoredShape
    <3>4. CacheShape(cache')
      BY <2>3, <3>3 DEF RequestKey
    <3> QED BY <3>2, <3>4 DEF CacheShape, CacheEntry
  <2>4. CASE TaskReplay(c, r, response)
    <3>1. TaskKey(r) \in DOMAIN cache /\ response = cache[TaskKey(r)].response_data
          /\ r.opcode = "TASK" /\ effects' = effects
          /\ cache' = Stored(Looked(c, r), RequestKey(c, r), response)
      BY <2>4 DEF TaskReplay, Hit
    <3>2. response.request_id = r.request_id /\ response.opcode = r.opcode
      BY <3>1, <1>2 DEF CacheShape, TaskKey, Key
    <3> QED BY <3>1, <3>2, <2>2, <2>3, <1>1
  <2>5. CASE Perform(c, r, response)
    <3>1. /\ response = Answer(c, r, "OK")
          /\ cache' = Stored(HandlerStored(c, r, response), RequestKey(c, r), response)
          /\ effects' = Recorded(c, r, "OK")
      BY <2>5 DEF Perform
    <3>2. response.request_id = r.request_id /\ response.opcode = r.opcode
          /\ response.status = "OK"
      BY <3>1 DEF Answer
    <3>3. CacheShape(Stored(Looked(c, r), TaskKey(r), response))
      BY <2>2, <1>2, <1>3, <3>2, StoredShape DEF TaskKey
    <3>4. CacheShape(HandlerStored(c, r, response))
      BY <2>2, <3>3 DEF HandlerStored
    <3>5. \/ HandlerStored(c, r, response) = Looked(c, r)
          \/ \E resp : HandlerStored(c, r, response) = Stored(Looked(c, r), TaskKey(r), resp)
      BY DEF HandlerStored
    <3>6. \/ effects' = effects /\ r.opcode # "APPEND"
          \/ effects' = Append(effects, Run(c, r.request_id, response.status))
      BY <3>1, <3>2 DEF Recorded, Run, Writes
    <3> QED BY <3>1, <3>2, <3>4, <3>5, <3>6, <2>3, <1>1
  <2>6. CASE Fail(c, r, response)
    <3> DEFINE f == IF r.opcode = "TASK" THEN Missed(Looked(c, r), TaskKey(r))
                    ELSE Looked(c, r)
    <3>1. /\ response = Answer(c, r, "ERROR")
          /\ cache' = Stored(f, RequestKey(c, r), response)
          /\ effects' = Recorded(c, r, "ERROR")
      BY <2>6 DEF Fail
    <3>2. response.request_id = r.request_id /\ response.opcode = r.opcode
          /\ response.status = "ERROR"
      BY <3>1 DEF Answer
    <3>3. CacheShape(f)
      BY <2>2, MissedShape
    <3>4. f = Looked(c, r) \/ f = Missed(Looked(c, r), TaskKey(r))
      OBVIOUS
    <3>5. \/ effects' = effects /\ r.opcode # "APPEND"
          \/ effects' = Append(effects, Run(c, r.request_id, response.status))
      BY <3>1, <3>2 DEF Recorded, Run, Writes
    <3> HIDE DEF f
    <3> QED BY <3>1, <3>2, <3>3, <3>4, <3>5, <2>3, <1>1
  <2> QED BY <1>6, <2>4, <2>5, <2>6 DEF Dispatch
<1> QED BY <1>5, <1>6 DEF ProcessRequest

\* An id has one opcode, in the form the proofs use.
LEMMA SameOpcode ==
    ASSUME TypeOK, OneOpcode, NEW c \in Clients, NEW id \in RequestIds,
           NEW op \in Opcodes, NEW other \in Opcodes,
           Used(c, id, op), Used(c, id, other)
    PROVE  op = other
<1>1. id \in AnyId /\ op \in AnyOpcode /\ other \in AnyOpcode
  BY DEF AnyId, AnyOpcode
<1> QED BY <1>1 DEF OneOpcode

\* A request the server does not remember has not been worked on.
LEMMA UnknownNotRun ==
    ASSUME IInv, NEW c \in Clients, NEW id \in RequestIds, NEW op \in Opcodes,
           Used(c, id, op), ~ Known(c, id, op)
    PROVE  /\ \A i \in 1..Len(effects) :
                 ~ (effects[i].client = c /\ effects[i].request_id = id)
           /\ ~ Done(c, id)
<1>1. ASSUME NEW i \in 1..Len(effects),
             effects[i].client = c, effects[i].request_id = id
      PROVE  FALSE
  <2>1. PICK other \in Opcodes : Known(effects[i].client, effects[i].request_id, other)
    BY DEF IInv, EffectsKnown
  <2>2. Known(c, id, other) /\ Used(c, id, other)
    BY <1>1, <2>1 DEF Used
  <2>3. op = other
    BY <2>2, SameOpcode DEF IInv
  <2> QED BY <2>2, <2>3
<1>2. ~ Done(c, id)
  BY <1>1 DEF Done
<1> QED BY <1>1, <1>2

\* The oldest request of c is one c has used.
LEMMA OldestUsed ==
    ASSUME TypeOK, NEW c \in Clients, requests[c] # <<>>
    PROVE  /\ Oldest(c) = requests[c][1] /\ 1 \in 1..Len(requests[c])
           /\ Oldest(c) \in Request
           /\ Oldest(c).request_id \in RequestIds
           /\ Oldest(c).opcode \in Opcodes
           /\ Used(c, Oldest(c).request_id, Oldest(c).opcode)
<1>1. requests[c] \in Seq(Request) /\ 1 \in 1..Len(requests[c])
  BY DEF TypeOK
<1>2. Oldest(c) = requests[c][1] /\ Oldest(c) \in Request
  BY <1>1 DEF Oldest
<1> QED BY <1>1, <1>2 DEF Used, Request

\* The step of the server, as far as other parts of the state depend on it: an
\* answer that is known stays, and so does whether its request was done.
ServerStep(c, r, response) ==
    /\ CacheShape(cache)'
    /\ effects' \in Seq(Effect)
    /\ response.request_id = r.request_id
    /\ response.opcode = r.opcode
    /\ \A d \in Clients, id \in RequestIds, op \in Opcodes :
          Known(d, id, op) => /\ Known(d, id, op)'
                              /\ cache'[Key(d, id, op)] = cache[Key(d, id, op)]
                              /\ Done(d, id)' <=> Done(d, id)
    /\ \A d \in Clients, id \in AnyId, op \in AnyOpcode :
          Known(d, id, op)' => \/ Known(d, id, op)
                               \/ /\ d = c /\ id = r.request_id /\ op = r.opcode
                                  /\ ~ Known(d, id, op)
                                  /\ cache'[Key(d, id, op)]
                                       = [response_data |-> response, timestamp |-> now]
    /\ Key(c, r.request_id, r.opcode) \in DOMAIN cache'
    /\ Truthful(c, response)'
    /\ EffectsKnown'
    /\ EffectOnce'

\* What is appended to the handlers run.
LEMMA AppendedEffect ==
    ASSUME NEW c \in Clients, NEW id \in RequestIds,
           NEW status \in {"OK", "ERROR"}, effects \in Seq(Effect),
           effects' = Append(effects, Run(c, id, status))
    PROVE  /\ effects' \in Seq(Effect)
           /\ Len(effects') = Len(effects) + 1
           /\ Len(effects) \in Nat
           /\ \A i \in 1..Len(effects) : effects'[i] = effects[i]
           /\ effects'[Len(effects) + 1] = Run(c, id, status)
           /\ Done(c, id)' <=> status = "OK" \/ Done(c, id)
           /\ \A d \in Clients, j \in RequestIds :
                 ~ (d = c /\ j = id) => (Done(d, j)' <=> Done(d, j))
<1> DEFINE e == Run(c, id, status)
<1>1. e \in Effect
  BY DEF Effect, Run
<1>2. \A d, j : e = Run(d, j, "OK") <=> d = c /\ j = id /\ status = "OK"
  BY DEF Run
<1> HIDE DEF e
<1>3. /\ effects' \in Seq(Effect)
      /\ Len(effects') = Len(effects) + 1
      /\ Len(effects) \in Nat
      /\ \A i \in 1..Len(effects) : effects'[i] = effects[i]
      /\ effects'[Len(effects) + 1] = e
  BY <1>1 DEF e
<1>4. ASSUME NEW d, NEW j
      PROVE  Done(d, j)' <=> e = Run(d, j, "OK") \/ Done(d, j)
  <2> DEFINE x == Run(d, j, "OK")
  <2>1. /\ Done(d, j) <=> \E i \in 1..Len(effects) : effects[i] = x
        /\ Done(d, j)' <=> \E i \in 1..Len(effects') : effects'[i] = x
    BY DEF Done, Run
  <2> HIDE DEF x
  <2>2. ASSUME NEW i \in 1..Len(effects'), effects'[i] = x, e # x
        PROVE  i \in 1..Len(effects) /\ effects[i] = x
    BY <2>2, <1>3
  <2>3. ASSUME NEW i \in 1..Len(effects), effects[i] = x
        PROVE  i \in 1..Len(effects') /\ effects'[i] = x
    BY <2>3, <1>3
  <2>4. Len(effects) + 1 \in 1..Len(effects')
    BY <1>3
  <2> QED BY <1>3, <2>1, <2>2, <2>3, <2>4 DEF x
<1> QED BY <1>2, <1>3, <1>4 DEF e

\* process_request makes such a step.
LEMMA ProcessIsServerStep ==
    ASSUME IInv, NEW c \in Clients, requests[c] # <<>>,
           NEW r, r = Oldest(c), NEW response \in Response,
           ProcessRequest(c, r, response)
    PROVE  ServerStep(c, r, response)
<1>1. /\ CacheShape(cache)'
      /\ response.request_id = r.request_id
      /\ response.opcode = r.opcode
      /\ \/ /\ Known(c, r.request_id, r.opcode)
            /\ response = cache[Key(c, r.request_id, r.opcode)].response_data
            /\ UNCHANGED <<cache, effects>>
         \/ Executed(c, r, response)
  BY ProcessRequestStep
<1>2. /\ r.request_id \in RequestIds /\ r.opcode \in Opcodes
      /\ r.request_id \in AnyId /\ r.opcode \in AnyOpcode
      /\ Used(c, r.request_id, r.opcode)
  BY OldestUsed DEF IInv, AnyId, AnyOpcode
<1>3. TypeOK /\ effects \in Seq(Effect) /\ EffectOnce /\ EffectsKnown
  BY DEF IInv, TypeOK
<1>4. ASSUME Known(c, r.request_id, r.opcode),
             response = cache[Key(c, r.request_id, r.opcode)].response_data,
             UNCHANGED <<cache, effects>>
      PROVE  ServerStep(c, r, response)
  <2>1. Truthful(c, response)
    BY <1>2, <1>4 DEF IInv, CacheSound
  <2>2. Truthful(c, response)'
    BY <2>1, <1>4 DEF Truthful, Done
  <2>3. EffectsKnown' /\ EffectOnce'
    BY <1>3, <1>4 DEF EffectsKnown, EffectOnce, Known
  <2>4. \A d, id, op : /\ Known(d, id, op)' <=> Known(d, id, op)
                       /\ Done(d, id)' <=> Done(d, id)
    BY <1>4 DEF Known, Done
  <2> QED BY <1>1, <1>3, <1>4, <2>2, <2>3, <2>4 DEF ServerStep, Known
<1>5. ASSUME Executed(c, r, response) PROVE ServerStep(c, r, response)
  <2>1. /\ ~ Known(c, r.request_id, r.opcode) /\ ~ Done(c, r.request_id)
        /\ \A i \in 1..Len(effects) :
              ~ (effects[i].client = c /\ effects[i].request_id = r.request_id)
    BY <1>2, <1>5, UnknownNotRun DEF Executed
  <2>2. /\ effects' \in Seq(Effect)
        /\ Len(effects) \in Nat
        /\ \A d \in Clients, id \in RequestIds :
              ~ (d = c /\ id = r.request_id) => (Done(d, id)' <=> Done(d, id))
        /\ \/ effects' = effects /\ r.opcode # "APPEND"
           \/ /\ Done(c, r.request_id)' <=> response.status = "OK"
              /\ Len(effects') = Len(effects) + 1
              /\ \A i \in 1..Len(effects) : effects'[i] = effects[i]
              /\ effects'[Len(effects) + 1].client = c
              /\ effects'[Len(effects) + 1].request_id = r.request_id
    <3>1. CASE effects' = effects /\ r.opcode # "APPEND"
      BY <3>1, <1>3 DEF Done
    <3>2. CASE effects' = Append(effects, Run(c, r.request_id, response.status))
      <4>1. response.status \in {"OK", "ERROR"}
        BY DEF Response
      <4>2. /\ effects' \in Seq(Effect)
            /\ Len(effects') = Len(effects) + 1
            /\ Len(effects) \in Nat
            /\ \A i \in 1..Len(effects) : effects'[i] = effects[i]
            /\ effects'[Len(effects) + 1] = Run(c, r.request_id, response.status)
            /\ Done(c, r.request_id)' <=> response.status = "OK" \/ Done(c, r.request_id)
            /\ \A d \in Clients, j \in RequestIds :
                  ~ (d = c /\ j = r.request_id) => (Done(d, j)' <=> Done(d, j))
        BY <3>2, <4>1, <1>2, <1>3, AppendedEffect
      <4> QED BY <4>2, <2>1 DEF Run
    <3> QED BY <1>5, <3>1, <3>2 DEF Executed
  <2>3. \A d \in Clients, id \in RequestIds, op \in Opcodes :
          Known(d, id, op) => /\ Known(d, id, op)'
                              /\ cache'[Key(d, id, op)] = cache[Key(d, id, op)]
    <3> SUFFICES ASSUME NEW d \in Clients, NEW id \in RequestIds,
                        NEW op \in Opcodes, Known(d, id, op)
                 PROVE  /\ Known(d, id, op)'
                        /\ cache'[Key(d, id, op)] = cache[Key(d, id, op)]
      BY Zenon
    <3>1. id \in AnyId /\ op \in AnyOpcode
      BY DEF AnyId, AnyOpcode
    <3>2. <<d, id, op>> # <<c, r.request_id, r.opcode>>
      BY <2>1
    <3> QED BY <3>1, <3>2, <1>5 DEF Executed, Known
  <2>4. \A d \in Clients, id \in RequestIds, op \in Opcodes :
          Known(d, id, op) => (Done(d, id)' <=> Done(d, id))
    <3> SUFFICES ASSUME NEW d \in Clients, NEW id \in RequestIds,
                        NEW op \in Opcodes, Known(d, id, op)
                 PROVE  ~ (d = c /\ id = r.request_id)
      BY <2>2, Zenon
    <3>1. Used(d, id, op)
      BY DEF Used
    <3>2. ASSUME d = c, id = r.request_id PROVE FALSE
      <4>1. op = r.opcode
        BY <3>1, <3>2, <1>2, SameOpcode DEF IInv
      <4> QED BY <4>1, <3>2, <2>1
    <3> QED BY <3>2
  <2>5. \A d \in Clients, id \in AnyId, op \in AnyOpcode :
          Known(d, id, op)' => \/ Known(d, id, op)
                               \/ /\ d = c /\ id = r.request_id /\ op = r.opcode
                                  /\ ~ Known(d, id, op)
                                  /\ cache'[Key(d, id, op)]
                                       = [response_data |-> response, timestamp |-> now]
    <3> SUFFICES ASSUME NEW d \in Clients, NEW id \in AnyId,
                        NEW op \in AnyOpcode, Known(d, id, op)', ~ Known(d, id, op)
                 PROVE  /\ d = c /\ id = r.request_id /\ op = r.opcode
                        /\ cache'[Key(d, id, op)]
                             = [response_data |-> response, timestamp |-> now]
      BY Zenon
    <3>1. <<d, id, op>> = <<c, r.request_id, r.opcode>>
      BY <1>5 DEF Executed, Known
    <3> QED BY <3>1, <1>5 DEF Executed
  <2>6. Truthful(c, response)'
    <3>1. effects' = effects => (Done(c, r.request_id)' <=> Done(c, r.request_id))
      BY DEF Done
    <3> QED BY <2>1, <2>2, <3>1, <1>1 DEF Truthful
  <2>7. Key(c, r.request_id, r.opcode) \in DOMAIN cache'
    BY <1>5 DEF Executed
  <2>8. EffectsKnown'
    <3>1. ASSUME NEW i \in 1..Len(effects)
          PROVE  \E op \in Opcodes : Key(effects[i].client, effects[i].request_id, op) \in DOMAIN cache'
      <4> effects[i] \in Effect
        BY <1>3
      <4>1. effects[i].client \in Clients /\ effects[i].request_id \in RequestIds
        BY DEF Effect
      <4>2. PICK op \in Opcodes : Known(effects[i].client, effects[i].request_id, op)
        BY <1>3 DEF EffectsKnown
      <4>3. PICK d \in Clients, id \in RequestIds : d = effects[i].client /\ id = effects[i].request_id
        BY <4>1
      <4>4. Known(d, id, op)'
        BY <4>2, <4>3, <2>3
      <4> QED BY <4>3, <4>4 DEF Known
    <3>2. ASSUME NEW i \in 1..Len(effects')
          PROVE  \E op \in Opcodes : Key(effects'[i].client, effects'[i].request_id, op) \in DOMAIN cache'
      <4>1. CASE effects' = effects
        BY <4>1, <3>1, <3>2
      <4>2. CASE effects'[i].client = c /\ effects'[i].request_id = r.request_id
        BY <4>2, <2>7, <1>2
      <4>3. CASE i \in 1..Len(effects) /\ effects'[i] = effects[i]
        BY <4>3, <3>1
      <4>4. \/ effects' = effects
            \/ effects'[i].client = c /\ effects'[i].request_id = r.request_id
            \/ i \in 1..Len(effects) /\ effects'[i] = effects[i]
        <5>1. CASE Len(effects') = Len(effects) + 1
          BY <5>1, <2>2, <3>2
        <5> QED BY <5>1, <2>2
      <4> QED BY <4>1, <4>2, <4>3, <4>4
    <3> QED BY <3>2 DEF EffectsKnown, Known
  <2>9. EffectOnce'
    <3>1. CASE effects' = effects
      BY <3>1, <1>3 DEF EffectOnce
    <3>2. CASE /\ Len(effects') = Len(effects) + 1
               /\ \A i \in 1..Len(effects) : effects'[i] = effects[i]
               /\ effects'[Len(effects) + 1].client = c
               /\ effects'[Len(effects) + 1].request_id = r.request_id
      <4>1. \A i \in 1..Len(effects') : i \in 1..Len(effects) \/ i = Len(effects) + 1
        BY <2>2, <3>2
      <4> QED BY <2>1, <3>2, <4>1, <1>3 DEF EffectOnce
    <3> QED BY <3>1, <3>2, <2>2
  <2> QED BY <1>1, <2>2, <2>3, <2>4, <2>5, <2>6, <2>7, <2>8, <2>9 DEF ServerStep
<1> QED BY <1>1, <1>4, <1>5

\* The queues after a request was taken and its answer sent back.
LEMMA ProcessQueues ==
    ASSUME TypeOK, NEW c \in Clients, requests[c] # <<>>,
           NEW response \in Response,
           requests' = [requests EXCEPT ![c] = Tail(@)],
           SendBack(c, response)
    PROVE  /\ requests' \in [Clients -> Seq(Request)]
           /\ responses' \in [Clients -> Seq(Response)]
           /\ Len(requests[c]) \in Nat /\ Len(responses[c]) \in Nat
           /\ Len(requests'[c]) = Len(requests[c]) - 1
           /\ \A d \in Clients : d # c => /\ requests'[d] = requests[d]
                                          /\ responses'[d] = responses[d]
           /\ \A i \in 1..Len(requests'[c]) :
                 \E j \in 1..Len(requests[c]) : requests'[c][i] = requests[c][j]
           /\ \/ ~ is_async /\ c \notin sock /\ responses'[c] = responses[c]
              \/ /\ is_async \/ c \in sock
                 /\ Len(responses'[c]) = Len(responses[c]) + 1
                 /\ responses'[c][Len(responses[c]) + 1] = response
                 /\ \A i \in 1..Len(responses[c]) : responses'[c][i] = responses[c][i]
<1>1. /\ requests \in [Clients -> Seq(Request)] /\ responses \in [Clients -> Seq(Response)]
      /\ requests[c] \in Seq(Request) /\ responses[c] \in Seq(Response)
      /\ is_async \in BOOLEAN
  BY DEF TypeOK
<1>2. PICK q : q = Tail(requests[c])
  BY Zenon
<1>3. /\ q \in Seq(Request) /\ Len(q) = Len(requests[c]) - 1
      /\ \A i \in 1..Len(q) : i + 1 \in 1..Len(requests[c]) /\ q[i] = requests[c][i + 1]
      /\ Len(requests[c]) \in Nat
  BY <1>1, <1>2
<1>4. requests' = [requests EXCEPT ![c] = q]
  BY <1>2
<1>5. /\ requests' \in [Clients -> Seq(Request)]
      /\ requests'[c] = q
      /\ \A d \in Clients : d # c => requests'[d] = requests[d]
  BY <1>1, <1>3, <1>4
<1>6. PICK s : s = Append(responses[c], response)
  BY Zenon
<1>7. /\ s \in Seq(Response) /\ Len(s) = Len(responses[c]) + 1
      /\ Len(responses[c]) \in Nat
      /\ s[Len(responses[c]) + 1] = response
      /\ \A i \in 1..Len(responses[c]) : s[i] = responses[c][i]
  BY <1>1, <1>6
<1>8. responses' = IF is_async \/ c \in sock THEN [responses EXCEPT ![c] = s]
                   ELSE responses
  BY <1>6 DEF SendBack
<1>9. CASE is_async \/ c \in sock
  <2>1. responses' = [responses EXCEPT ![c] = s]
    BY <1>8, <1>9
  <2>2. /\ responses' \in [Clients -> Seq(Response)]
        /\ responses'[c] = s
        /\ \A d \in Clients : d # c => responses'[d] = responses[d]
    BY <1>1, <1>7, <2>1
  <2> QED BY <1>3, <1>5, <1>7, <1>9, <2>2
<1>10. CASE ~ is_async /\ c \notin sock
  <2>1. responses' = responses
    BY <1>8, <1>10
  <2> QED BY <1>1, <1>3, <1>5, <1>7, <1>10, <2>1
<1> QED BY <1>9, <1>10

\* The server answers a request, of either transport.
LEMMA ProcessPreserves ==
    ASSUME IInv, NEW c \in Clients, Process(c)
    PROVE  IInv'
<1>1. PICK response \in Response : /\ ProcessRequest(c, Oldest(c), response)
                                   /\ SendBack(c, response)
  BY DEF Process, Oldest
<1>2. PICK r : r = Oldest(c)
  BY Zenon
<1>3. /\ requests[c] # <<>>
      /\ requests' = [requests EXCEPT ![c] = Tail(@)]
      /\ UNCHANGED <<now, is_async, sock, backlog, conn, phase, current_id,
                     opcode, retries, deadline, call_at, answer>>
  BY DEF Process, transportVars, clientVars
<1>4. TypeOK
  BY DEF IInv
<1>5. /\ r = requests[c][1] /\ r \in Request /\ 1 \in 1..Len(requests[c])
      /\ r.request_id \in RequestIds /\ r.opcode \in Opcodes
      /\ Used(c, r.request_id, r.opcode)
  BY <1>2, <1>3, <1>4, OldestUsed, Zenon
<1>6. ServerStep(c, r, response)
  BY <1>1, <1>2, <1>3, ProcessIsServerStep
<1>7. /\ requests' \in [Clients -> Seq(Request)]
      /\ responses' \in [Clients -> Seq(Response)]
      /\ Len(requests[c]) \in Nat /\ Len(responses[c]) \in Nat
      /\ Len(requests'[c]) = Len(requests[c]) - 1
      /\ \A d \in Clients : d # c => /\ requests'[d] = requests[d]
                                     /\ responses'[d] = responses[d]
      /\ \A i \in 1..Len(requests'[c]) :
            \E j \in 1..Len(requests[c]) : requests'[c][i] = requests[c][j]
      /\ \/ ~ is_async /\ c \notin sock /\ responses'[c] = responses[c]
         \/ /\ is_async \/ c \in sock
            /\ Len(responses'[c]) = Len(responses[c]) + 1
            /\ responses'[c][Len(responses[c]) + 1] = response
            /\ \A i \in 1..Len(responses[c]) : responses'[c][i] = responses[c][i]
  BY <1>1, <1>3, <1>4, ProcessQueues
<1>8. \A d \in Clients : \A i \in 1..Len(requests'[d]) :
          \E j \in 1..Len(requests[d]) : requests'[d][i] = requests[d][j]
  <2> SUFFICES ASSUME NEW d \in Clients, NEW i \in 1..Len(requests'[d])
               PROVE  \E j \in 1..Len(requests[d]) : requests'[d][i] = requests[d][j]
    BY Zenon
  <2>1. CASE d = c
    BY <2>1, <1>7
  <2>2. CASE d # c
    BY <2>2, <1>7
  <2> QED BY <2>1, <2>2
<1>9. TypeOK'
  <2>1. /\ cache' \in [DOMAIN cache' -> CacheEntry']
        /\ DOMAIN cache' \subseteq (Clients \cup {default_client}) \X RequestIds \X Opcodes
        /\ effects' \in Seq(Effect)
    BY <1>6 DEF ServerStep, CacheShape
  <2> QED BY <2>1, <1>3, <1>4, <1>7 DEF TypeOK, CacheEntry
<1>10. \A d \in Clients, id \in AnyId, op \in AnyOpcode :
          Used(d, id, op)' => Used(d, id, op)
  <2> SUFFICES ASSUME NEW d \in Clients, NEW id \in AnyId, NEW op \in AnyOpcode,
                      Used(d, id, op)'
               PROVE  Used(d, id, op)
    BY Zenon
  <2>1. CASE id = current_id'[d] /\ op = opcode'[d]
    BY <2>1, <1>3 DEF Used
  <2>2. CASE \E i \in 1..Len(requests'[d]) :
                requests'[d][i].request_id = id /\ requests'[d][i].opcode = op
    BY <2>2, <1>8 DEF Used
  <2>3. CASE Known(d, id, op)'
    <3>1. Known(d, id, op) \/ (d = c /\ id = r.request_id /\ op = r.opcode)
      BY <2>3, <1>6 DEF ServerStep
    <3> QED BY <3>1, <1>5 DEF Used
  <2> QED BY <2>1, <2>2, <2>3 DEF Used
<1>11. OneOpcode'
  BY <1>10, <1>3 DEF IInv, OneOpcode
<1>12. CacheSound'
  <2>1. \A k \in DOMAIN cache' : /\ cache'[k].response_data.request_id = k[2]
                                 /\ cache'[k].response_data.opcode = k[3]
    BY <1>6 DEF ServerStep, CacheShape
  <2>2. ASSUME NEW d \in Clients, NEW id \in RequestIds, NEW op \in Opcodes,
               Known(d, id, op)'
        PROVE  Truthful(d, cache[Key(d, id, op)].response_data)'
    <3>1. CASE Known(d, id, op)
      <4>1. PICK v : v = cache[Key(d, id, op)].response_data
        BY Zenon
      <4>2. /\ cache'[Key(d, id, op)].response_data = v
            /\ Done(d, id)' <=> Done(d, id)
        BY <3>1, <4>1, <1>6 DEF ServerStep
      <4>3. Truthful(d, v) /\ v.request_id = id
        <5>1. Key(d, id, op) \in DOMAIN cache /\ Key(d, id, op)[2] = id
          BY <3>1 DEF Known, Key
        <5> QED BY <4>1, <5>1, <3>1 DEF IInv, CacheSound
      <4>4. Truthful(d, v)'
        BY <4>2, <4>3 DEF Truthful
      <4> QED BY <4>2, <4>4 DEF Truthful
    <3>2. CASE /\ d = c /\ id = r.request_id /\ op = r.opcode
               /\ cache'[Key(d, id, op)] = [response_data |-> response, timestamp |-> now]
      <4>1. cache'[Key(d, id, op)].response_data = response
        BY <3>2
      <4>2. Truthful(c, response)'
        BY <1>6 DEF ServerStep
      <4> QED BY <3>2, <4>1, <4>2 DEF Truthful
    <3>3. id \in AnyId /\ op \in AnyOpcode
      BY DEF AnyId, AnyOpcode
    <3> QED BY <2>2, <3>1, <3>2, <3>3, <1>6 DEF ServerStep
  <2> QED BY <2>1, <2>2 DEF CacheSound
<1>13. EffectsKnown' /\ EffectOnce'
  BY <1>6 DEF ServerStep
<1>14. AnswersSound'
  <2>1. ASSUME NEW d \in Clients, NEW v \in Response,
               Known(d, v.request_id, v.opcode), Truthful(d, v)
        PROVE  Known(d, v.request_id, v.opcode)' /\ Truthful(d, v)'
    <3>1. v.request_id \in RequestIds /\ v.opcode \in Opcodes
      BY DEF Response
    <3> QED BY <2>1, <3>1, <1>6 DEF ServerStep, Truthful
  <2>2. Known(c, response.request_id, response.opcode)' /\ Truthful(c, response)'
    BY <1>6 DEF ServerStep, Known
  <2>3. ASSUME NEW d \in Clients, NEW i \in 1..Len(responses[d])
        PROVE  /\ Known(d, responses[d][i].request_id, responses[d][i].opcode)
               /\ Truthful(d, responses[d][i])
               /\ responses[d][i] \in Response
    <3>1. responses[d] \in Seq(Response)
      BY <1>4 DEF TypeOK
    <3>2. AnswersSound
      BY DEF IInv
    <3> QED BY <3>1, <3>2 DEF AnswersSound
  <2>4. ASSUME NEW d \in Clients, NEW i \in 1..Len(responses'[d])
        PROVE  /\ Key(d, responses'[d][i].request_id, responses'[d][i].opcode) \in DOMAIN cache'
               /\ Truthful(d, responses[d][i])'
    <3>1. \/ i \in 1..Len(responses[d]) /\ responses'[d][i] = responses[d][i]
          \/ d = c /\ responses'[d][i] = response
      BY <1>7, <2>4
    <3>2. PICK v : v = responses'[d][i]
      BY Zenon
    <3>3. Known(d, v.request_id, v.opcode)' /\ Truthful(d, v)'
      BY <3>1, <3>2, <2>1, <2>2, <2>3
    <3> QED BY <3>2, <3>3 DEF Known, Truthful
  <2>5. ASSUME NEW d \in Clients, NEW v \in answer'[d]
        PROVE  /\ v.request_id = current_id'[d]
               /\ Known(d, v.request_id, v.opcode)'
               /\ Truthful(d, v)'
    <3>1. v \in answer[d] /\ v \in Response
      BY <1>3, <1>4 DEF TypeOK
    <3>2. v.request_id = current_id[d] /\ Known(d, v.request_id, v.opcode) /\ Truthful(d, v)
      BY <3>1 DEF IInv, AnswersSound
    <3> QED BY <3>1, <3>2, <2>1, <1>3
  <2> QED BY <2>4, <2>5 DEF AnswersSound, Known
<1>15. CallsInTime'
  BY <1>3 DEF IInv, CallsInTime
<1>16. CopiesInTime'
  BY <1>3, <1>8 DEF IInv, CopiesInTime
<1>17. EntriesYoung'
  <2>1. ASSUME NEW d \in Clients, NEW id \in AnyId, NEW op \in AnyOpcode,
               NEW t \in Nat, t <= now, Known(d, id, op)',
               Known(d, id, op) => t <= cache[Key(d, id, op)].timestamp
        PROVE  t <= cache'[Key(d, id, op)].timestamp
    <3>1. CASE Known(d, id, op)
      <4>1. id \in RequestIds /\ op \in Opcodes
        BY <3>1, <1>4 DEF Known, Key, TypeOK
      <4> QED BY <3>1, <4>1, <2>1, <1>6 DEF ServerStep
    <3>2. CASE cache'[Key(d, id, op)] = [response_data |-> response, timestamp |-> now]
      BY <3>2, <2>1
    <3> QED BY <2>1, <3>1, <3>2, <1>6 DEF ServerStep
  <2>2. ASSUME NEW d \in Clients, Known(d, current_id[d], opcode[d])'
        PROVE  call_at'[d] <= cache'[Key(d, current_id'[d], opcode'[d])].timestamp
    <3>1. PICK id \in AnyId, op \in AnyOpcode : id = current_id[d] /\ op = opcode[d]
      BY <1>4 DEF TypeOK, AnyId, AnyOpcode
    <3>2. call_at[d] \in Nat /\ call_at[d] <= now
      BY <1>4 DEF IInv, CallsInTime, TypeOK
    <3>3. Known(d, id, op) => call_at[d] <= cache[Key(d, id, op)].timestamp
      BY <3>1 DEF IInv, EntriesYoung
    <3>4. Known(d, id, op)'
      BY <2>2, <3>1, <1>3 DEF Known
    <3>5. PICK t \in Nat : t = call_at[d]
      BY <3>2
    <3>6. t <= cache'[Key(d, id, op)].timestamp
      BY <2>1, <3>2, <3>3, <3>4, <3>5
    <3> QED BY <3>1, <3>5, <3>6, <1>3
  <2>3. ASSUME NEW d \in Clients, NEW i \in 1..Len(requests'[d]),
               NEW v, v = requests'[d][i], Known(d, v.request_id, v.opcode)'
        PROVE  is_async' /\ v.call_at <= cache'[Key(d, v.request_id, v.opcode)].timestamp
    <3>1. PICK j \in 1..Len(requests[d]) : v = requests[d][j]
      BY <1>8, <2>3
    <3>2. v \in Request
      BY <3>1, <1>4 DEF TypeOK
    <3>3. v.request_id \in AnyId /\ v.opcode \in AnyOpcode /\ v.call_at \in Nat
      BY <3>2 DEF Request, AnyId, AnyOpcode
    <3>4. v.call_at <= now
      BY <3>1 DEF IInv, CopiesInTime
    <3>5. Known(d, v.request_id, v.opcode) =>
             is_async /\ v.call_at <= cache[Key(d, v.request_id, v.opcode)].timestamp
      BY <3>1 DEF IInv, EntriesYoung
    <3>6. v.call_at <= cache'[Key(d, v.request_id, v.opcode)].timestamp
      BY <2>1, <2>3, <3>3, <3>4, <3>5
    <3>7. is_async
      <4>1. CASE Known(d, v.request_id, v.opcode)
        BY <4>1, <3>5
      <4>2. CASE d = c
        <5>1. Len(requests[c]) >= 2
          BY <4>2, <2>3, <1>7
        <5> QED BY <5>1, <1>4, <1>7 DEF IInv, OneOverTcp, TypeOK
      <4> QED BY <4>1, <4>2, <2>3, <3>3, <1>6 DEF ServerStep
    <3> QED BY <3>6, <3>7, <1>3
  <2> QED BY <2>2, <2>3 DEF EntriesYoung, Known
<1>18. OneOverTcp'
  <2> SUFFICES ASSUME ~ is_async, NEW d \in Clients
               PROVE  /\ Len(requests'[d]) <= 1
                      /\ phase'[d] = "PAUSED" => d \notin sock'
                      /\ d \notin sock' => responses'[d] = <<>>
                      /\ d \in sock' => Len(requests'[d]) + Len(responses'[d]) <= 1
                      /\ d \in sock' /\ Len(requests'[d]) = 1 =>
                            /\ phase'[d] = "WAITING"
                            /\ requests'[d][1].request_id = current_id'[d]
                      /\ Len(responses'[d]) = 1 =>
                            phase'[d] = "WAITING" /\ responses'[d][1].request_id = current_id'[d]
    BY <1>3 DEF OneOverTcp, Awaits
  <2>1. OneOverTcp
    BY DEF IInv
  <2>2. CASE d # c
    BY <2>1, <2>2, <1>3, <1>7 DEF OneOverTcp, Awaits
  <2>3. CASE d = c
    <3>4. /\ Len(requests[c]) <= 1
          /\ phase[c] = "PAUSED" => c \notin sock
          /\ c \notin sock => responses[c] = <<>>
          /\ c \in sock => Len(requests[c]) + Len(responses[c]) <= 1
          /\ c \in sock /\ Len(requests[c]) = 1 =>
                phase[c] = "WAITING" /\ requests[c][1].request_id = current_id[c]
      BY <2>1 DEF OneOverTcp
    <3>1. Len(requests[c]) = 1 /\ Len(requests'[c]) = 0
      <4>1. 1 \in 1..Len(requests[c]) /\ Len(requests[c]) \in Nat
            /\ Len(requests'[c]) = Len(requests[c]) - 1
        BY <1>5, <1>7
      <4>2. PICK n \in Nat : n = Len(requests[c])
        BY <4>1
      <4>3. n <= 1
        BY <4>2, <3>4
      <4>5. 1 \in 1..n
        BY <4>1, <4>2, Zenon
      <4>4. n = 1
        BY <4>3, <4>5
      <4> QED BY <4>1, <4>2, <4>4
    <3>2. CASE c \in sock
      <4>1. Len(responses[c]) = 0 /\ phase[c] = "WAITING" /\ r.request_id = current_id[c]
        BY <3>4, <3>1, <3>2, <1>5, <1>7
      <4>2. Len(responses'[c]) = 1 /\ responses'[c][1] = response
        BY <4>1, <3>2, <1>7
      <4>3. response.request_id = r.request_id
        BY <1>6 DEF ServerStep
      <4> QED BY <3>4, <2>3, <3>1, <3>2, <4>1, <4>2, <4>3, <1>3
    <3>3. CASE c \notin sock
      <4>1. responses'[c] = responses[c]
        BY <3>3, <1>7
      <4>2. responses'[c] = <<>> /\ Len(responses'[c]) = 0
        BY <4>1, <3>3, <3>4
      <4> QED BY <2>3, <3>1, <3>3, <4>2, <1>3
    <3> QED BY <3>2, <3>3
  <2> QED BY <2>2, <2>3
<1> QED BY <1>9, <1>11, <1>12, <1>13, <1>14, <1>15, <1>16, <1>17, <1>18 DEF IInv

-----------------------------------------------------------------------------
(***************************************************************************)
(* The clients.                                                            *)
(***************************************************************************)

\* A client does not touch what the server has written down.
LEMMA ServerFrame ==
    ASSUME CacheSound, EffectsKnown, EffectOnce, UNCHANGED <<cache, effects>>
    PROVE  CacheSound' /\ EffectsKnown' /\ EffectOnce'
<1>1. \A d, v : Truthful(d, v)' <=> Truthful(d, v)
  BY DEF Truthful, Done
<1>2. \A d, id, op : Known(d, id, op)' <=> Known(d, id, op)
  BY DEF Known
<1>3. CacheSound'
  <2>1. \A d \in Clients : \A id \in RequestIds, op \in Opcodes :
          Known(d, id, op)' => Truthful(d, cache'[Key(d, id, op)].response_data)
    BY <1>2 DEF CacheSound
  <2> QED BY <2>1 DEF CacheSound, Truthful, Done
<1> QED BY <1>3 DEF EffectsKnown, EffectOnce, Known

\* Nor does it make answers up: each comes from the queue.
LEMMA AnswersFrame ==
    ASSUME AnswersSound, UNCHANGED <<cache, effects>>,
           \A d \in Clients : \A i \in 1..Len(responses'[d]) :
              \E j \in 1..Len(responses[d]) : responses'[d][i] = responses[d][j],
           \A d \in Clients : \A v \in answer'[d] :
              /\ v.request_id = current_id'[d]
              /\ \/ v \in answer[d]
                 \/ \E j \in 1..Len(responses[d]) : v = responses[d][j]
    PROVE  AnswersSound'
<1>1. \A d, v : Truthful(d, v)' <=> Truthful(d, v)
  BY DEF Truthful, Done
<1>2. \A d, id, op : Known(d, id, op)' <=> Known(d, id, op)
  BY DEF Known
<1>3. ASSUME NEW d \in Clients, NEW i \in 1..Len(responses'[d])
      PROVE  /\ Key(d, responses'[d][i].request_id, responses'[d][i].opcode) \in DOMAIN cache'
             /\ Truthful(d, responses[d][i])'
  <2>1. PICK j \in 1..Len(responses[d]) : responses'[d][i] = responses[d][j]
    BY <1>3
  <2>2. PICK v : v = responses[d][j]
    BY Zenon
  <2>3. Known(d, v.request_id, v.opcode) /\ Truthful(d, v)
    BY <2>2 DEF AnswersSound
  <2>4. Truthful(d, v)'
    BY <2>3, <1>1
  <2> QED BY <2>1, <2>2, <2>3, <2>4 DEF Known, Truthful
<1>4. ASSUME NEW d \in Clients, NEW v \in answer'[d]
      PROVE  /\ v.request_id = current_id'[d]
             /\ Known(d, v.request_id, v.opcode)'
             /\ Truthful(d, v)'
  <2>1. Known(d, v.request_id, v.opcode) /\ Truthful(d, v)
    BY <1>4 DEF AnswersSound
  <2> QED BY <1>1, <1>2, <1>4, <2>1
<1> QED BY <1>3, <1>4 DEF AnswersSound, Known

\* Where no copy is sent and no call begins, these parts stay as they are.
LEMMA RequestsFrame ==
    ASSUME OneOpcode, CopiesInTime, EntriesYoung,
           UNCHANGED <<cache, requests, current_id, opcode, call_at, is_async, now>>
    PROVE  OneOpcode' /\ CopiesInTime' /\ EntriesYoung'
<1>1. OneOpcode'
  BY DEF OneOpcode, Used, Known
<1>2. CopiesInTime'
  BY DEF CopiesInTime
<1>3. EntriesYoung'
  BY DEF EntriesYoung, Known
<1> QED BY <1>1, <1>2, <1>3

\* An attempt has failed: the client pauses or gives up, and a synchronous
\* transport is closed and empty.
LEMMA FailedStep ==
    ASSUME TypeOK, CallsInTime, OneOverTcp,
           NEW c \in Clients, NEW n \in 1..(MAX_RETRIES + 1), Failed(c, n),
           UNCHANGED <<now, is_async, requests>>,
           \A d \in Clients : d # c => /\ current_id'[d] = current_id[d]
                                       /\ opcode'[d] = opcode[d]
                                       /\ call_at'[d] = call_at[d],
           current_id'[c] \in RequestIds, opcode'[c] \in Opcodes,
           call_at'[c] \in Nat, call_at'[c] <= now,
           is_async => now + MAX_RTO <= call_at'[c] + n * Round
    PROVE  /\ sock' \subseteq Clients
           /\ phase' \in [Clients -> {"IDLE", "WAITING", "PAUSED"}]
           /\ retries' \in [Clients -> 0..(MAX_RETRIES + 1)]
           /\ deadline' \in [Clients -> Int]
           /\ responses' \in [Clients -> Seq(Response)]
           /\ \A d \in Clients : \A i \in 1..Len(responses'[d]) :
                 \E j \in 1..Len(responses[d]) : responses'[d][i] = responses[d][j]
           /\ CallsInTime'
           /\ OneOverTcp'
<1>1. /\ sock \subseteq Clients /\ now \in Nat /\ is_async \in BOOLEAN
      /\ phase \in [Clients -> {"IDLE", "WAITING", "PAUSED"}]
      /\ retries \in [Clients -> 0..(MAX_RETRIES + 1)]
      /\ deadline \in [Clients -> Int]
      /\ responses \in [Clients -> Seq(Response)]
      /\ requests \in [Clients -> Seq(Request)]
      /\ call_at \in [Clients -> Nat]
  BY DEF TypeOK
<1>2. Pause(n) \in Int /\ Pause(n) <= MAX_RTO /\ MAX_RETRIES \in Nat
  BY PauseBound, TimingAssumption
<1>3. /\ sock' = sock \ {c}
      /\ responses' = IF is_async THEN responses ELSE [responses EXCEPT ![c] = <<>>]
      /\ retries' = [retries EXCEPT ![c] = n]
  BY DEF Failed, Closed
<1>4. \/ /\ phase' = [phase EXCEPT ![c] = "IDLE"]
         /\ deadline' = deadline
      \/ /\ phase' = [phase EXCEPT ![c] = "PAUSED"]
         /\ deadline' = [deadline EXCEPT ![c] = now + Pause(n)]
         /\ n <= MAX_RETRIES
  <2>1. CASE n > MAX_RETRIES
    BY <2>1 DEF Failed, GivesUp
  <2>2. CASE ~ (n > MAX_RETRIES)
    BY <2>2, <1>2 DEF Failed, GivesUp
  <2> QED BY <2>1, <2>2
<1>5. /\ sock' \subseteq Clients
      /\ phase' \in [Clients -> {"IDLE", "WAITING", "PAUSED"}]
      /\ retries' \in [Clients -> 0..(MAX_RETRIES + 1)]
  <2>1. n \in 0..(MAX_RETRIES + 1)
    BY <1>2
  <2>2. retries' \in [Clients -> 0..(MAX_RETRIES + 1)]
    BY <2>1, <1>1, <1>3
  <2> QED BY <2>2, <1>1, <1>3, <1>4
<1>6. deadline' \in [Clients -> Int]
  <2>1. now + Pause(n) \in Int
    BY <1>1, <1>2
  <2> QED BY <2>1, <1>1, <1>4
<1>7. /\ responses' \in [Clients -> Seq(Response)]
      /\ \A d \in Clients : responses'[d] = responses[d] \/ responses'[d] = <<>>
      /\ is_async \/ responses'[c] = <<>>
      /\ \A d \in Clients : d # c => responses'[d] = responses[d]
  BY <1>1, <1>3
<1>8. \A d \in Clients : \A i \in 1..Len(responses'[d]) :
          \E j \in 1..Len(responses[d]) : responses'[d][i] = responses[d][j]
  <2> SUFFICES ASSUME NEW d \in Clients, NEW i \in 1..Len(responses'[d])
               PROVE  \E j \in 1..Len(responses[d]) : responses'[d][i] = responses[d][j]
    BY Zenon
  <2>1. CASE responses'[d] = responses[d]
    BY <2>1
  <2>2. CASE responses'[d] = <<>>
    BY <2>2
  <2> QED BY <2>1, <2>2, <1>7
<1>9. \A d \in Clients : d # c => /\ phase'[d] = phase[d]
                                  /\ retries'[d] = retries[d]
                                  /\ deadline'[d] = deadline[d]
  BY <1>1, <1>3, <1>4
<1>10. /\ phase'[c] # "WAITING"
       /\ phase'[c] = "PAUSED" => /\ deadline'[c] = now + Pause(n)
                                  /\ retries'[c] = n
                                  /\ n <= MAX_RETRIES
       /\ phase'[c] # "IDLE" => phase'[c] = "PAUSED"
  BY <1>1, <1>3, <1>4
<1>11. CallsInTime'
  <2> SUFFICES ASSUME NEW d \in Clients
               PROVE  /\ call_at'[d] <= now
                      /\ phase'[d] # "IDLE" =>
                           /\ current_id'[d] \in RequestIds
                           /\ opcode'[d] \in Opcodes
                           /\ retries'[d] <= MAX_RETRIES
                      /\ is_async /\ phase'[d] = "WAITING" =>
                           /\ now <= call_at'[d] + retries'[d] * Round + timeout
                           /\ deadline'[d] <= call_at'[d] + retries'[d] * Round + timeout
                      /\ is_async /\ phase'[d] = "PAUSED" =>
                           /\ now <= call_at'[d] + retries'[d] * Round
                           /\ deadline'[d] <= call_at'[d] + retries'[d] * Round
    BY DEF CallsInTime, Round
  <2>1. CASE d # c
    BY <2>1, <1>9 DEF CallsInTime
  <2>2. CASE d = c
    <3>1. CASE phase'[c] = "PAUSED"
      <4>4. n * Round \in Nat
        BY <1>10, <3>1, Rounds
      <4>1. PICK m \in Nat, b \in Nat, p \in Int :
                m = n * Round /\ b = call_at'[c] /\ p = Pause(n)
        BY <4>4, <1>2
      <4>2. is_async => now + MAX_RTO <= b + m
        BY <4>1
      <4>3. ASSUME is_async PROVE now <= b + m /\ now + p <= b + m
        <5>1. now + MAX_RTO <= b + m /\ p <= MAX_RTO /\ now \in Nat /\ MAX_RTO \in Nat
          BY <4>1, <4>2, <4>3, <1>1, <1>2, TimingAssumption
        <5> QED BY <5>1
      <4> QED BY <2>2, <3>1, <4>1, <4>3, <1>10
    <3> QED BY <2>2, <3>1, <1>10
  <2> QED BY <2>1, <2>2
<1>12. OneOverTcp'
  <2> SUFFICES ASSUME ~ is_async, NEW d \in Clients
               PROVE  /\ Len(requests[d]) <= 1
                      /\ phase'[d] = "PAUSED" => d \notin sock'
                      /\ d \notin sock' => responses'[d] = <<>>
                      /\ d \in sock' => Len(requests[d]) + Len(responses'[d]) <= 1
                      /\ d \in sock' /\ Len(requests[d]) = 1 =>
                            /\ phase'[d] = "WAITING"
                            /\ requests[d][1].request_id = current_id'[d]
                      /\ Len(responses'[d]) = 1 =>
                            phase'[d] = "WAITING" /\ responses'[d][1].request_id = current_id'[d]
    BY DEF OneOverTcp, Awaits
  <2>1. CASE d # c
    BY <2>1, <1>3, <1>7, <1>9 DEF OneOverTcp, Awaits
  <2>2. CASE d = c
    <3>1. d \notin sock' /\ responses'[d] = <<>> /\ Len(responses'[d]) = 0
      BY <2>2, <1>3, <1>7
    <3>2. Len(requests[d]) <= 1
      BY DEF OneOverTcp
    <3> QED BY <3>1, <3>2
  <2> QED BY <2>1, <2>2
<1> QED BY <1>5, <1>6, <1>7, <1>8, <1>11, <1>12

\* A copy is sent: the first of a new call, or one more of the current call.
LEMMA SentStep ==
    ASSUME IInv, NEW c \in Clients, NEW id \in RequestIds, NEW op \in Opcodes,
           NEW began \in Nat, NEW n \in 0..MAX_RETRIES,
           CanSend(c), phase[c] # "WAITING",
           Attempt(c, id, op, began, n),
           UNCHANGED <<cache, effects, now, is_async>>,
           \A d \in Clients : d # c => /\ current_id'[d] = current_id[d]
                                       /\ opcode'[d] = opcode[d]
                                       /\ call_at'[d] = call_at[d],
           current_id'[c] = id, opcode'[c] = op, call_at'[c] = began,
           began <= now,
           is_async => now <= began + n * Round,
           Known(c, id, op) =>
              is_async /\ began <= cache[Key(c, id, op)].timestamp
    PROVE  /\ sock' = sock /\ responses' = responses
           /\ phase' \in [Clients -> {"IDLE", "WAITING", "PAUSED"}]
           /\ retries' \in [Clients -> 0..(MAX_RETRIES + 1)]
           /\ deadline' \in [Clients -> Int]
           /\ requests' \in [Clients -> Seq(Request)]
           /\ \A d \in Clients : \A i \in 1..Len(requests'[d]) :
                 \/ \E j \in 1..Len(requests[d]) : requests'[d][i] = requests[d][j]
                 \/ /\ d = c
                    /\ requests'[d][i].request_id = id
                    /\ requests'[d][i].opcode = op
           /\ CallsInTime' /\ CopiesInTime' /\ EntriesYoung' /\ OneOverTcp'
<1> DEFINE rec == [request_id |-> id, opcode |-> op, sent_at |-> now, call_at |-> began]
<1>1. /\ sock \subseteq Clients /\ now \in Nat /\ is_async \in BOOLEAN
      /\ phase \in [Clients -> {"IDLE", "WAITING", "PAUSED"}]
      /\ retries \in [Clients -> 0..(MAX_RETRIES + 1)]
      /\ deadline \in [Clients -> Int]
      /\ responses \in [Clients -> Seq(Response)]
      /\ requests \in [Clients -> Seq(Request)]
      /\ requests[c] \in Seq(Request)
      /\ MAX_RETRIES \in Nat
  BY TimingAssumption DEF IInv, TypeOK
<1>2. /\ requests' = [requests EXCEPT ![c] = Append(@, rec)]
      /\ retries' = [retries EXCEPT ![c] = n]
      /\ phase' = [phase EXCEPT ![c] = "WAITING"]
      /\ deadline' = [deadline EXCEPT ![c] = now + Wait]
      /\ sock' = sock /\ responses' = responses
  BY DEF Attempt, WithCopy
<1>3. /\ rec \in Request /\ rec.request_id = id /\ rec.opcode = op
      /\ rec.sent_at = now /\ rec.call_at = began
  BY <1>1 DEF Request
<1> HIDE DEF rec
<1>4. Wait \in Int /\ (is_async => Wait = timeout)
  BY TimingAssumption DEF Wait
<1>5. /\ retries' \in [Clients -> 0..(MAX_RETRIES + 1)]
      /\ retries'[c] = n /\ \A d \in Clients : d # c => retries'[d] = retries[d]
  <2>1. n \in 0..(MAX_RETRIES + 1)
    BY <1>1
  <2> QED BY <2>1, <1>1, <1>2
<1>6. /\ phase' \in [Clients -> {"IDLE", "WAITING", "PAUSED"}]
      /\ phase'[c] = "WAITING" /\ \A d \in Clients : d # c => phase'[d] = phase[d]
  BY <1>1, <1>2
<1>7. /\ deadline' \in [Clients -> Int]
      /\ deadline'[c] = now + Wait
      /\ \A d \in Clients : d # c => deadline'[d] = deadline[d]
  <2>1. now + Wait \in Int
    BY <1>1, <1>4
  <2> QED BY <2>1, <1>1, <1>2
<1>8. /\ requests' \in [Clients -> Seq(Request)]
      /\ \A d \in Clients : d # c => requests'[d] = requests[d]
      /\ Len(requests[c]) \in Nat
      /\ Len(requests'[c]) = Len(requests[c]) + 1
      /\ requests'[c][Len(requests[c]) + 1] = rec
      /\ \A i \in 1..Len(requests[c]) : requests'[c][i] = requests[c][i]
  <2>1. PICK q : q = Append(requests[c], rec)
    BY Zenon
  <2>2. /\ q \in Seq(Request) /\ Len(requests[c]) \in Nat
        /\ Len(q) = Len(requests[c]) + 1 /\ q[Len(requests[c]) + 1] = rec
        /\ \A i \in 1..Len(requests[c]) : q[i] = requests[c][i]
    BY <2>1, <1>1, <1>3
  <2>3. requests' = [requests EXCEPT ![c] = q]
    BY <2>1, <1>2
  <2>4. /\ requests' \in [Clients -> Seq(Request)] /\ requests'[c] = q
        /\ \A d \in Clients : d # c => requests'[d] = requests[d]
    BY <2>2, <2>3, <1>1
  <2> QED BY <2>2, <2>4
<1>9. \A d \in Clients : \A i \in 1..Len(requests'[d]) :
          \/ \E j \in 1..Len(requests[d]) : requests'[d][i] = requests[d][j]
          \/ d = c /\ requests'[d][i] = rec
  <2> SUFFICES ASSUME NEW d \in Clients, NEW i \in 1..Len(requests'[d])
               PROVE  \/ \E j \in 1..Len(requests[d]) : requests'[d][i] = requests[d][j]
                      \/ d = c /\ requests'[d][i] = rec
    BY Zenon
  <2>1. CASE d = c
    <3>1. i \in 1..Len(requests[c]) \/ i = Len(requests[c]) + 1
      BY <2>1, <1>8
    <3> QED BY <2>1, <3>1, <1>8
  <2>2. CASE d # c
    BY <2>2, <1>8
  <2> QED BY <2>1, <2>2
<1>10. CallsInTime'
  <2> SUFFICES ASSUME NEW d \in Clients
               PROVE  /\ call_at'[d] <= now
                      /\ phase'[d] # "IDLE" =>
                           /\ current_id'[d] \in RequestIds
                           /\ opcode'[d] \in Opcodes
                           /\ retries'[d] <= MAX_RETRIES
                      /\ is_async /\ phase'[d] = "WAITING" =>
                           /\ now <= call_at'[d] + retries'[d] * Round + timeout
                           /\ deadline'[d] <= call_at'[d] + retries'[d] * Round + timeout
                      /\ is_async /\ phase'[d] = "PAUSED" =>
                           /\ now <= call_at'[d] + retries'[d] * Round
                           /\ deadline'[d] <= call_at'[d] + retries'[d] * Round
    BY DEF CallsInTime, Round
  <2>1. CASE d # c
    <3>1. CallsInTime
      BY DEF IInv
    <3>2. /\ retries'[d] = retries[d] /\ phase'[d] = phase[d]
          /\ deadline'[d] = deadline[d]
      BY <2>1, <1>5, <1>6, <1>7
    <3> QED BY <2>1, <3>1, <3>2 DEF CallsInTime
  <2>2. CASE d = c
    <3>1. n * Round \in Nat
      <4>1. n \in Nat /\ n <= MAX_RETRIES
        BY <1>1
      <4> QED BY <4>1, Rounds, Zenon
    <3>2. PICK m \in Nat : m = n * Round
      BY <3>1
    <3>3. ASSUME is_async PROVE now <= began + m + timeout /\ now + Wait <= began + m + timeout
      <4>1. now <= began + m /\ Wait = timeout /\ timeout \in Nat /\ now \in Nat
        BY <3>2, <3>3, <1>1, <1>4, TimingAssumption
      <4> QED BY <4>1
    <3> QED BY <2>2, <3>2, <3>3, <1>1, <1>5, <1>6, <1>7
  <2> QED BY <2>1, <2>2
<1>11. CopiesInTime'
  <2>1. CopiesInTime
    BY DEF IInv
  <2>2. is_async => rec.sent_at <= rec.call_at + MAX_RETRIES * Round /\ now <= rec.sent_at + MaxDelay
    <3> SUFFICES ASSUME is_async
                 PROVE  now <= began + MAX_RETRIES * Round /\ now <= now + MaxDelay
      BY <1>3
    <3>1. /\ n * Round \in Nat /\ MAX_RETRIES * Round \in Nat
          /\ n * Round <= MAX_RETRIES * Round
      BY <1>1, Rounds
    <3>2. PICK m \in Nat, k \in Nat : m = n * Round /\ k = MAX_RETRIES * Round
      BY <3>1
    <3>3. now <= began + m /\ m <= k /\ now \in Nat /\ MaxDelay \in Nat
      BY <3>1, <3>2, <1>1, TimingAssumption
    <3>4. now <= began + k /\ now <= now + MaxDelay
      BY <3>3
    <3> QED BY <3>2, <3>4
  <2> SUFFICES ASSUME NEW d \in Clients, NEW i \in 1..Len(requests'[d])
               PROVE  /\ requests'[d][i].call_at <= now
                      /\ is_async =>
                           /\ requests'[d][i].sent_at
                                <= requests'[d][i].call_at + MAX_RETRIES * Round
                           /\ now <= requests'[d][i].sent_at + MaxDelay
    BY DEF CopiesInTime, Round
  <2>3. CASE \E j \in 1..Len(requests[d]) : requests'[d][i] = requests[d][j]
    BY <2>1, <2>3 DEF CopiesInTime
  <2>4. CASE requests'[d][i] = rec
    BY <2>2, <2>4, <1>3
  <2> QED BY <2>3, <2>4, <1>9
<1>12. EntriesYoung'
  <2>1. EntriesYoung
    BY DEF IInv
  <2>2. ASSUME NEW d \in Clients, Known(d, current_id[d], opcode[d])'
        PROVE  call_at'[d] <= cache'[Key(d, current_id'[d], opcode'[d])].timestamp
    <3>1. CASE d = c
      BY <2>2, <3>1 DEF Known
    <3>2. CASE d # c
      BY <2>1, <2>2, <3>2 DEF Known, EntriesYoung
    <3> QED BY <3>1, <3>2
  <2>3. ASSUME NEW d \in Clients, NEW i \in 1..Len(requests'[d]),
               NEW v, v = requests'[d][i], Known(d, v.request_id, v.opcode)'
        PROVE  is_async' /\ v.call_at <= cache'[Key(d, v.request_id, v.opcode)].timestamp
    <3>1. CASE \E j \in 1..Len(requests[d]) : requests'[d][i] = requests[d][j]
      <4>1. PICK j \in 1..Len(requests[d]) : v = requests[d][j]
        BY <2>3, <3>1
      <4> QED BY <2>1, <2>3, <4>1 DEF EntriesYoung, Known
    <3>2. CASE d = c /\ requests'[d][i] = rec
      BY <2>3, <3>2, <1>3 DEF Known
    <3> QED BY <3>1, <3>2, <1>9
  <2> QED BY <2>2, <2>3 DEF EntriesYoung, Known
<1>13. OneOverTcp'
  <2> SUFFICES ASSUME ~ is_async, NEW d \in Clients
               PROVE  /\ Len(requests'[d]) <= 1
                      /\ phase'[d] = "PAUSED" => d \notin sock
                      /\ d \notin sock => responses[d] = <<>>
                      /\ d \in sock => Len(requests'[d]) + Len(responses[d]) <= 1
                      /\ d \in sock /\ Len(requests'[d]) = 1 =>
                            /\ phase'[d] = "WAITING"
                            /\ requests'[d][1].request_id = current_id'[d]
                      /\ Len(responses[d]) = 1 =>
                            phase'[d] = "WAITING" /\ responses[d][1].request_id = current_id'[d]
    BY <1>2 DEF OneOverTcp, Awaits
  <2>1. OneOverTcp
    BY DEF IInv
  <2>2. CASE d # c
    BY <2>1, <2>2, <1>6, <1>8 DEF OneOverTcp, Awaits
  <2>3. CASE d = c
    <3>1. c \in sock
      BY DEF CanSend
    <3>2. PICK m \in Nat, k \in Nat : m = Len(requests[c]) /\ k = Len(responses[c])
      <4>1. responses[c] \in Seq(Response)
        BY <1>1
      <4>2. Len(responses[c]) \in Nat
        BY <4>1
      <4> QED BY <4>2, <1>8
    <3>3. /\ m + k <= 1
          /\ m = 1 => phase[c] = "WAITING"
          /\ k = 1 => phase[c] = "WAITING"
      BY <2>1, <3>1, <3>2 DEF OneOverTcp, Awaits
    <3>4. m = 0 /\ k = 0
      BY <3>3
    <3>5. Len(requests'[c]) = 1 /\ requests'[c][1] = rec
      <4>1. Len(requests[c]) = 0
        BY <3>2, <3>4
      <4>2. Len(requests[c]) + 1 = 1
        BY <4>1
      <4> QED BY <4>2, <1>8, Zenon
    <3> QED BY <2>3, <3>1, <3>2, <3>4, <3>5, <1>3, <1>6
  <2> QED BY <2>2, <2>3
<1>14. \A d \in Clients : \A i \in 1..Len(requests'[d]) :
          \/ \E j \in 1..Len(requests[d]) : requests'[d][i] = requests[d][j]
          \/ /\ d = c
             /\ requests'[d][i].request_id = id
             /\ requests'[d][i].opcode = op
  BY <1>3, <1>9
<1> QED BY <1>2, <1>5, <1>6, <1>7, <1>8, <1>10, <1>11, <1>12, <1>13, <1>14

\* A call begins.
LEMMA ExecutePreserves ==
    ASSUME IInv, NEW c \in Clients, NEW op \in Opcodes, Execute(c, op)
    PROVE  IInv'
<1>1. PICK id : id = current_id[c] + 1
  BY Zenon
<1>2. /\ phase[c] = "IDLE" /\ id \in RequestIds
      /\ current_id' = [current_id EXCEPT ![c] = id]
      /\ opcode' = [opcode EXCEPT ![c] = op]
      /\ call_at' = [call_at EXCEPT ![c] = now]
      /\ answer' = [answer EXCEPT ![c] = {}]
      /\ Attempt(c, id, op, now, 0)
      /\ UNCHANGED <<cache, now, effects, is_async, backlog, conn>>
  BY <1>1 DEF Execute
<1>3. TypeOK /\ now \in Nat /\ is_async \in BOOLEAN /\ MAX_RETRIES \in Nat
  BY TimingAssumption DEF IInv, TypeOK
<1>4. /\ current_id' \in [Clients -> AnyId] /\ current_id'[c] = id
      /\ opcode' \in [Clients -> AnyOpcode] /\ opcode'[c] = op
      /\ call_at' \in [Clients -> Nat] /\ call_at'[c] = now
      /\ answer' \in [Clients -> SUBSET Response] /\ answer'[c] = {}
      /\ \A d \in Clients : d # c => /\ current_id'[d] = current_id[d]
                                     /\ opcode'[d] = opcode[d]
                                     /\ call_at'[d] = call_at[d]
                                     /\ answer'[d] = answer[d]
  BY <1>2, <1>3 DEF TypeOK, AnyId, AnyOpcode
<1>5. current_id[c] \in Nat /\ id > current_id[c] /\ id \in AnyId /\ op \in AnyOpcode
  <2>1. current_id[c] \in Nat
    BY <1>3, RequestIdsAssumption DEF TypeOK
  <2> QED BY <2>1, <1>1, <1>2 DEF AnyId, AnyOpcode
<1>6. \A o \in AnyOpcode : ~ Used(c, id, o)
  <2> SUFFICES ASSUME NEW o \in AnyOpcode, Used(c, id, o) PROVE FALSE
    BY Zenon
  <2>1. id <= current_id[c]
    BY <1>5 DEF IInv, OneOpcode
  <2> QED BY <2>1, <1>1, <1>5
<1>7. ~ Known(c, id, op)
  BY <1>5, <1>6 DEF Used
<1>8. \A d, j, o : Known(d, j, o)' <=> Known(d, j, o)
  BY <1>2 DEF Known
<1>9. ASSUME \A d \in Clients : \A i \in 1..Len(requests'[d]) :
                \/ \E j \in 1..Len(requests[d]) : requests'[d][i] = requests[d][j]
                \/ /\ d = c
                   /\ requests'[d][i].request_id = id
                   /\ requests'[d][i].opcode = op
      PROVE  OneOpcode'
  <2>1. ASSUME NEW d \in Clients, NEW j \in AnyId, NEW o \in AnyOpcode, Used(d, j, o)'
        PROVE  Used(d, j, o) \/ (d = c /\ j = id /\ o = op)
    <3>1. CASE j = current_id'[d] /\ o = opcode'[d]
      BY <3>1, <1>4 DEF Used
    <3>2. CASE \E i \in 1..Len(requests'[d]) :
                  requests'[d][i].request_id = j /\ requests'[d][i].opcode = o
      BY <3>2, <1>9 DEF Used
    <3>3. CASE Known(d, j, o)'
      BY <3>3, <1>8 DEF Used
    <3> QED BY <2>1, <3>1, <3>2, <3>3 DEF Used
  <2>2. OneOpcode
    BY DEF IInv
  <2>3. ASSUME NEW d \in Clients, NEW j \in AnyId, NEW o \in AnyOpcode, Used(d, j, o)'
        PROVE  j <= current_id'[d]
    <3>1. j \in Nat /\ id \in Nat
      BY <1>2, RequestIdsAssumption DEF AnyId
    <3>2. CASE Used(d, j, o)
      <4>1. j <= current_id[d]
        BY <2>2, <3>2 DEF OneOpcode
      <4>2. CASE d = c
        BY <4>1, <4>2, <3>1, <1>4, <1>5
      <4> QED BY <4>1, <4>2, <1>4
    <3>3. CASE d = c /\ j = id /\ o = op
      BY <3>3, <3>1, <1>4
    <3> QED BY <2>1, <2>3, <3>2, <3>3
  <2>4. ASSUME NEW d \in Clients, NEW j \in AnyId, NEW o \in AnyOpcode, Used(d, j, o)',
               NEW p \in AnyOpcode, Used(d, j, p)'
        PROVE  o = p
    <3>1. CASE Used(d, j, o) /\ Used(d, j, p)
      BY <2>2, <3>1 DEF OneOpcode
    <3>2. CASE d = c /\ j = id
      BY <2>1, <2>4, <3>2, <1>6
    <3> QED BY <2>1, <2>4, <3>1, <3>2
  <2> QED BY <2>3, <2>4 DEF OneOpcode
<1>10. CacheSound' /\ EffectsKnown' /\ EffectOnce'
  BY <1>2, ServerFrame DEF IInv
<1>11. \A d \in Clients : \A v \in answer'[d] : v \in answer[d] /\ v.request_id = current_id'[d]
  <2> SUFFICES ASSUME NEW d \in Clients, NEW v \in answer'[d]
               PROVE  v \in answer[d] /\ v.request_id = current_id'[d]
    BY Zenon
  <2>1. d # c
    BY <1>4
  <2> QED BY <2>1, <1>4 DEF IInv, AnswersSound
<1>12. ASSUME sock' \subseteq Clients,
              phase' \in [Clients -> {"IDLE", "WAITING", "PAUSED"}],
              retries' \in [Clients -> 0..(MAX_RETRIES + 1)],
              deadline' \in [Clients -> Int],
              requests' \in [Clients -> Seq(Request)],
              responses' \in [Clients -> Seq(Response)]
       PROVE  TypeOK'
  BY <1>12, <1>2, <1>3, <1>4 DEF TypeOK, AnyId, AnyOpcode, CacheEntry
<1>13. CASE CanSend(c)
  <2>1. is_async => now <= now + 0 * Round
    <3>1. Round \in Nat /\ 0 * Round = 0
      BY TimingAssumption DEF Round
    <3> QED BY <3>1, <1>3
  <2>2. 0 \in 0..MAX_RETRIES
    BY <1>3
  <2>3. now <= now
    BY <1>3
  <2>4. /\ sock' = sock /\ responses' = responses
        /\ phase' \in [Clients -> {"IDLE", "WAITING", "PAUSED"}]
        /\ retries' \in [Clients -> 0..(MAX_RETRIES + 1)]
        /\ deadline' \in [Clients -> Int]
        /\ requests' \in [Clients -> Seq(Request)]
        /\ \A d \in Clients : \A i \in 1..Len(requests'[d]) :
              \/ \E j \in 1..Len(requests[d]) : requests'[d][i] = requests[d][j]
              \/ /\ d = c
                 /\ requests'[d][i].request_id = id
                 /\ requests'[d][i].opcode = op
        /\ CallsInTime' /\ CopiesInTime' /\ EntriesYoung' /\ OneOverTcp'
    <3>1. PICK b \in Nat : b = now
      BY <1>3
    <3>2. Attempt(c, id, op, b, 0)
      BY <3>1, <1>2 DEF Attempt, WithCopy
    <3>3. phase[c] # "WAITING"
      BY <1>2
    <3>4. b <= now /\ call_at'[c] = b /\ (is_async => now <= b + 0 * Round)
      BY <3>1, <1>4, <2>1, <2>3
    <3>5. UNCHANGED <<cache, effects, now, is_async>>
      BY <1>2
    <3> QED BY <3>2, <3>3, <3>4, <3>5, <2>2, <1>2, <1>4, <1>7, <1>13, SentStep
  <2>5. sock' \subseteq Clients /\ responses' \in [Clients -> Seq(Response)]
    BY <2>4, <1>3 DEF TypeOK
  <2>6. \A d \in Clients : \A i \in 1..Len(responses'[d]) :
           \E j \in 1..Len(responses[d]) : responses'[d][i] = responses[d][j]
    BY <2>4
  <2>7. AnswersSound'
    <3>1. AnswersSound /\ UNCHANGED <<cache, effects>>
      BY <1>2 DEF IInv
    <3> QED BY <3>1, <2>6, <1>11, AnswersFrame
  <2> QED BY <2>4, <2>5, <2>7, <1>9, <1>10, <1>12 DEF IInv
<1>14. CASE ~ CanSend(c)
  <2>1. ~ is_async /\ requests' = requests
    BY <1>2, <1>14 DEF CanSend, Attempt
  <2>2. Failed(c, 0 + 1)
    BY <1>2, <1>14 DEF Attempt
  <2>3. Failed(c, 1) /\ 1 \in 1..(MAX_RETRIES + 1) /\ now <= now
    BY <2>2, <1>3
  <2>4. /\ sock' \subseteq Clients
        /\ phase' \in [Clients -> {"IDLE", "WAITING", "PAUSED"}]
        /\ retries' \in [Clients -> 0..(MAX_RETRIES + 1)]
        /\ deadline' \in [Clients -> Int]
        /\ responses' \in [Clients -> Seq(Response)]
        /\ \A d \in Clients : \A i \in 1..Len(responses'[d]) :
              \E j \in 1..Len(responses[d]) : responses'[d][i] = responses[d][j]
        /\ CallsInTime' /\ OneOverTcp'
    <3>1. /\ CallsInTime /\ OneOverTcp /\ UNCHANGED <<now, is_async, requests>>
          /\ current_id'[c] \in RequestIds /\ opcode'[c] \in Opcodes
          /\ call_at'[c] \in Nat /\ call_at'[c] <= now
      BY <1>2, <1>3, <1>4, <2>1, <2>3 DEF IInv
    <3> QED BY <3>1, <2>1, <2>3, <1>3, <1>4, FailedStep
  <2>5. requests' \in [Clients -> Seq(Request)]
    BY <2>1, <1>3 DEF TypeOK
  <2>6. AnswersSound'
    <3>1. AnswersSound /\ UNCHANGED <<cache, effects>>
      BY <1>2 DEF IInv
    <3> QED BY <3>1, <2>4, <1>11, AnswersFrame
  <2>7. CopiesInTime'
    BY <1>2, <2>1 DEF IInv, CopiesInTime
  <2>8. EntriesYoung'
    <3>1. EntriesYoung
      BY DEF IInv
    <3>2. ASSUME NEW d \in Clients, Known(d, current_id[d], opcode[d])'
          PROVE  call_at'[d] <= cache'[Key(d, current_id'[d], opcode'[d])].timestamp
      <4>1. d # c
        BY <3>2, <1>2, <1>4, <1>7 DEF Known
      <4> QED BY <3>1, <3>2, <4>1, <1>2, <1>4 DEF Known, EntriesYoung
    <3> QED BY <3>1, <3>2, <1>2, <2>1 DEF EntriesYoung, Known
  <2>9. OneOpcode'
    BY <1>9, <2>1
  <2> QED BY <2>4, <2>5, <2>6, <2>7, <2>8, <2>9, <1>10, <1>12 DEF IInv
<1> QED BY <1>13, <1>14

\* A failure inside the current call preserves the invariant.
LEMMA FailedPreserves ==
    ASSUME IInv, NEW c \in Clients, NEW n \in 1..(MAX_RETRIES + 1), Failed(c, n),
           phase[c] # "IDLE",
           is_async => now + MAX_RTO <= call_at[c] + n * Round,
           UNCHANGED <<cache, now, effects, is_async, backlog, conn, current_id,
                       opcode, call_at, answer, requests>>
    PROVE  IInv'
<1>1. TypeOK /\ CallsInTime /\ OneOverTcp /\ AnswersSound
  BY DEF IInv
<1>2. /\ current_id[c] \in RequestIds /\ opcode[c] \in Opcodes
      /\ call_at[c] \in Nat /\ call_at[c] <= now
  BY <1>1 DEF CallsInTime, TypeOK
<1>3. /\ sock' \subseteq Clients
      /\ phase' \in [Clients -> {"IDLE", "WAITING", "PAUSED"}]
      /\ retries' \in [Clients -> 0..(MAX_RETRIES + 1)]
      /\ deadline' \in [Clients -> Int]
      /\ responses' \in [Clients -> Seq(Response)]
      /\ \A d \in Clients : \A i \in 1..Len(responses'[d]) :
            \E j \in 1..Len(responses[d]) : responses'[d][i] = responses[d][j]
      /\ CallsInTime' /\ OneOverTcp'
  <2>1. /\ current_id'[c] \in RequestIds /\ opcode'[c] \in Opcodes
        /\ call_at'[c] \in Nat /\ call_at'[c] <= now
        /\ is_async => now + MAX_RTO <= call_at'[c] + n * Round
        /\ UNCHANGED <<now, is_async, requests>>
    BY <1>2
  <2> QED BY <2>1, <1>1, FailedStep
<1>4. TypeOK'
  BY <1>1, <1>3 DEF TypeOK, CacheEntry
<1>5. CacheSound' /\ EffectsKnown' /\ EffectOnce'
  BY ServerFrame DEF IInv
<1>6. OneOpcode' /\ CopiesInTime' /\ EntriesYoung'
  BY RequestsFrame DEF IInv
<1>7. AnswersSound'
  <2>1. \A d \in Clients : \A v \in answer'[d] : v \in answer[d] /\ v.request_id = current_id'[d]
    BY <1>1 DEF AnswersSound
  <2> QED BY <2>1, <1>1, <1>3, AnswersFrame
<1> QED BY <1>3, <1>4, <1>5, <1>6, <1>7 DEF IInv

\* A wait runs out.
LEMMA WaitTimeoutPreserves ==
    ASSUME IInv, NEW c \in Clients, WaitTimeout(c)
    PROVE  IInv'
<1>1. /\ phase[c] = "WAITING"
      /\ Failed(c, retries[c] + 1)
      /\ UNCHANGED <<cache, now, effects, is_async, backlog, conn, current_id,
                     opcode, call_at, answer, requests>>
  BY DEF WaitTimeout
<1>2. /\ retries[c] \in Nat /\ retries[c] <= MAX_RETRIES /\ MAX_RETRIES \in Nat
      /\ now \in Nat /\ call_at[c] \in Nat
      /\ is_async => now <= call_at[c] + retries[c] * Round + timeout
  <2>1. TypeOK /\ CallsInTime
    BY DEF IInv
  <2>2. retries[c] \in 0..MAX_RETRIES + 1 /\ now \in Nat /\ call_at[c] \in Nat
    BY <2>1 DEF TypeOK
  <2>3. /\ retries[c] <= MAX_RETRIES
        /\ is_async => now <= call_at[c] + retries[c] * Round + timeout
    BY <2>1, <1>1 DEF CallsInTime
  <2> QED BY <2>2, <2>3, TimingAssumption
<1>3. PICK m \in Nat : m = retries[c]
  BY <1>2
<1>4. m * Round \in Nat /\ (m + 1) * Round = m * Round + Round
  BY <1>2, <1>3, Rounds
<1>5. is_async => now + MAX_RTO <= call_at[c] + (m + 1) * Round
  <2> SUFFICES ASSUME is_async PROVE now + MAX_RTO <= call_at[c] + (m + 1) * Round
    OBVIOUS
  <2>1. PICK k \in Nat, b \in Nat : k = m * Round /\ b = call_at[c]
    BY <1>2, <1>4
  <2>2. now <= b + k + timeout
    BY <2>1, <1>2, <1>3
  <2>3. now + MAX_RTO <= b + (k + (timeout + MAX_RTO))
    BY <2>2, <1>2, TimingAssumption
  <2> QED BY <2>1, <2>3, <1>4 DEF Round
<1>6. m + 1 \in 1..(MAX_RETRIES + 1) /\ Failed(c, m + 1)
  <2>1. m <= MAX_RETRIES
    BY <1>2, <1>3
  <2>2. m + 1 \in 1..(MAX_RETRIES + 1)
    BY <2>1, <1>2
  <2> QED BY <2>2, <1>1, <1>3
<1>7. phase[c] # "IDLE"
  BY <1>1
<1> QED BY <1>1, <1>5, <1>6, <1>7, FailedPreserves

\* A pause is over.
LEMMA RetryPreserves ==
    ASSUME IInv, NEW c \in Clients, Retry(c)
    PROVE  IInv'
<1>1. /\ phase[c] = "PAUSED"
      /\ Attempt(c, current_id[c], opcode[c], call_at[c], retries[c])
      /\ UNCHANGED <<cache, now, effects, is_async, backlog, conn, current_id,
                     opcode, call_at, answer>>
  BY DEF Retry
<1>2. /\ TypeOK /\ MAX_RETRIES \in Nat /\ is_async \in BOOLEAN
      /\ current_id[c] \in RequestIds /\ opcode[c] \in Opcodes
      /\ retries[c] \in 0..MAX_RETRIES
      /\ call_at[c] \in Nat /\ call_at[c] <= now
      /\ is_async => now <= call_at[c] + retries[c] * Round
  <2>1. TypeOK /\ CallsInTime /\ MAX_RETRIES \in Nat
    BY TimingAssumption DEF IInv
  <2>2. is_async \in BOOLEAN /\ call_at[c] \in Nat /\ retries[c] \in 0..(MAX_RETRIES + 1)
    BY <2>1 DEF TypeOK
  <2>3. /\ current_id[c] \in RequestIds /\ opcode[c] \in Opcodes
        /\ retries[c] <= MAX_RETRIES /\ call_at[c] <= now
        /\ is_async => now <= call_at[c] + retries[c] * Round
    BY <2>1, <1>1 DEF CallsInTime
  <2> QED BY <2>1, <2>2, <2>3
<1>3. PICK id \in RequestIds, op \in Opcodes, b \in Nat, n \in 0..MAX_RETRIES :
          id = current_id[c] /\ op = opcode[c] /\ b = call_at[c] /\ n = retries[c]
  BY <1>2
<1>4. Attempt(c, id, op, b, n)
  BY <1>1, <1>3
<1>5. CASE CanSend(c)
  <2>1. is_async
    BY <1>1, <1>2, <1>5 DEF IInv, OneOverTcp, CanSend
  <2>2. Known(c, id, op) => is_async /\ b <= cache[Key(c, id, op)].timestamp
    BY <2>1, <1>3 DEF IInv, EntriesYoung
  <2>3. /\ sock' = sock /\ responses' = responses
        /\ phase' \in [Clients -> {"IDLE", "WAITING", "PAUSED"}]
        /\ retries' \in [Clients -> 0..(MAX_RETRIES + 1)]
        /\ deadline' \in [Clients -> Int]
        /\ requests' \in [Clients -> Seq(Request)]
        /\ \A d \in Clients : \A i \in 1..Len(requests'[d]) :
              \/ \E j \in 1..Len(requests[d]) : requests'[d][i] = requests[d][j]
              \/ /\ d = c
                 /\ requests'[d][i].request_id = id
                 /\ requests'[d][i].opcode = op
        /\ CallsInTime' /\ CopiesInTime' /\ EntriesYoung' /\ OneOverTcp'
    <3>1. /\ current_id'[c] = id /\ opcode'[c] = op /\ call_at'[c] = b
          /\ b <= now /\ phase[c] # "WAITING"
          /\ is_async => now <= b + n * Round
          /\ UNCHANGED <<cache, effects, now, is_async>>
          /\ \A d \in Clients : d # c => /\ current_id'[d] = current_id[d]
                                         /\ opcode'[d] = opcode[d]
                                         /\ call_at'[d] = call_at[d]
      BY <1>1, <1>2, <1>3
    <3> QED BY <3>1, <2>2, <1>4, <1>5, SentStep, ZenonT(60)
  <2>4. TypeOK'
    BY <2>3, <1>1, <1>2 DEF TypeOK, CacheEntry
  <2>5. OneOpcode'
    <3>1. ASSUME NEW d \in Clients, NEW j \in AnyId, NEW o \in AnyOpcode, Used(d, j, o)'
          PROVE  Used(d, j, o)
      <4>1. CASE j = current_id'[d] /\ o = opcode'[d]
        BY <4>1, <1>1 DEF Used
      <4>2. CASE \E i \in 1..Len(requests'[d]) :
                    requests'[d][i].request_id = j /\ requests'[d][i].opcode = o
        <5>1. PICK i \in 1..Len(requests'[d]) :
                  requests'[d][i].request_id = j /\ requests'[d][i].opcode = o
          BY <4>2
        <5>2. CASE \E k \in 1..Len(requests[d]) : requests'[d][i] = requests[d][k]
          BY <5>1, <5>2 DEF Used
        <5>3. CASE d = c /\ requests'[d][i].request_id = id /\ requests'[d][i].opcode = op
          BY <5>1, <5>3, <1>3 DEF Used
        <5> QED BY <5>2, <5>3, <2>3
      <4>3. CASE Known(d, j, o)'
        BY <4>3, <1>1 DEF Used, Known
      <4> QED BY <3>1, <4>1, <4>2, <4>3 DEF Used
    <3> QED BY <3>1, <1>1 DEF IInv, OneOpcode
  <2>6. CacheSound' /\ EffectsKnown' /\ EffectOnce'
    BY <1>1, ServerFrame DEF IInv
  <2>7. AnswersSound'
    <3>1. AnswersSound /\ UNCHANGED <<cache, effects>>
      BY <1>1 DEF IInv
    <3>2. \A d \in Clients : \A v \in answer'[d] : v \in answer[d] /\ v.request_id = current_id'[d]
      BY <3>1, <1>1 DEF AnswersSound
    <3>3. \A d \in Clients : \A i \in 1..Len(responses'[d]) :
              \E j \in 1..Len(responses[d]) : responses'[d][i] = responses[d][j]
      BY <2>3
    <3> QED BY <3>1, <3>2, <3>3, AnswersFrame
  <2> QED BY <2>3, <2>4, <2>5, <2>6, <2>7 DEF IInv
<1>6. CASE ~ CanSend(c)
  <2>1. Failed(c, n + 1) /\ requests' = requests /\ ~ is_async
    BY <1>4, <1>6 DEF Attempt, CanSend
  <2>2. PICK m \in 1..(MAX_RETRIES + 1) : m = n + 1
    BY <1>2
  <2>3. Failed(c, m)
    BY <2>1, <2>2
  <2>4. phase[c] # "IDLE"
    BY <1>1
  <2> QED BY <2>1, <2>3, <2>4, <1>1, FailedPreserves
<1> QED BY <1>5, <1>6

\* The queue of answers after its head was taken.
LEMMA AnswerTaken ==
    ASSUME TypeOK, NEW c \in Clients, responses[c] # <<>>,
           responses' = [responses EXCEPT ![c] = Tail(@)]
    PROVE  /\ responses' \in [Clients -> Seq(Response)]
           /\ Head(responses[c]) = responses[c][1]
           /\ responses[c][1] \in Response
           /\ 1 \in 1..Len(responses[c])
           /\ Len(responses[c]) \in Nat
           /\ Len(responses'[c]) = Len(responses[c]) - 1
           /\ \A d \in Clients : d # c => responses'[d] = responses[d]
           /\ \A d \in Clients : \A i \in 1..Len(responses'[d]) :
                 \E j \in 1..Len(responses[d]) : responses'[d][i] = responses[d][j]
<1>1. responses \in [Clients -> Seq(Response)] /\ responses[c] \in Seq(Response)
  BY DEF TypeOK
<1>2. PICK q : q = Tail(responses[c])
  BY Zenon
<1>3. /\ q \in Seq(Response) /\ Len(q) = Len(responses[c]) - 1
      /\ \A i \in 1..Len(q) : i + 1 \in 1..Len(responses[c]) /\ q[i] = responses[c][i + 1]
      /\ Len(responses[c]) \in Nat
      /\ Head(responses[c]) = responses[c][1]
      /\ 1 \in 1..Len(responses[c])
      /\ responses[c][1] \in Response
  BY <1>1, <1>2
<1>4. responses' = [responses EXCEPT ![c] = q]
  BY <1>2
<1>5. /\ responses' \in [Clients -> Seq(Response)] /\ responses'[c] = q
      /\ \A d \in Clients : d # c => responses'[d] = responses[d]
  BY <1>1, <1>3, <1>4
<1>6. \A d \in Clients : \A i \in 1..Len(responses'[d]) :
          \E j \in 1..Len(responses[d]) : responses'[d][i] = responses[d][j]
  <2> SUFFICES ASSUME NEW d \in Clients, NEW i \in 1..Len(responses'[d])
               PROVE  \E j \in 1..Len(responses[d]) : responses'[d][i] = responses[d][j]
    BY Zenon
  <2>1. CASE d = c
    BY <2>1, <1>3, <1>5
  <2>2. CASE d # c
    BY <2>2, <1>5
  <2> QED BY <2>1, <2>2
<1> QED BY <1>3, <1>5, <1>6

\* The waiting call takes its answer, over either transport.
LEMMA TakeUpPreserves ==
    ASSUME IInv, NEW c \in Clients, responses[c] # <<>>,
           Awaits(c, Head(responses[c])), TakeUp(c, Head(responses[c])),
           UNCHANGED <<cache, now, effects, is_async, backlog, conn, current_id,
                       opcode, call_at, requests>>
    PROVE  IInv'
<1>1. TypeOK /\ CallsInTime /\ OneOverTcp /\ AnswersSound
  BY DEF IInv
<1>2. PICK v : v = Head(responses[c])
  BY Zenon
<1>3. /\ phase' = [phase EXCEPT ![c] = "IDLE"]
      /\ answer' = [answer EXCEPT ![c] = {v}]
      /\ responses' = [responses EXCEPT ![c] = Tail(@)]
      /\ UNCHANGED <<sock, retries, deadline>>
      /\ phase[c] = "WAITING" /\ v.request_id = current_id[c]
  BY <1>2 DEF TakeUp, Awaits
<1>4. /\ responses' \in [Clients -> Seq(Response)]
      /\ v = responses[c][1] /\ v \in Response
      /\ 1 \in 1..Len(responses[c])
      /\ Len(responses[c]) \in Nat
      /\ Len(responses'[c]) = Len(responses[c]) - 1
      /\ \A d \in Clients : d # c => responses'[d] = responses[d]
      /\ \A d \in Clients : \A i \in 1..Len(responses'[d]) :
            \E j \in 1..Len(responses[d]) : responses'[d][i] = responses[d][j]
  BY <1>1, <1>2, <1>3, AnswerTaken
<1>5. /\ phase' \in [Clients -> {"IDLE", "WAITING", "PAUSED"}] /\ phase'[c] = "IDLE"
      /\ answer' \in [Clients -> SUBSET Response] /\ answer'[c] = {v}
      /\ \A d \in Clients : d # c => phase'[d] = phase[d] /\ answer'[d] = answer[d]
  <2>1. /\ phase \in [Clients -> {"IDLE", "WAITING", "PAUSED"}]
        /\ answer \in [Clients -> SUBSET Response]
    BY <1>1 DEF TypeOK
  <2>2. {v} \in SUBSET Response
    BY <1>4
  <2> QED BY <1>3, <2>1, <2>2
<1>6. TypeOK'
  BY <1>1, <1>3, <1>4, <1>5 DEF TypeOK, CacheEntry
<1>7. CacheSound' /\ EffectsKnown' /\ EffectOnce'
  BY ServerFrame DEF IInv
<1>8. OneOpcode' /\ CopiesInTime' /\ EntriesYoung'
  BY RequestsFrame DEF IInv
<1>9. AnswersSound'
  <2>1. ASSUME NEW d \in Clients, NEW w \in answer'[d]
        PROVE  /\ w.request_id = current_id'[d]
               /\ \/ w \in answer[d]
                  \/ \E j \in 1..Len(responses[d]) : w = responses[d][j]
    <3>1. CASE d = c
      BY <2>1, <3>1, <1>3, <1>4, <1>5
    <3>2. CASE d # c
      BY <2>1, <3>2, <1>1, <1>5 DEF AnswersSound
    <3> QED BY <3>1, <3>2
  <2> QED BY <2>1, <1>1, <1>4, AnswersFrame
<1>10. CallsInTime'
  BY <1>1, <1>3, <1>5 DEF CallsInTime, Round
<1>11. OneOverTcp'
  <2> SUFFICES ASSUME ~ is_async, NEW d \in Clients
               PROVE  /\ Len(requests[d]) <= 1
                      /\ phase'[d] = "PAUSED" => d \notin sock
                      /\ d \notin sock => responses'[d] = <<>>
                      /\ d \in sock => Len(requests[d]) + Len(responses'[d]) <= 1
                      /\ d \in sock /\ Len(requests[d]) = 1 =>
                            /\ phase'[d] = "WAITING"
                            /\ requests[d][1].request_id = current_id[d]
                      /\ Len(responses'[d]) = 1 =>
                            phase'[d] = "WAITING" /\ responses'[d][1].request_id = current_id[d]
    BY <1>3 DEF OneOverTcp, Awaits
  <2>1. CASE d # c
    BY <2>1, <1>1, <1>4, <1>5 DEF OneOverTcp, Awaits
  <2>2. CASE d = c
    <3>1. requests[c] \in Seq(Request) /\ responses[c] \in Seq(Response)
      BY <1>1 DEF TypeOK
    <3>2. PICK m \in Nat, k \in Nat : m = Len(requests[c]) /\ k = Len(responses[c])
      BY <3>1
    <3>3. 1 \in 1..k
      BY <3>2, <1>4, Zenon
    <3>4. c \in sock
      <4>1. c \notin sock => responses[c] = <<>>
        BY <1>1 DEF OneOverTcp
      <4> QED BY <4>1
    <3>5. m + k <= 1
      BY <3>2, <3>4, <1>1 DEF OneOverTcp
    <3>6. m = 0 /\ k = 1
      BY <3>3, <3>5
    <3>7. Len(requests[c]) = 0 /\ Len(responses[c]) = 1
      BY <3>2, <3>6
    <3>8. Len(responses'[c]) = Len(responses[c]) - 1
      BY <1>4
    <3>9. Len(responses'[c]) = 0
      BY <3>7, <3>8
    <3> QED BY <2>2, <3>4, <3>7, <3>9, <1>5
  <2> QED BY <2>1, <2>2
<1> QED BY <1>6, <1>7, <1>8, <1>9, <1>10, <1>11 DEF IInv

\* An answer arrives over RUDP.
LEMMA OnMessageReceivedPreserves ==
    ASSUME IInv, NEW c \in Clients, OnMessageReceived(c)
    PROVE  IInv'
<1>1. /\ is_async /\ responses[c] # <<>>
      /\ UNCHANGED <<cache, now, effects, is_async, backlog, conn, current_id,
                     opcode, call_at, requests>>
  BY DEF OnMessageReceived
<1>2. CASE Awaits(c, Head(responses[c])) /\ TakeUp(c, Head(responses[c]))
  BY <1>1, <1>2, TakeUpPreserves
<1>3. CASE /\ responses' = [responses EXCEPT ![c] = Tail(@)]
           /\ UNCHANGED <<sock, phase, answer, retries, deadline>>
  <2>1. TypeOK /\ AnswersSound /\ CallsInTime
    BY DEF IInv
  <2>2. /\ responses' \in [Clients -> Seq(Response)]
        /\ \A d \in Clients : \A i \in 1..Len(responses'[d]) :
              \E j \in 1..Len(responses[d]) : responses'[d][i] = responses[d][j]
    BY <1>1, <1>3, <2>1, AnswerTaken
  <2>3. TypeOK'
    BY <1>1, <1>3, <2>1, <2>2 DEF TypeOK, CacheEntry
  <2>4. CacheSound' /\ EffectsKnown' /\ EffectOnce'
    BY <1>1, ServerFrame DEF IInv
  <2>5. OneOpcode' /\ CopiesInTime' /\ EntriesYoung'
    BY <1>1, RequestsFrame DEF IInv
  <2>6. AnswersSound'
    <3>1. \A d \in Clients : \A v \in answer'[d] : v \in answer[d] /\ v.request_id = current_id'[d]
      BY <1>1, <1>3, <2>1 DEF AnswersSound
    <3> QED BY <3>1, <1>1, <2>1, <2>2, AnswersFrame
  <2>7. CallsInTime'
    BY <1>1, <1>3, <2>1 DEF CallsInTime, Round
  <2>8. OneOverTcp'
    BY <1>1 DEF OneOverTcp
  <2> QED BY <2>3, <2>4, <2>5, <2>6, <2>7, <2>8 DEF IInv
<1> QED BY <1>2, <1>3 DEF OnMessageReceived

\* An answer is read from the socket.
LEMMA ReceiveExactPreserves ==
    ASSUME IInv, NEW c \in Clients, ReceiveExact(c)
    PROVE  IInv'
<1>1. /\ ~ is_async /\ responses[c] # <<>> /\ phase[c] = "WAITING"
      /\ UNCHANGED <<cache, now, effects, is_async, backlog, conn, current_id,
                     opcode, call_at, requests>>
  BY DEF ReceiveExact
<1>2. CASE Awaits(c, Head(responses[c])) /\ TakeUp(c, Head(responses[c]))
  BY <1>1, <1>2, TakeUpPreserves
<1>3. CASE Failed(c, retries[c] + 1) /\ UNCHANGED answer
  <2>1. retries[c] \in Nat /\ retries[c] <= MAX_RETRIES /\ MAX_RETRIES \in Nat
    BY <1>1, TimingAssumption DEF IInv, TypeOK, CallsInTime
  <2>2. PICK n \in 1..(MAX_RETRIES + 1) : n = retries[c] + 1
    BY <2>1
  <2>3. Failed(c, n) /\ phase[c] # "IDLE"
    BY <1>1, <1>3, <2>2
  <2> QED BY <1>1, <1>3, <2>3, FailedPreserves
<1> QED BY <1>2, <1>3 DEF ReceiveExact

\* The user disconnects.
LEMMA ClosePreserves ==
    ASSUME IInv, NEW c \in Clients, Close(c)
    PROVE  IInv'
<1>1. /\ phase[c] = "IDLE" /\ sock' = sock \ {c}
      /\ responses' = IF is_async THEN responses ELSE [responses EXCEPT ![c] = <<>>]
      /\ UNCHANGED <<cache, now, effects, is_async, backlog, conn, phase,
                     current_id, opcode, retries, deadline, call_at, answer,
                     requests>>
  BY DEF Close, Closed, clientVars
<1>2. TypeOK /\ CallsInTime /\ OneOverTcp /\ AnswersSound
  BY DEF IInv
<1>3. /\ responses' \in [Clients -> Seq(Response)]
      /\ \A d \in Clients : responses'[d] = responses[d] \/ responses'[d] = <<>>
      /\ is_async \/ responses'[c] = <<>>
      /\ \A d \in Clients : d # c => responses'[d] = responses[d]
  BY <1>1, <1>2 DEF TypeOK
<1>4. TypeOK'
  BY <1>1, <1>2, <1>3 DEF TypeOK, CacheEntry
<1>5. CacheSound' /\ EffectsKnown' /\ EffectOnce'
  BY <1>1, ServerFrame DEF IInv
<1>6. OneOpcode' /\ CopiesInTime' /\ EntriesYoung'
  BY <1>1, RequestsFrame DEF IInv
<1>7. AnswersSound'
  <2>1. ASSUME NEW d \in Clients, NEW i \in 1..Len(responses'[d])
        PROVE  \E j \in 1..Len(responses[d]) : responses'[d][i] = responses[d][j]
    <3>1. CASE responses'[d] = responses[d]
      BY <2>1, <3>1
    <3>2. CASE responses'[d] = <<>>
      BY <2>1, <3>2
    <3> QED BY <3>1, <3>2, <1>3
  <2>2. \A d \in Clients : \A v \in answer'[d] : v \in answer[d] /\ v.request_id = current_id'[d]
    BY <1>1, <1>2 DEF AnswersSound
  <2> QED BY <2>1, <2>2, <1>1, <1>2, AnswersFrame
<1>8. CallsInTime'
  BY <1>1, <1>2 DEF CallsInTime, Round
<1>9. OneOverTcp'
  <2> SUFFICES ASSUME ~ is_async, NEW d \in Clients
               PROVE  /\ Len(requests[d]) <= 1
                      /\ phase[d] = "PAUSED" => d \notin sock'
                      /\ d \notin sock' => responses'[d] = <<>>
                      /\ d \in sock' => Len(requests[d]) + Len(responses'[d]) <= 1
                      /\ d \in sock' /\ Len(requests[d]) = 1 =>
                            /\ phase[d] = "WAITING"
                            /\ requests[d][1].request_id = current_id[d]
                      /\ Len(responses'[d]) = 1 =>
                            phase[d] = "WAITING" /\ responses'[d][1].request_id = current_id[d]
    BY <1>1 DEF OneOverTcp, Awaits
  <2>1. CASE d # c
    BY <2>1, <1>1, <1>2, <1>3 DEF OneOverTcp, Awaits
  <2>2. CASE d = c
    <3>1. d \notin sock' /\ responses'[d] = <<>> /\ Len(responses'[d]) = 0
      BY <2>2, <1>1, <1>3
    <3>2. Len(requests[d]) <= 1
      BY <1>2 DEF OneOverTcp
    <3> QED BY <3>1, <3>2
  <2> QED BY <2>1, <2>2
<1> QED BY <1>4, <1>5, <1>6, <1>7, <1>8, <1>9 DEF IInv

\* A step that changes neither messages nor calls: a connection is accepted or
\* ends, or nothing happens at all.
LEMMA IdlePreserves ==
    ASSUME IInv, backlog' \subseteq Clients, conn' \in Clients \cup {NoClient},
           UNCHANGED <<cache, now, effects, is_async, sock, phase, current_id,
                       opcode, retries, deadline, call_at, answer, requests,
                       responses>>
    PROVE  IInv'
<1>1. TypeOK /\ CallsInTime /\ OneOverTcp /\ AnswersSound
  BY DEF IInv
<1>2. TypeOK'
  BY <1>1 DEF TypeOK, CacheEntry
<1>3. CacheSound' /\ EffectsKnown' /\ EffectOnce'
  BY ServerFrame DEF IInv
<1>4. OneOpcode' /\ CopiesInTime' /\ EntriesYoung'
  BY RequestsFrame DEF IInv
<1>5. AnswersSound'
  <2>1. \A d \in Clients : \A v \in answer'[d] : v \in answer[d] /\ v.request_id = current_id'[d]
    BY <1>1 DEF AnswersSound
  <2>2. \A d \in Clients : \A i \in 1..Len(responses'[d]) :
              \E j \in 1..Len(responses[d]) : responses'[d][i] = responses[d][j]
    OBVIOUS
  <2> QED BY <2>1, <2>2, <1>1, AnswersFrame
<1>6. CallsInTime'
  BY <1>1 DEF CallsInTime, Round
<1>7. OneOverTcp'
  BY <1>1 DEF OneOverTcp, Awaits
<1> QED BY <1>2, <1>3, <1>4, <1>5, <1>6, <1>7 DEF IInv

\* Time passes, but never beyond what a client or a message may take.
LEMMA TickPreserves ==
    ASSUME IInv, Tick
    PROVE  IInv'
<1>1. /\ \A c \in Clients :
            /\ phase[c] # "IDLE" => now < deadline[c]
            /\ is_async \/ conn = c =>
                  \A i \in 1..Len(requests[c]) :
                     now < requests[c][i].sent_at + MaxDelay
      /\ now' = now + 1
      /\ UNCHANGED <<cache, effects, is_async, sock, backlog, conn, phase,
                     current_id, opcode, retries, deadline, call_at, answer,
                     requests, responses>>
  BY DEF Tick, transportVars, clientVars
<1>2. /\ TypeOK /\ CallsInTime /\ CopiesInTime /\ OneOverTcp /\ AnswersSound
      /\ now \in Nat
  BY DEF IInv, TypeOK
<1>3. TypeOK'
  <2>1. now' \in Nat
    BY <1>1, <1>2
  <2> QED BY <1>1, <1>2, <2>1 DEF TypeOK, CacheEntry
<1>4. CacheSound' /\ EffectsKnown' /\ EffectOnce'
  BY <1>1, ServerFrame DEF IInv
<1>5. OneOpcode' /\ EntriesYoung'
  BY <1>1 DEF IInv, OneOpcode, Used, Known, EntriesYoung
<1>6. AnswersSound'
  <2>1. \A d \in Clients : \A v \in answer'[d] : v \in answer[d] /\ v.request_id = current_id'[d]
    BY <1>1, <1>2 DEF AnswersSound
  <2>2. \A d \in Clients : \A i \in 1..Len(responses'[d]) :
              \E j \in 1..Len(responses[d]) : responses'[d][i] = responses[d][j]
    BY <1>1
  <2> QED BY <2>1, <2>2, <1>1, <1>2, AnswersFrame
<1>7. OneOverTcp'
  BY <1>1, <1>2 DEF OneOverTcp, Awaits
<1>8. CallsInTime'
  <2> SUFFICES ASSUME NEW d \in Clients
               PROVE  /\ call_at[d] <= now + 1
                      /\ phase[d] # "IDLE" =>
                           /\ current_id[d] \in RequestIds
                           /\ opcode[d] \in Opcodes
                           /\ retries[d] <= MAX_RETRIES
                      /\ is_async /\ phase[d] = "WAITING" =>
                           /\ now + 1 <= call_at[d] + retries[d] * Round + timeout
                           /\ deadline[d] <= call_at[d] + retries[d] * Round + timeout
                      /\ is_async /\ phase[d] = "PAUSED" =>
                           /\ now + 1 <= call_at[d] + retries[d] * Round
                           /\ deadline[d] <= call_at[d] + retries[d] * Round
    BY <1>1 DEF CallsInTime, Round
  <2>1. call_at[d] \in Nat /\ deadline[d] \in Int /\ retries[d] \in Nat
    BY <1>2, TimingAssumption DEF TypeOK
  <2>2. call_at[d] <= now + 1
    BY <2>1, <1>2 DEF CallsInTime
  <2>3. phase[d] # "IDLE" => now + 1 <= deadline[d] /\ retries[d] * Round \in Nat
    <3> SUFFICES ASSUME phase[d] # "IDLE"
                 PROVE  now + 1 <= deadline[d] /\ retries[d] * Round \in Nat
      OBVIOUS
    <3>1. retries[d] <= MAX_RETRIES /\ now < deadline[d]
      BY <1>1, <1>2 DEF CallsInTime
    <3> QED BY <2>1, <3>1, <1>2, Rounds
  <2>4. ASSUME phase[d] # "IDLE", NEW x \in Nat, deadline[d] <= x PROVE now + 1 <= x
    BY <2>1, <2>3, <2>4, <1>2
  <2>5. ASSUME is_async, phase[d] = "WAITING"
        PROVE  now + 1 <= call_at[d] + retries[d] * Round + timeout
    <3>1. call_at[d] + retries[d] * Round + timeout \in Nat
      BY <2>1, <2>3, <2>5, TimingAssumption
    <3>2. deadline[d] <= call_at[d] + retries[d] * Round + timeout
      BY <2>5, <1>2 DEF CallsInTime
    <3> QED BY <2>4, <2>5, <3>1, <3>2
  <2>6. ASSUME is_async, phase[d] = "PAUSED"
        PROVE  now + 1 <= call_at[d] + retries[d] * Round
    <3>1. call_at[d] + retries[d] * Round \in Nat
      BY <2>1, <2>3, <2>6
    <3>2. deadline[d] <= call_at[d] + retries[d] * Round
      BY <2>6, <1>2 DEF CallsInTime
    <3> QED BY <2>4, <2>6, <3>1, <3>2
  <2> QED BY <2>2, <2>5, <2>6, <1>2 DEF CallsInTime
<1>9. CopiesInTime'
  <2> SUFFICES ASSUME NEW d \in Clients, NEW i \in 1..Len(requests[d])
               PROVE  /\ requests[d][i].call_at <= now + 1
                      /\ is_async =>
                           /\ requests[d][i].sent_at
                                <= requests[d][i].call_at + MAX_RETRIES * Round
                           /\ now + 1 <= requests[d][i].sent_at + MaxDelay
    BY <1>1 DEF CopiesInTime, Round
  <2>1. requests[d] \in Seq(Request)
    BY <1>2 DEF TypeOK
  <2>2. PICK r \in Request : r = requests[d][i]
    BY <2>1
  <2>3. r.call_at \in Nat /\ r.sent_at \in Nat
    BY DEF Request
  <2>4. /\ r.call_at <= now
        /\ is_async => /\ r.sent_at <= r.call_at + MAX_RETRIES * Round
                       /\ now < r.sent_at + MaxDelay
    BY <2>2, <1>1, <1>2 DEF CopiesInTime
  <2>5. PICK s \in Nat, b \in Nat : s = r.sent_at /\ b = r.call_at
    BY <2>3
  <2>6. b <= now + 1 /\ (now < s + MaxDelay => now + 1 <= s + MaxDelay)
    BY <2>4, <2>5, <1>2, TimingAssumption
  <2> QED BY <2>2, <2>4, <2>5, <2>6
<1> QED BY <1>3, <1>4, <1>5, <1>6, <1>7, <1>8, <1>9 DEF IInv

-----------------------------------------------------------------------------
(***************************************************************************)
(* The theorems.                                                           *)
(***************************************************************************)

LEMMA InitHolds == Init => IInv
<1> SUFFICES ASSUME Init PROVE IInv
  OBVIOUS
<1>1. /\ cache = <<>> /\ now = 0 /\ effects = <<>>
      /\ is_async \in BOOLEAN
      /\ sock = IF is_async THEN {} ELSE Clients
      /\ backlog = sock /\ conn = NoClient
  BY DEF Init, ServerInit, CacheInit
<1>2. /\ phase = [c \in Clients |-> "IDLE"]
      /\ current_id = [c \in Clients |-> 0]
      /\ opcode = [c \in Clients |-> "READ"]
      /\ retries = [c \in Clients |-> 0]
      /\ deadline = [c \in Clients |-> 0]
      /\ call_at = [c \in Clients |-> 0]
      /\ answer = [c \in Clients |-> {}]
      /\ requests = [c \in Clients |-> <<>>]
      /\ responses = [c \in Clients |-> <<>>]
  BY DEF Init
<1>3. DOMAIN cache = {} /\ \A c, id, op : ~ Known(c, id, op)
  BY <1>1 DEF Known
<1>4. \A c \in Clients : /\ requests[c] = <<>> /\ Len(requests[c]) = 0
                         /\ responses[c] = <<>> /\ Len(responses[c]) = 0
                         /\ phase[c] = "IDLE" /\ current_id[c] = 0
                         /\ opcode[c] = "READ" /\ call_at[c] = 0
                         /\ answer[c] = {}
  BY <1>2
<1>5. TypeOK
  <2>1. 0 \in 0..(MAX_RETRIES + 1)
    BY TimingAssumption
  <2>2. effects \in Seq(Effect) /\ cache \in [DOMAIN cache -> CacheEntry]
    BY <1>1
  <2>3. <<>> \in Seq(Request) /\ <<>> \in Seq(Response)
    OBVIOUS
  <2> QED BY <1>1, <1>2, <1>3, <2>1, <2>2, <2>3 DEF TypeOK
<1>6. OneOpcode
  <2>1. \A c \in Clients, id \in AnyId, op \in AnyOpcode :
            Used(c, id, op) => id = 0 /\ op = "READ"
    BY <1>3, <1>4 DEF Used
  <2> QED BY <2>1, <1>4 DEF OneOpcode
<1>7. CacheSound /\ EffectsKnown /\ EffectOnce
  BY <1>1, <1>3 DEF CacheSound, EffectsKnown, EffectOnce
<1>8. AnswersSound
  BY <1>4 DEF AnswersSound
<1>9. CallsInTime
  BY <1>1, <1>4 DEF CallsInTime
<1>10. CopiesInTime
  BY <1>4 DEF CopiesInTime
<1>11. EntriesYoung
  BY <1>3, <1>4 DEF EntriesYoung
<1>12. OneOverTcp
  <2>1. ASSUME NEW c \in Clients
        PROVE  /\ Len(requests[c]) <= 1 /\ Len(requests[c]) # 1
               /\ phase[c] # "PAUSED" /\ responses[c] = <<>>
               /\ Len(requests[c]) + Len(responses[c]) <= 1
               /\ Len(responses[c]) # 1
    <3>1. Len(requests[c]) = 0 /\ Len(responses[c]) = 0
      BY <1>4
    <3> QED BY <3>1, <1>4
  <2> QED BY <2>1, Zenon DEF OneOverTcp
<1> QED BY <1>5, <1>6, <1>7, <1>8, <1>9, <1>10, <1>11, <1>12 DEF IInv

LEMMA NextPreserves == IInv /\ [Next]_vars => IInv'
<1> SUFFICES ASSUME IInv, [Next]_vars PROVE IInv'
  OBVIOUS
<1>0. backlog \subseteq Clients /\ conn \in Clients \cup {NoClient}
  BY DEF IInv, TypeOK
<1>1. ASSUME NEW c \in Clients, NEW op \in Opcodes, Execute(c, op) PROVE IInv'
  BY <1>1, ExecutePreserves
<1>2. ASSUME NEW c \in Clients, WaitTimeout(c) PROVE IInv'
  BY <1>2, WaitTimeoutPreserves
<1>3. ASSUME NEW c \in Clients, Retry(c) PROVE IInv'
  BY <1>3, RetryPreserves
<1>4. ASSUME NEW c \in Clients, OnMessageReceived(c) PROVE IInv'
  BY <1>4, OnMessageReceivedPreserves
<1>5. ASSUME NEW c \in Clients, ReceiveExact(c) PROVE IInv'
  BY <1>5, ReceiveExactPreserves
<1>6. ASSUME NEW c \in Clients, Close(c) PROVE IInv'
  BY <1>6, ClosePreserves
<1>7. ASSUME NEW c \in Clients, OnUdpMessage(c) \/ HandleConnection(c) PROVE IInv'
  BY <1>7, ProcessPreserves DEF OnUdpMessage, HandleConnection
<1>8. ASSUME NEW c \in Clients, Accept(c) PROVE IInv'
  <2>1. backlog' \subseteq Clients /\ conn' \in Clients \cup {NoClient}
    BY <1>0, <1>8 DEF Accept
  <2>2. UNCHANGED <<cache, now, effects, is_async, sock, phase, current_id,
                    opcode, retries, deadline, call_at, answer, requests,
                    responses>>
    BY <1>8 DEF Accept, clientVars
  <2> QED BY <2>1, <2>2, IdlePreserves
<1>9. CASE EndConnection
  <2>1. backlog' \subseteq Clients /\ conn' \in Clients \cup {NoClient}
    BY <1>0, <1>9 DEF EndConnection
  <2>2. UNCHANGED <<cache, now, effects, is_async, sock, phase, current_id,
                    opcode, retries, deadline, call_at, answer, requests,
                    responses>>
    BY <1>9 DEF EndConnection, clientVars
  <2> QED BY <2>1, <2>2, IdlePreserves
<1>10. CASE Tick
  BY <1>10, TickPreserves
<1>11. CASE UNCHANGED vars
  <2>1. backlog' \subseteq Clients /\ conn' \in Clients \cup {NoClient}
    BY <1>0, <1>11 DEF vars
  <2>2. UNCHANGED <<cache, now, effects, is_async, sock, phase, current_id,
                    opcode, retries, deadline, call_at, answer, requests,
                    responses>>
    BY <1>11 DEF vars
  <2> QED BY <2>1, <2>2, IdlePreserves
<1> QED BY <1>1, <1>2, <1>3, <1>4, <1>5, <1>6, <1>7, <1>8, <1>9, <1>10, <1>11
    DEF Next, Serve

LEMMA Invariance == Spec => []IInv
BY InitHolds, NextPreserves, PTL DEF Spec

\* The clients, the messages and the cache keep their types; in particular no
\* call makes more than MAX_RETRIES + 1 attempts.
THEOREM ExchangeTypes == Spec => []TypeOK
<1>1. IInv => TypeOK
  BY DEF IInv
<1> QED BY <1>1, Invariance, PTL

\* No request takes effect twice, however often it is repeated and however late
\* the copies arrive (process_request with the idempotency cache).
THEOREM EffectsOnce == Spec => []EffectOnce
<1>1. IInv => EffectOnce
  BY DEF IInv
<1> QED BY <1>1, Invariance, PTL

\* What a call of APPEND returns is the truth about the caller's own append,
\* and stays the truth: no copy still under way changes it.
THEOREM AnswersTrue == Spec => []AnswerTrue
<1>1. IInv => AnswerTrue
  <2> SUFFICES ASSUME IInv, NEW c \in Clients, NEW r \in answer[c],
                      r.opcode = "APPEND"
               PROVE  r.status = "OK" <=> Done(c, current_id[c])
    BY DEF AnswerTrue
  <2>1. r.request_id = current_id[c] /\ Truthful(c, r)
    BY DEF IInv, AnswersSound
  <2> QED BY <2>1 DEF Truthful
<1> QED BY <1>1, Invariance, PTL

\* Over TCP nothing but the answer its client waits for is ever on its way, so
\* the id mismatch that send_request_spec guards against does not happen.
THEOREM OwnAnswersOnly == Spec => []OnlyOwnAnswer
<1>1. IInv => OnlyOwnAnswer
  <2> SUFFICES ASSUME IInv, ~ is_async, NEW c \in Clients,
                      NEW i \in 1..Len(responses[c])
               PROVE  i = 1 /\ Awaits(c, responses[c][i])
    BY DEF OnlyOwnAnswer
  <2>1. requests[c] \in Seq(Request) /\ responses[c] \in Seq(Response)
    BY DEF IInv, TypeOK
  <2>2. PICK m \in Nat, k \in Nat : m = Len(requests[c]) /\ k = Len(responses[c])
    BY <2>1
  <2>3. OneOverTcp /\ i \in 1..k
    BY <2>2 DEF IInv
  <2>4. c \in sock
    <3>1. c \notin sock => responses[c] = <<>>
      BY <2>3 DEF OneOverTcp
    <3> QED BY <3>1
  <2>5. m + k <= 1
    BY <2>2, <2>3, <2>4 DEF OneOverTcp
  <2>6. k = 1 /\ i = 1
    BY <2>3, <2>5
  <2> QED BY <2>2, <2>3, <2>6 DEF OneOverTcp
<1> QED BY <1>1, Invariance, PTL

\* What a step may never do: forget or change the answer to a client's request.
\* An entry is deleted only by a lookup after its time, and no copy comes so late.
KeepsAnswers ==
    \A c \in Clients, id \in RequestIds, op \in Opcodes :
        Known(c, id, op) => /\ Known(c, id, op)'
                            /\ cache'[Key(c, id, op)] = cache[Key(c, id, op)]

\* The cache answers every copy of a request alike, for as long as copies arrive
\* (get_response, store_response).
THEOREM AnswersKept == Spec => [][KeepsAnswers]_vars
<1>1. IInv /\ [Next]_vars => [KeepsAnswers]_vars
  <2> SUFFICES ASSUME IInv, [Next]_vars PROVE KeepsAnswers
    OBVIOUS
  <2>1. CASE UNCHANGED cache
    BY <2>1 DEF KeepsAnswers, Known
  <2>2. ASSUME NEW c \in Clients, Process(c) PROVE KeepsAnswers
    <3>1. PICK response \in Response : ProcessRequest(c, Oldest(c), response)
      BY <2>2 DEF Process, Oldest
    <3>2. PICK r : r = Oldest(c)
      BY Zenon
    <3>3. requests[c] # <<>>
      BY <2>2 DEF Process
    <3>4. ServerStep(c, r, response)
      BY <3>1, <3>2, <3>3, ProcessIsServerStep
    <3> QED BY <3>4 DEF ServerStep, KeepsAnswers
  <2>3. ASSUME Next PROVE UNCHANGED cache \/ \E c \in Clients : Process(c)
    BY <2>3 DEF Next, Serve, Execute, WaitTimeout, Retry, OnMessageReceived,
                ReceiveExact, Close, OnUdpMessage, Accept, HandleConnection,
                EndConnection, Tick
  <2>4. CASE UNCHANGED vars
    BY <2>1, <2>4 DEF vars
  <2> QED BY <2>1, <2>2, <2>3, <2>4
<1> QED BY <1>1, Invariance, PTL DEF Spec

=============================================================================
