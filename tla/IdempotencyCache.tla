-------------------------- MODULE IdempotencyCache --------------------------
(***************************************************************************)
(* IdempotencyCache of server/agent/idempotency.py: responses by client,   *)
(* request id and opcode, good for IDEMPOTENCY_TTL seconds.  cleanup is    *)
(* never called, so an entry goes only when it is looked up after it has   *)
(* expired.  now is time.time() in whole units.                            *)
(***************************************************************************)
EXTENDS Integers, Functions

CONSTANTS IDEMPOTENCY_TTL   \* 120 seconds

ASSUME TTLAssumption == IDEMPOTENCY_TTL \in Nat

VARIABLES cache, now

\* Mutant: the client is left out of the key.
KeyWithoutClient(client_id, request_id, opcode) ==
    <<"anyone", request_id, opcode>>

Key(client_id, request_id, opcode) == <<client_id, request_id, opcode>>

CacheInit == cache = <<>> /\ now = 0

\* get_response returns the entry: present and younger than the TTL.
Hit(key) ==
    /\ key \in DOMAIN cache
    /\ now - cache[key].timestamp < IDEMPOTENCY_TTL

\* The cache c after get_response has missed: an expired entry is deleted.
Missed(c, key) == Restrict(c, DOMAIN c \ {key})

\* The cache c after store_response.
Stored(c, key, response) ==
    [k \in DOMAIN c \cup {key} |->
        IF k = key THEN [response_data |-> response, timestamp |-> now]
        ELSE c[k]]

=============================================================================
