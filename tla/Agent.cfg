SPECIFICATION FairSpec
CONSTANTS
    Clients = {c1, c2}
    default_client = default_client
    NoClient = NoClient
    Opcodes = {"APPEND", "TASK"}
    RequestIds = {1, 2}
    IDEMPOTENCY_TTL = 5
    timeout = 1
    MAX_RETRIES = 1
    INITIAL_RTO = 1
    MAX_RTO = 1
    MaxDelay = 2
    MaxCalls = 2
    MaxTime = 6
INVARIANTS
    TypeOK
    EffectOnce
    AnswerTrue
    OnlyOwnAnswer
PROPERTY
    CallReturns
CHECK_DEADLOCK FALSE
