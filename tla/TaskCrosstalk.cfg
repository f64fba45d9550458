SPECIFICATION Spec
CONSTANTS
    Clients = {c1, c2}
    default_client = default_client
    NoClient = NoClient
    Opcodes = {"TASK"}
    RequestIds = {1}
    IDEMPOTENCY_TTL = 5
    timeout = 1
    MAX_RETRIES = 1
    INITIAL_RTO = 1
    MAX_RTO = 1
    MaxDelay = 2
    MaxCalls = 2
    MaxTime = 6
INVARIANTS
    TaskAnswerTrue
CHECK_DEADLOCK FALSE
