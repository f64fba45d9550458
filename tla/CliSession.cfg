SPECIFICATION Spec
CONSTANTS
    Clients = {p1, p2}
    default_client = default_client
    NoPort = NoPort
    Opcodes = {"APPEND"}
    RequestIds = {1, 2, 3, 4, 5}
    IDEMPOTENCY_TTL = 1
    DNS_TTL = 0
    MaxConnects = 2
    MaxCalls = 2
    MaxReplays = 1
    MaxCopies = 2
    MaxTime = 1
INVARIANTS
    RepeatedOnlyElsewhere
    OwnResult
CHECK_DEADLOCK FALSE
SYMMETRY Symmetry
