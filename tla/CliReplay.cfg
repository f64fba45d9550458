SPECIFICATION Spec
CONSTANTS
    Clients = {p1, p2}
    default_client = default_client
    NoPort = NoPort
    Opcodes = {"APPEND"}
    RequestIds = {1, 2, 3, 4, 5, 6}
    IDEMPOTENCY_TTL = 1
    DNS_TTL = 0
    MaxConnects = 2
    MaxCalls = 3
    MaxReplays = 2
    MaxCopies = 1
    MaxTime = 0
INVARIANT
    NewPortResult
CHECK_DEADLOCK FALSE
SYMMETRY Symmetry
