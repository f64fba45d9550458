SPECIFICATION FairSpec
CONSTANTS
    start_ip = 2
    end_ip = 3
    DHCP_DEFAULT_LEASE_TIME = 1
    Macs = {m1, m2}
    Xids = {x1, x2}
    MAX_RETRIES_PER_STAGE = 2
    NoIp = NoIp
    NoXid = NoXid
    MaxTime = 2
INVARIANTS
    TypeOK
    PoolExact
    NoSharedAddress
PROPERTY
    AcquireReturns
CHECK_DEADLOCK FALSE
