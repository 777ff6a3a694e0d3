SPECIFICATION StoreSpec
CONSTANTS
    Token = {t1, t2}
    PreToken = {p1, p2}
    SessionIdle = 1
    SessionMax = 3
    BootstrapTtl = 2
    MaxSessions = 1
    MaxPrelogins = 1
    NoTime = NoTime
    UpstreamTime = {3, 9}
    UpstreamIdleTime = {}
    MaxTime = 4
INVARIANTS StoreTypeOK CapacityBound DeadlineAnchored UsedWithinLifetime
PROPERTIES ExpiredNeverAccepted NoEviction TablesImplementLifecycle ExpiredRemoved
CHECK_DEADLOCK FALSE
