SPECIFICATION StoreSpec
CONSTANTS
    Token = {t1}
    PreToken = {}
    SessionIdle = 1
    SessionMax = 3
    BootstrapTtl = 2
    MaxSessions = 1
    MaxPrelogins = 1
    NoTime = NoTime
    UpstreamTime = {9}
    UpstreamIdleTime = {2, 9}
    MaxTime = 4
PROPERTIES AcceptedWithinUpstreamIdle
CHECK_DEADLOCK FALSE
