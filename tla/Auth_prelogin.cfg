SPECIFICATION Spec
CONSTANTS
    Token = {t1, t2}
    PreToken = {p1, p2}
    SessionIdle = 1
    SessionMax = 3
    BootstrapTtl = 2
    MaxSessions = 2
    MaxPrelogins = 1
    NoTime = NoTime
    UpstreamTime = {}
    UpstreamIdleTime = {}
    MaxTime = 1
    Browser = {b1}
    Request = {r1, r2}
    Kind = {"bootstrap", "login"}
    RefreshInterval = 0
    LoginGate = 2
    BootstrapGate = 1
    MaxRestarts = 1
    NoToken = NoToken
    Keep = Keep
INVARIANTS PreloginLogsInOnce
CHECK_DEADLOCK FALSE
