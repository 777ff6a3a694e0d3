SPECIFICATION Spec
CONSTANTS
    Token = {t1}
    PreToken = {p1}
    SessionIdle = 1
    SessionMax = 3
    BootstrapTtl = 2
    MaxSessions = 1
    MaxPrelogins = 1
    NoTime = NoTime
    UpstreamTime = {}
    UpstreamIdleTime = {}
    MaxTime = 1
    Browser = {b1}
    Request = {r1, r2}
    Kind = {"bootstrap", "login", "session", "logout", "proxy", "diagnostics"}
    RefreshInterval = 0
    LoginGate = 2
    BootstrapGate = 1
    MaxRestarts = 1
    NoToken = NoToken
    Keep = Keep
PROPERTIES RequestsAnswered
CHECK_DEADLOCK FALSE
