SPECIFICATION Spec
CONSTANTS
    Token = {t1, t2}
    PreToken = {p1}
    SessionIdle = 1
    SessionMax = 3
    BootstrapTtl = 2
    MaxSessions = 1
    MaxPrelogins = 1
    NoTime = NoTime
    UpstreamTime = {2}
    UpstreamIdleTime = {}
    MaxTime = 2
    Browser = {b1}
    Request = {r1, r2}
    Kind = {"bootstrap", "login", "session", "logout", "proxy", "diagnostics"}
    RefreshInterval = 0
    LoginGate = 2
    BootstrapGate = 1
    MaxRestarts = 1
    NoToken = NoToken
    Keep = Keep
SYMMETRY SlotSymmetry
INVARIANTS TypeOK GateBalanced EndedSessionsGone RevocationConfirmed
PROPERTIES PreloginUsedByLogin AuthenticatedRepliesChecked TablesImplementLifecycle
CHECK_DEADLOCK FALSE
