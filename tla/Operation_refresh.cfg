SPECIFICATION Spec
CONSTANTS
    Id = {o1}
    Cancellable = {o1}
    Chain = {c1}
    MaxAttempts = 1
    MaxTracked = 1
    MaxClicks = 3
    NoTimer = NoTimer
INVARIANTS SettledRefreshed
CHECK_DEADLOCK FALSE
