SPECIFICATION Spec
CONSTANTS
    Id = {o1, o2}
    Cancellable = {o1}
    Chain = {c1, c2}
    MaxAttempts = 1
    MaxTracked = 1
    MaxClicks = 2
    NoTimer = NoTimer
INVARIANTS TrackerTypeOK UnsettledWatched OutcomeTruthful
PROPERTIES SettlesEventually
CHECK_DEADLOCK FALSE
