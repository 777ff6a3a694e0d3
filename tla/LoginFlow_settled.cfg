SPECIFICATION Spec
CONSTANTS
    Flow = {f1}
    Expiring = {f1}
    Token = {}
    PollSlot = {p1}
    MaxFailures = 2
    NoFlow = NoFlow
    NoToken = NoToken
PROPERTIES SettledStays
CHECK_DEADLOCK FALSE
