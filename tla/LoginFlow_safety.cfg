SPECIFICATION Spec
CONSTANTS
    Flow = {f1, f2}
    Expiring = {f1, f2}
    Token = {k1}
    PollSlot = {p1}
    MaxFailures = 1
    NoFlow = NoFlow
    NoToken = NoToken
SYMMETRY FlowSymmetry
INVARIANTS FlowTypeOK UnmountDropsSecret OutcomeTruthful DeclinedNeverSent
CHECK_DEADLOCK FALSE
