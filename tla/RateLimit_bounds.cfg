SPECIFICATION SharedSpec
CONSTANTS
    Key = {global, s1, s2, s3}
    Pinned = {global}
    Limit = 2
    Window = 3
    MaxKeys = 3
    Second = 2
    MaxTime = 6
    Asker = {r1, r2}
    MaxAge = {1, 3}
    ProbeTimeout = 2
    MaxClock = 6
    NoFinding = NoFinding
SYMMETRY SourceSymmetry
INVARIANTS LimitTypeOK TableBounded BoundaryBound RetryAfterHonest ProbeFresh
PROPERTIES PinnedNeverEvicted
CHECK_DEADLOCK FALSE
