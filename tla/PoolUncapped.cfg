\* No session cap: two callers take turns on one session, with FINs, refusals and failing I/O.
SPECIFICATION Spec
CONSTANTS
    c1 = c1
    c2 = c2
    Callers = {c1, c2}
    MaxDials = 1
    MaxCalls = 3
    MaxSession = 0
    MinIdle = 0
    Threshold = 1
    Events = {"data", "control", "waste", "probe", "read", "synack", "fin"}
    Operations = {"cleanup", "reset"}
SYMMETRY CallerSymmetry
CHECK_DEADLOCK FALSE
INVARIANTS
    CleanupSparesLiveStreams
    UncappedSessionsExclusive
    BrokenSessionReaped
    Ownership
    TypeOK
