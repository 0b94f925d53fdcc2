\* A cap of one session: callers multiplex and time out, against idleCleanup and Reset.
SPECIFICATION Spec
CONSTANTS
    c1 = c1
    c2 = c2
    Callers = {c1, c2}
    MaxDials = 2
    MaxCalls = 2
    MaxSession = 1
    MinIdle = 1
    Threshold = 1
    Events = {"timeout", "data"}
    Operations = {"cleanup", "reset"}
SYMMETRY CallerSymmetry
CHECK_DEADLOCK FALSE
INVARIANTS
    HealthySessionPooled
    ActiveStreamsExact
    ClosedSessionLeavesMap
PROPERTIES
    CleanupKeepsMinIdle
    ResetClosesPublishedSessions
