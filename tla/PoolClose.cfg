\* Client.Close against callers that are still opening and closing streams.
SPECIFICATION FairSpec
CONSTANTS
    c1 = c1
    c2 = c2
    Callers = {c1, c2}
    MaxDials = 2
    MaxCalls = 2
    MaxSession = 1
    MinIdle = 0
    Threshold = 2
    Events = {"control"}
    Operations = {"close"}
CHECK_DEADLOCK FALSE
PROPERTIES
    ClientCloseReleasesAll
