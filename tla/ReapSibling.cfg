\* A SYNACK timer reaps a session that has been handed to the next caller meanwhile.
SPECIFICATION Spec
CONSTANTS
    c1 = c1
    c2 = c2
    Callers = {c1, c2}
    MaxDials = 2
    MaxCalls = 3
    MaxSession = 0
    MinIdle = 0
    Threshold = 2
    Events = {"timeout"}
    Operations = {}
SYMMETRY CallerSymmetry
CHECK_DEADLOCK FALSE
INVARIANTS
    ReapSparesSiblings
