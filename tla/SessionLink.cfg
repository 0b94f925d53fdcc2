SPECIFICATION Spec
CONSTANTS
    Scenarios <- All
    UpCap = 1
    DownCap = 1
PROPERTIES LiveSessionSpared DeadLinkDetected ProbeReturns LoopsStop
CHECK_DEADLOCK FALSE
