SPECIFICATION Spec
CONSTANTS
    Scenarios <- StuckWrite
    UpCap = 1
    DownCap = 1
PROPERTY WedgedLinkDetected
CHECK_DEADLOCK FALSE
