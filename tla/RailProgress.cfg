SPECIFICATION FairSpec
CONSTANT
    Scenarios <- Progress
PROPERTIES Delivered AcceptorReleased SessionCloseReturns
CHECK_DEADLOCK FALSE
