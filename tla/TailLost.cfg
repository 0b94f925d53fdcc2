SPECIFICATION Spec
CONSTANT
    Scenarios <- GracefulEnd
INVARIANT TailDelivered
CHECK_DEADLOCK FALSE
