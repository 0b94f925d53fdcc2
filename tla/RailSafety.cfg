SPECIFICATION Spec
CONSTANT
    Scenarios <- Safety
INVARIANTS TypeOK InOrder EofComplete GracefulTeardown ServerCarrierReleased
CHECK_DEADLOCK FALSE
