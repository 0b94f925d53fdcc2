SPECIFICATION FairSpec
CONSTANTS
    Writers = {w1, w2}
    Readers = {r1}
    Lens = {0, 3}
    ReadLen = 2
    MaxCalls = 1
    MaxSets = 2
INVARIANTS TypeOK NoDoubleClose VerdictNamesCloser
PROPERTIES ImplementsAtomicPipe CloseWakesAll ReadTimesOut
CHECK_DEADLOCK FALSE
