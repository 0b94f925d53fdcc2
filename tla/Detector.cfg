SPECIFICATION FairSpec
CONSTANTS
    Flows <- Handshakes
    HeaderLen = 5
    MaxRecord = 8
    MinBulk = 12
    Modes = {TRUE, FALSE}
    MaxSegment = 7
INVARIANTS TypeOK ScannerExact GateAfterHandshake StaysOnMux OfferedOnce
PROPERTY BulkFlowOffered
CHECK_DEADLOCK FALSE
