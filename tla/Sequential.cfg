SPECIFICATION Spec
CONSTANTS
    MaxKey = 4
    MaxLevel = 4
    Values = {"a", "b"}
    Schemes <- ShaperSchemes
    DataSizes = {256, 601, 16384, 140000}
    ControlSizes = {0, 38, 65535}
    Passwords = {"p", "q"}
    ServerSchemes <- AuthSchemes
    RecordSizes = {1151, 16384}
    Bursts = {31, 32, 33, 34, 40}
    Lengths = {0, 6, 7}
INVARIANTS SkipListIsSortedMap PeerReassembles RecordsShaped
PROPERTY AuthAdmitted
