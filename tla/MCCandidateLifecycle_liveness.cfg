SPECIFICATION FairSpec
CHECK_DEADLOCK FALSE
CONSTANTS
    Candidates = {c1}
    Workers = {w1}
    Slots = 5
    MaxPayload = 2
    Refused = {1}
    MaxFaults = 1
INVARIANTS
    ReservedByALiveTask
PROPERTIES
    VerifiedRecordMovesOn
