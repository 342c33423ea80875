SPECIFICATION Spec
CHECK_DEADLOCK FALSE
VIEW View
SYMMETRY Symmetry
CONSTANTS
    Candidates = {c1}
    Workers = {w1, w2}
    Slots = 4
    MaxPayload = 3
    Refused = {1}
    MaxFaults = 0
INVARIANTS
    ServedAsVerified
