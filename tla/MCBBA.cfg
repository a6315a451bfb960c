\* The faulty node is down.
CONSTANTS
    p1 = p1
    p2 = p2
    p3 = p3
    p4 = p4
    None = None
    Node = {p1, p2, p3, p4}
    Faulty = {p4}
    FaultyMessage <- Silent
    F = 1
    MaxEpoch = 3
SPECIFICATION FairSpec
INVARIANTS
    NothingMissed
PROPERTY Termination
CHECK_DEADLOCK FALSE
