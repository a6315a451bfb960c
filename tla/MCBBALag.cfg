CONSTANTS
    p1 = p1
    p2 = p2
    p3 = p3
    p4 = p4
    None = None
    Node = {p1, p2, p3, p4}
    Faulty <- Nobody
    FaultyMessage <- Nobody
    F = 1
    MaxEpoch = 3
SPECIFICATION Spec
ACTION_CONSTRAINT Schedule
INVARIANT EveryNodeOutputs
CHECK_DEADLOCK FALSE
