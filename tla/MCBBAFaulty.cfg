\* The faulty node sides with FALSE.
CONSTANTS
    p1 = p1
    p2 = p2
    p3 = p3
    p4 = p4
    None = None
    Node = {p1, p2, p3, p4}
    Faulty = {p4}
    FaultyMessage <- Dissents
    F = 1
    MaxEpoch = 3
SPECIFICATION Spec
SYMMETRY SlowNodes
ACTION_CONSTRAINT PromptNode
INVARIANTS
    NobodyLeftBehind
PROPERTY KeepsPromise
CHECK_DEADLOCK FALSE
