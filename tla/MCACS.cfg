\* The faulty node's broadcast comes out with a batch that does not decode.
CONSTANTS
    p1 = p1
    p2 = p2
    p3 = p3
    p4 = p4
    None = None
    Failed = Failed
    Node = {p1, p2, p3, p4}
    Faulty = {p4}
    Speaking = {p4}
    Malformed = {p4}
    F = 1
SPECIFICATION Spec
SYMMETRY FastNodes
ACTION_CONSTRAINTS
    ProposalsFirst
    LateNode
    LeavesUnheard
INVARIANTS
    SlotAgreement
    NothingMissed
    EveryoneOutputs
PROPERTIES
    KeepsPromise
    UsesServices
CHECK_DEADLOCK FALSE
