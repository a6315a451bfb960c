\* The proposer is the faulty node.
CONSTANTS
    p1 = p1
    p2 = p2
    p3 = p3
    p4 = p4
    r1 = r1
    r2 = r2
    None = None
    Node = {p1, p2, p3, p4}
    Faulty = {p4}
    F = 1
    Root = {r1, r2}
    InputRoot = r1
    ValidProof <- MCValidProof
    Decodable <- MCDecodable
    Proposer = p4
    FaultyMessage <- ProposerMessage
SPECIFICATION Spec
SYMMETRY CorrectFollowers
INVARIANTS
    Agreement
CHECK_DEADLOCK FALSE
