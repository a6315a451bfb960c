CONSTANTS
    None = None
    Operator = {0, 1, 2, 3}
    Self = 1
    Faulty = {0}
    FaultyShare <- WrongShares
    Planned = "planned"
    Batch = {"planned", "other"}
    Alpha = 2
    BMax = 3
    Threshold = 3
    MaxAttempts = 6
    MaxWaking = 2
SPECIFICATION FairSpec
INVARIANTS
    RightSharesKept
    NothingMissed
    ResultBacked
PROPERTIES
    KeepsPromise
    Concludes
CHECK_DEADLOCK FALSE
