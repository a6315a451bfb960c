SPECIFICATION Spec
CONSTANTS
    Slot <- MCSlot
    FirstSlot = 1
    Starter = {c1}
    Submitter = {u1, u2}
    Inbound = {h1}
    BMax = 2
    Traced = TRUE
    Limit = {1}
    MaxTraced = 2
    MaxUntraced = 1
    MaxObserved = 1
    None = None
INVARIANTS
    ReplacementWaits
    DistinctIndexes
    ProposalFrozen
    PublishedStable
    SealSettles
PROPERTIES
    CompletedDrains
    KeepsPromise
SYMMETRY Symmetry
CHECK_DEADLOCK FALSE
