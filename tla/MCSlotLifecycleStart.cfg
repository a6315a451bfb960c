SPECIFICATION Spec
CONSTANTS
    Slot <- MCSlot
    FirstSlot = 1
    Starter = {c1}
    Submitter = {}
    Inbound = {h1}
    BMax = 1
    Traced = FALSE
    Limit = {0}
    MaxTraced = 0
    MaxUntraced = 0
    MaxObserved = 0
    None = None
INVARIANT
    LockedSlotStays
CHECK_DEADLOCK FALSE
