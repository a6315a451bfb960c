SPECIFICATION Spec
CONSTANTS
    Node = {1, 2}
    Link <- MCLink
    Mode = {"fresh", "persistent-lanes"}
    Call = {s1, s2}
    Kind = {"echo", "bval", "mismatch"}
    MaxStreams = 2
    QueueCapacity = 1
    InboundCapacity = 1
    Window = 1
    MaxDrops = 1
    Rogue = {s1}
    Forged <- MCForged
    LaneInUse = {"data"}
    MaxClosed = 1
    Preparing = {2}
    MaxAttempts = 1
    None = None
INVARIANTS
    FaithfulDelivery
    ExactlyOnce
    QuietAfterClose
    NothingStuck
ACTION_CONSTRAINT PrepareMeetsHandler
CHECK_DEADLOCK FALSE
