SPECIFICATION Spec
CONSTANTS
    Hash = {1, 2, 3, 4}
    Info <- MCInfo
    Malformed = {4}
    TTL = 1
    MaxTime = 2
    Source = {"filter", "txpool", "public-pending", "replay", "corpus"}
    None = None
    Ciphertext = {1, 2, 3, 4, 5, 6, 7, 8}
    Index <- MCIndex
    BMax = 6
    MaxTransactions = 4
    MaxGas = 5
    Target <- MCTarget
    PrefixSize = {2, 4}
    OtherFile <- MCOtherFile
    MaxProposalItems = 3
    Limit = {0, 2, 3, 4}
    Node = {n1, n2}
    MaxDecryptedTxs = 0
    MaxDecryptedGas = 7
    Slot = 1
    Self = 2
    OtherList <- MCOtherList
    Quorum = 3
    Followed = {"corpus"}
INVARIANTS
    StoreFresh
    CorpusPrefix
    MergeAgreement
    MergeCorrect
    PlanSound
PROPERTIES
    OnlyForBetter
CHECK_DEADLOCK FALSE
