SPECIFICATION Spec
CONSTANTS
    Campaign <- MCCampaign
    Size <- MCSize
    Value = {1, 2}
    Exact = {1}
    MaxRestarts = 2
    None = None
INVARIANTS
    RetainedInOrder
    Attributable
    CleanCluster
    RestartBudget
PROPERTIES
    CampaignEnds
CHECK_DEADLOCK FALSE
