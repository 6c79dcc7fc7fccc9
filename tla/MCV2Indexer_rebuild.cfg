SPECIFICATION FairSpec
CONSTANTS
    Target = 2
    MaxOffers = 1
    MaxPositions = 2
    MaxExposures = 2
    MaxValuations = 2
    ValuedAssets = {"cva", "cvb"}
    Confirmations = 1
    BatchSize = 2
    MaxBlocks <- Blocks
    MaxReorgs = 1
    MaxDepth = 3
    MaxAborts = 1
    ChosenProducts = {"repo", "custody", "margin", "reference"}
    HiddenReorgs = FALSE
INVARIANTS
    RebuildIsFaithful
CHECK_DEADLOCK FALSE
PROPERTIES
    CatchesUp
