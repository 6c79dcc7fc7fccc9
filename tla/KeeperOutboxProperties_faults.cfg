SPECIFICATION FairSpec
CONSTANTS
    Target = {"auction", "liquidation", "v1"}
    Jobs = {"auction", "liquidation"}
    RepoJobs = {"auction"}
    LegacyTarget = "v1"
    Confirmations = 1
    MaxFee = 1
    MaxLag = 1
    MaxReorgs = 1
    MaxDrops = 1
    MaxFaults = 1
    MaxCrashes = 1
    MaxLegacy = 1
    MaxMishaps = 1
INVARIANT OutboxIsSound
PROPERTY EveryJobSettles
