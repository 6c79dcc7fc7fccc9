SPECIFICATION FairSpec
CONSTANTS
    MaxMandates = 2
    Intents = {"fill", "repay"}
    Action <- MCAction
    Plan <- MCPlan
    Notional <- MCNotional
    Constraints <- MCConstraints
    Workers = {"w1", "w2"}
    SlowWorkers = FALSE
    MaxMishaps = 1
INVARIANTS LeaseIsExclusive
PROPERTIES OnlyPermittedIsSent QueueDrains WithdrawalStands
CHECK_DEADLOCK FALSE
