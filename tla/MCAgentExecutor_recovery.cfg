SPECIFICATION Spec
CONSTANTS
    MaxMandates = 1
    Intents = {"repay"}
    Action <- MCAction
    Plan <- MCPlan
    Notional <- MCNotional
    Constraints <- MCConstraints
    Workers = {"w1"}
    SlowWorkers = FALSE
    MaxMishaps = 2
INVARIANTS AmbiguousOutcomesRecover
CHECK_DEADLOCK FALSE
