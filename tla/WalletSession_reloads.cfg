SPECIFICATION FairSpec
CHECK_DEADLOCK FALSE
CONSTANTS
    Tab = {t1, t2}
    Kinds = {"fill", "create-offer", "repay"}
    Amount = 2
    DriftBuffer = 1
    MaxTime = 2
    MaxTxs = 4
    MaxMishaps = 2

INVARIANT DoneOnce
PROPERTY LockIsReleased
