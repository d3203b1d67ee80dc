SPECIFICATION Spec
CONSTANTS
    None = None
    loop = loop  other = other
    Workers <- LoopAndOther
    Listeners <- TheLoop
    N = 3
    BatchLimit = 2
    CronLimit = 3
    MaxAttempts = 2
    MaxPoisoned = 1
    MaxDeaths = 1
    MaxHeight = 5
    ScanBlocks = 3
    Life = 3
    Lag = 1
    MaxReorg = 2
INVARIANTS TypeOK DeliveredWasAccepted AttemptsAreReal NoDepositSkipped
PROPERTIES OldestAreSettled DepositIsFound
CHECK_DEADLOCK FALSE
