SPECIFICATION FairSpec
CONSTANTS
    None = None
    p1 = p1  p2 = p2  t1 = t1  t2 = t2
    w1 = w1  w2 = w2  loop = loop
    Payments <- OnePayment
    Txs <- OneDeposit
    Workers <- LoopAndWeb
    Listeners <- TheLoop
    To <- ToOnly
    Credits <- CreditsOnly
    Required = 2
    MaxFaults = 0
INVARIANTS ProcessedIsCredited CreditIsSettledOrSlipped
PROPERTIES ImplementsRacedLifecycle ExpiredIsResolved 
