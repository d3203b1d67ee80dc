SPECIFICATION Spec
CONSTANTS
    None = None
    p1 = p1  p2 = p2  t1 = t1  t2 = t2
    w1 = w1  w2 = w2  loop = loop
    Payments <- TwoPayments
    Txs <- TwoDeposits
    Workers <- WebWorkers
    Listeners <- NoListener
    To <- ToTwo
    Credits <- CreditsTwo
    Required = 1
    MaxFaults = 1
SYMMETRY Interchangeable
INVARIANTS TypeOK TransactionsIsolated OneCreditPerPayment NoticeMatchesLedger ShownIsPaid
PROPERTIES FailedIsFinal ImplementsCreditOnce ImplementsRacedLifecycle
