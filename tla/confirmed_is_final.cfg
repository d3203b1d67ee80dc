SPECIFICATION Spec
CONSTANTS
    None = None
    p1 = p1  p2 = p2  t1 = t1  t2 = t2
    w1 = w1  w2 = w2  loop = loop
    Payments <- OnePayment
    Txs <- OneDeposit
    Workers <- WebWorkers
    Listeners <- NoListener
    To <- ToOnly
    Credits <- CreditsOnly
    Required = 1
    MaxFaults = 0
PROPERTIES ConfirmedIsFinal
