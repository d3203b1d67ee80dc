SPECIFICATION Spec
CONSTANTS
    None = None
    w1 = w1  m1 = m1  m2 = m2
    Handlers = {h1, h2}
    Wallets = {w1}
    Mails = {m1, m2}
    MailOf <- MCMailOf
    Names <- MCNames
    Nonces = {n1}
    MaxCrashes = 1
    shop = shop  rival = rival  k = k
    twice1 = twice1  twice2 = twice2  other = other  plain = plain  bad = bad
    Requests <- Five
    UserOf <- Users
    KeyOf <- Keys
    FormsOf <- Forms
    Dashboard <- FromForm
    MaxAmount = 2
    HttpsOnly = TRUE
    MaxIds = 6
    MaxLosses = 1
INVARIANTS TypeOK OrphansNeedACrash TokensNameUsers OnePaymentPerKey AnswersAreTrue WalletsPairOff
PROPERTIES EveryWalletGetsIn ImplementsCreateOnce EveryClientIsServed
CHECK_DEADLOCK FALSE
