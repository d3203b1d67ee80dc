CONSTANTS
    None = None
    w1 = w1  m1 = m1  m2 = m2
    Handlers = {h1, h2}
    Wallets = {w1}
    Mails = {m1, m2}
    MailOf <- MCMailOf
    Names <- MCNames
    Nonces = {n1}
    MaxCrashes = 0
SPECIFICATION AccountsFairSpec
PROPERTIES WalletsAreNotLockedOut
