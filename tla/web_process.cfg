CONSTANTS
    Workers = {p1, p2}
    None = None
    MaxTime = 4
    Users = {u1, u2}
    Keys <- MCKeys
    Limit = 1
    MaxCrashes = 1
    MaxCalls = 2
    Window = 2
    MaxTries = 5
    Entries = {"prices", "chart"}
    TTL <- MCTTL
    Threads = {t1, t2, t3}
    Attempts = 3
SPECIFICATION Spec
INVARIANTS TypeOK ReplacedHasSuccessor CreationsWithinLimit WithinLimit WorkersAgree NoStaleError
PROPERTIES RevokedIsFinal RefusedWereMany
