SPECIFICATION HooksFairSpec
CONSTANTS
    None = None
    loop = loop
    N = 3
    Workers <- TheLoop
    Listeners <- TheLoop
    BatchLimit = 1
    CronLimit = 3
    MaxAttempts = 2
    MaxPoisoned = 0
    MaxDeaths = 0
PROPERTIES AllAreSettled
