SPECIFICATION ScanSpec
CONSTANTS
    None = None
    loop = loop
    MaxHeight = 6
    ScanBlocks = 4
    Life = 4
    Lag = 1
    MaxReorg = 0
    Workers <- TheLoop
    Listeners <- TheLoop
INVARIANT ScannedFromCreation

