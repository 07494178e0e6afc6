SPECIFICATION Safety
CONSTANTS
    s1 = s1
    s2 = s2
    s3 = s3
    Caller = {s1, s2}
    Mint = {s1, s2}
    MintOf <- MCOwnToken
    BuyAttempts = 2
    SellAttempts = 1
    DryRun = {FALSE}
    Jito = FALSE
    Lossy = FALSE
    MaxLots = 2
    MaxStray = 0
    CapTrades = 2
    DayWindow = 2
    EntryMode = "dip_buy"
    MaxPositions = 1
    MaxMonitor = 2
    Limited = {TRUE}
    MaxHold = 1
    Cooldown = 1
    BlindReads = TRUE
INVARIANT NoPyramiding
