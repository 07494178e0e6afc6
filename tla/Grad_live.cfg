SPECIFICATION Spec
CONSTANTS
    s1 = s1
    s2 = s2
    s3 = s3
    Caller = {s1}
    Mint = {s1}
    MintOf <- MCOwnToken
    BuyAttempts = 2
    SellAttempts = 2
    DryRun = {TRUE, FALSE}
    Jito = FALSE
    Lossy = TRUE
    MaxLots = 2
    MaxStray = 1
    CapTrades = 2
    DayWindow = 2
    EntryMode = "macd"
    MaxPositions = 1
    MaxMonitor = 2
    Limited = {TRUE, FALSE}
    MaxHold = 1
    Cooldown = 1
    BlindReads = TRUE
PROPERTIES SessionsEnd PositionsAreSold
