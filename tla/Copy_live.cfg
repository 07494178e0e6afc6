SPECIFICATION HistorySpec
CONSTANTS
    t1 = t1
    t2 = t2
    m1 = m1
    m2 = m2
    w1 = w1
    w2 = w2
    Caller = {t1}
    Mint = {m1}
    MintOf <- MCOneTask
    BuyAttempts = 1
    SellAttempts = 1
    DryRun = {TRUE, FALSE}
    Jito = FALSE
    Lossy = TRUE
    MaxLots = 2
    MaxStray = 1
    CapTrades = 1
    DayWindow = 1
    Wallet = {w1, w2}
    MaxPositions = 1
    MintCooldown = 2
    WalletCooldown = 0
    MaxHold = 1
    Limited = {TRUE, FALSE}
    MirrorExit = TRUE
    Backlog = 2
    Flood = FALSE
    ShutdownPolls = 1
    SlowStart = FALSE
    BlindReads = FALSE
CHECK_DEADLOCK FALSE
PROPERTIES TasksEnd ShutdownExits MirrorFollows
