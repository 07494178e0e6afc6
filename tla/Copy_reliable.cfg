SPECIFICATION HistorySafety
CONSTANTS
    t1 = t1
    t2 = t2
    m1 = m1
    m2 = m2
    w1 = w1
    w2 = w2
    Caller = {t1, t2}
    Mint = {m1, m2}
    MintOf <- MCOwnToken
    BuyAttempts = 1
    SellAttempts = 1
    DryRun = {TRUE, FALSE}
    Jito = FALSE
    Lossy = FALSE
    MaxLots = 2
    MaxStray = 0
    CapTrades = 1
    DayWindow = 2
    Wallet = {w1}
    MaxPositions = 1
    MintCooldown = 0
    WalletCooldown = 0
    MaxHold = 1
    Limited = {TRUE}
    MirrorExit = FALSE
    Backlog = 1
    Flood = FALSE
    ShutdownPolls = 1
    SlowStart = FALSE
    BlindReads = TRUE
CHECK_DEADLOCK FALSE
INVARIANTS TypeOK SlotLedger LeftoverIsAnnounced NoOrphanOnShutdown BarredNeverBuy
PROPERTY IsSlotCap
