SPECIFICATION Safety
CONSTANTS
    s1 = s1
    s2 = s2
    s3 = s3
    Caller = {s1, s2, s3}
    Mint = {s1, s2, s3}
    MintOf <- MCOwnToken
    BuyAttempts = 1
    SellAttempts = 1
    DryRun = {TRUE, FALSE}
    Jito = FALSE
    Lossy = FALSE
    MaxLots = 2
    MaxStray = 0
    CapTrades = 2
    DayWindow = 2
    EntryMode = "dip_buy"
    MaxPositions = 2
    MaxMonitor = 2
    Limited = {TRUE}
    MaxHold = 1
    Cooldown = 1
    BlindReads = FALSE
SYMMETRY Symmetry
INVARIANTS TypeOK SlotLedger SpendOvershootBounded NoPyramiding OpenPositionIsBacked LeftoverIsAnnounced
PROPERTIES IsSlotCap NoBuyAfterDeadline
