SPECIFICATION Spec
CONSTANTS
    c1 = c1
    c2 = c2
    m1 = m1
    Caller = {c1, c2}
    Mint = {m1}
    MintOf <- MCMintOf
    OpOf <- MCBuyerAndSeller
    BuyAttempts = 3
    SellAttempts = 2
    DryRun = {TRUE, FALSE}
    Jito = TRUE
    Lossy = TRUE
    MaxLots = 5
    MaxStray = 2
    Stock = 1
CHECK_DEADLOCK FALSE
PROPERTIES IsOrder EveryCallReturns
