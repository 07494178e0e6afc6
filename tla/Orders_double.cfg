SPECIFICATION Spec
CONSTANTS
    c1 = c1
    c2 = c2
    m1 = m1
    Caller = {c1, c2}
    Mint = {m1}
    MintOf <- MCMintOf
    OpOf <- MCBuyerAndSeller
    BuyAttempts = 3
    SellAttempts = 3
    DryRun = {FALSE}
    Jito = FALSE
    Lossy = TRUE
    MaxLots = 3
    MaxStray = 1
    Stock = 1
CHECK_DEADLOCK FALSE
INVARIANT NoDoubleExecution
