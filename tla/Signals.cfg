SPECIFICATION SignalsSpec
CONSTANTS
    Price <- MCPrice
    Gap <- MCGap
    Window = 3
    MaxTicks = 4
    DipPct = 25
    ReclaimPct = 20
    PendingExpire = 6
    ReclaimConfirm = 2
    Debounce = 2
    MinTicks = 3
    Quote <- MCQuote
    MinDrawdown = 30
    MaxQuantile = 20
    MinPoolDrawdown = 20
    MaxPoolDrawdown = 45
    MinPoolSol = 30
    FireCooldown = 3
    MaxAge = 8
    PoolRecovery = 3
    PoolRecoveryPct = 3
    PriceRecovery = 2
    PriceRecoveryPct = 5
    MinDipTicks = 3
    Interval = 3
    Fast = 1
    Slow = 2
    SignalPeriod = 2
    EntryModes = {"dip_buy", "capitulation", "macd"}
INVARIANTS SignalsTypeOK ConfirmWithinPending FiresApart SilenceRestartsWindow
    DenseTicksAreJudged OneFirePerDip NoCrossDuringWarmup
PROPERTY FallbackRestarts
