SPECIFICATION Spec
CONSTANTS
    Price <- MCPrice
    Gap <- MCGap
    Window = 3
    MaxTicks = 4
    DipPct = 25
    ReclaimPct = 20
    PendingExpire = 6
    ReclaimConfirm = 2
    Debounce = 2
    MinTicks = 3
PROPERTY FireIsContinuous
