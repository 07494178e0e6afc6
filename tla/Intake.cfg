SPECIFICATION Spec
CONSTANTS
    Event <- MCEvent
    MaxBackoff = 2
    MaxEvents = 1
    Settings <- MCSettings
    LookupAttempts = 3
    PageSize = 2
    MaxPages = 2
    TopN = 2
    Listed = 3
    TokenAccount <- MCAccounts
    Owners <- MCOwners
    Balances <- MCBalances
    MaxCount = 1
    MaxSigs = 5
INVARIANTS IntakeTypeOK TxCountIsSnapshot WhalesAreCounted
PROPERTIES EveryTaskDecides ListenerRecovers
