SPECIFICATION Spec
CONSTANTS
    Reading <- MCReading
    DiscoveryAttempts = 2
    MaxLag = 3
    MaxQueue = 2
    RugFilter <- MCRugFilter
    Rules <- MCRules
    Entries = {10}
INVARIANTS MonitorTypeOK LagIsTradeTime TrailAfterRefusedProfit
PROPERTIES TrailsFromTheBest RugEndsSession EndTogether
