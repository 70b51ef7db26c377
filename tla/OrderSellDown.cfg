SPECIFICATION FairSpec
CONSTANTS
    MaxNo = 2
    MaxForeign = 0
    InitHeld = 3
    Intents <- SellTwo
    MaxOrders = 2
    MatchSkew = 0
    Lagging = TRUE
    Market <- CalmOrHalted
    Limits <- DayLimits
    ParityAttempts = 2
    MaxCrashes = 2
    OperatorChecks = TRUE
INVARIANTS
    NeverOversold
    FillsAtBroker
    RecoveryExact
PROPERTIES
    ImplementsOrderLife
    CommandsEnd
