SPECIFICATION Spec
CONSTANTS
    MaxNo = 2
    MaxForeign = 1
    InitHeld = 1
    Intents <- BuyTwo
    MaxOrders = 1
    MatchSkew = 1
    Lagging = TRUE
    Market <- CalmOnly
    Limits <- DayLimits
    ParityAttempts = 2
    MaxCrashes = 1
    OperatorChecks = FALSE
INVARIANTS
    LedgerCountsFillsOnce
    JournalSound
