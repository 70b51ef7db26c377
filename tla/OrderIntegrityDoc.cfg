SPECIFICATION Spec
CONSTANTS
    MaxNo = 2
    MaxForeign = 1
    InitHeld = 1
    Intents <- BuyTwo
    MaxOrders = 1
    MatchSkew = 0
    Lagging = FALSE
    Market <- CalmOnly
    Limits <- DayLimits
    ParityAttempts = 1
    MaxCrashes = 1
    OperatorChecks = TRUE
INVARIANTS
    IntegrityErrorsAreTheBrokers
