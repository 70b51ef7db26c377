SPECIFICATION Spec
CONSTANTS
    MaxNo = 2
    MaxForeign = 0
    InitHeld = 1
    Intents <- BuyOneSellOne
    MaxOrders = 2
    MatchSkew = 1
    Lagging = FALSE
    Market <- CalmOnly
    Limits <- DayLimits
    ParityAttempts = 1
    MaxCrashes = 1
    OperatorChecks = TRUE
INVARIANTS
    UniqueNumbers
    LiveOrdersTracked
    IdsAccounted
    ExitCodesTruthful
PROPERTIES
    ReconcileComplete
