SPECIFICATION FairSpec
CONSTANTS
    Shards = {0, 1}
    Cap = 3
    MaxLeaseFaults = 2
    Kids = {"k1", "k2"}
    MaxRestarts = 1
    Window = 4
    ProbeBase = 1
    ProbeMax = 3
    Limit = 1
    MaxStale = 1
    Codes = {"a", "b", "c", "s"}
    StaticCodes = {"s"}
    Barred = {}
    Suspended = {"c"}
    Rankings <- RankingsOfRun
    FillOrder <- FillOrderOfRun
    FeedCap <- FeedCapOfRun
    MaxPolls = 2
    MaxBlows = 2
    Watched = "kis"
    Unlisted = {"b"}
    KeyedAcks = TRUE
    Symbols <- TapeSymbols
    Days = {1, 2}
    Tapes <- TapesOfRun
    PageSize = 2
    MaxTicks = 3
    FlushRows = 2
    MaxUpsets = 2
    MinuteCells <- CellsOfRun
    Close = 4
    CompleteEarly = 2
    PageBars = 2
    CallBudget = 4
    DayBars <- BarsOfRun
    MaxSlips = 2
INVARIANTS
    PrimariesFirst
    FailuresContained
    AdmissionsSound
    SubscriptionsTrue
    TapeLedgerSound
    MinuteLedgerSound
PROPERTIES
    Progress
CHECK_DEADLOCK FALSE
