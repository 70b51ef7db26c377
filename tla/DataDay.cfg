SPECIFICATION Spec
CONSTANTS
    Records = {1, 2}
    Retain = 3
    Extra = 7
    Lead = 2
    ArchiveRetain = 11
    Weekdays = {0, 4}
    TornDelete = FALSE
    MaxMishaps = 1
    Counters = {1, 2, 3, 4, 5, 6}
    Conns = {"a", "b"}
    Confirm = 3
    MaxIntervals = 2
    MaxRepeats = 2
    Trades = {1, 2, 3, 4, 5}
    Seconds = {1, 2}
    Prices = {1, 2}
    Unheard = 3
    Stocks = {"x", "y"}
    Active = {"x", "y"}
    FirstDay = 6
    LastDay = 7
    MonthDays = 2
    Lookback = 5
    GapWindow = 3
    StalePct = 40
    EmptyPct = 50
    MaxSetbacks = 2
    ShardSymbols = {"a", "b"}
    Trs = {"t"}
    ChildKinds = {"premarket", "regular", "after"}
    OpenAt = 1
    CloseAt = 2
    Grace = 1
    SessionEnd = 3
    Checkpoint = 2
    MaxBoots = 2
    MaxFaults = 1
    MaxFrames = 2
    Manifests = {1, 2}
    Instruments = {"i"}
    RegOpen = 1
    RegClose = 4
    LastSecond = 4
    MaxGap = 1
    FailPct = 20
    SymbolFailPct = 30
    SymbolMinTrades = 3
    TailMax = 0
    TradeCounts = {0, 4}
    MaxEvidence = 3
INVARIANTS
    
    LossLedgerTrue
    RepairExact
    
    VerdictSound
PROPERTIES
    RepairHeld
    
