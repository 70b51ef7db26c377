SPECIFICATION Spec
CONSTANTS
    Critical = {"c1", "c2"}
    Bounded = {"b1", "b2"}
    Interval = 2
    Lead = 1
    MaxClock = 4
    MaxPacingFaults = 1
    Procs = {"a", "b", "r"}
    Issuers = {"a", "b"}
    MaxHalf = 2
    MaxKisFaults = 1
    TossUsers = {"t1", "t2"}
    ContractUsers = {"c"}
    MaxTime = 4
    MaxTokenFaults = 1
    Pagers = {"p", "q"}
    PageKeys = {"k1", "k2", "k3"}
    DailyCap = 2
    MaxDay = 1
    MaxAlertFaults = 1
    AlertBudget = 2
    MaxRuns = 5
    MaxCrashDay = 1
    MaxWriteFaults = 1
INVARIANTS
    PacingSound
    CriticalWait
    TokenSound
    RecordSound
    
PROPERTIES
    NoNeedlessIssue
    AlertingTrue
