SPECIFICATION Spec
CONSTANTS
    MaxEvents = 4
    MaxStandbys = 2
    MaxPumps = 2
    MaxLag = 2
    PerSecond = 1
    Untimed = {2}
    SeenCap = 4
    MaxSessions = 2
    StallRefresh = FALSE
    HotWindow = TRUE
INVARIANTS
    ConnectionsSound

    
