SPECIFICATION Spec
CONSTANTS
    MaxEvents = 6
    MaxStandbys = 2
    MaxPumps = 1
    MaxLag = 2
    PerSecond = 1
    Untimed = {2}
    SeenCap = 4
    MaxSessions = 2
    StallRefresh = TRUE
    HotWindow = FALSE
PROPERTIES
    OnceInOverlap
