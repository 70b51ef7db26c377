SPECIFICATION FairSpec
CONSTANTS
    Pairs <- TwoPairs
    MaxTime = 3
    MaxBoots = 1
    MaxPumps = 2
    Lag = 0
    Hour = 8
    TornFlush = TRUE
    Refusals = TRUE

    
PROPERTIES
    StopEnds
