SPECIFICATION Spec
CONSTANTS
    Pairs <- TwoPairs
    MaxTime = 3
    MaxBoots = 2
    MaxPumps = 2
    Lag = 1
    Hour = 8
    TornFlush = FALSE
    Refusals = FALSE
INVARIANTS
    LossesInGaps
