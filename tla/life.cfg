SPECIFICATION MCSpec
CONSTANTS
    MaxFaults = 2
    MaxChanges = 2
    Edits = {"suspend", "reclaim", "version", "delete"}
    Reclaims = {FALSE, TRUE}
    Restored = FALSE
    Evictions = FALSE
INVARIANT RestsWhenDone
PROPERTIES TakesInOrder LifeSettles
CHECK_DEADLOCK FALSE
