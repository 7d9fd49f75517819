SPECIFICATION MCSpec
CONSTANTS
    MaxReplicas = 3
    Spaces = {1, 2}
    AutoBalance = TRUE
    Admission = "settled"
    CacheLag = FALSE
    PodFaults = FALSE
    MaxPatches = 2
    MaxFaults = 2
    MaxJobs = 8
INVARIANTS SettledRegistered SettledSound
PROPERTIES DropSafe ShrinkSafe ReclaimSafe
