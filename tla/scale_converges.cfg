SPECIFICATION MCSpec
CONSTANTS
    MaxReplicas = 2
    Spaces = {1}
    AutoBalance = TRUE
    Admission = "webhook"
    CacheLag = TRUE
    PodFaults = TRUE
    MaxPatches = 2
    MaxFaults = 1
    MaxJobs = 3
INVARIANT JobRecorded
PROPERTIES ShrinkAfterDrop ScaleEnds
