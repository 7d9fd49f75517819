SPECIFICATION MCSpec
CONSTANTS
    N = 3
    G = 2
    Sizes = {1, 2}
    Minority = TRUE
    Blips = FALSE
    MaxFaults = 1
    MaxChanges = 1
INVARIANT MetadataKept
PROPERTIES OneClaimPerOutage MetadGraphdRecover
