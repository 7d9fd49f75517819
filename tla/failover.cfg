SPECIFICATION MCSpec
CONSTANTS
    N = 2
    Spaces = {1}
    CacheLag = FALSE
    MaxFaults = 2
INVARIANT TypeOK
PROPERTIES SteadyKeepsClaim OneClaimPerOutage OneFaultCompletes
