SPECIFICATION Spec
CONSTANTS
    N = 1
    Spaces = {1}
    CacheLag = FALSE
    MaxFaults = 2
PROPERTIES FailoverCompletes
