SPECIFICATION MCSpec
CONSTANTS
    Component = "storaged"
    Zones = {az1, az2, az3}
    Sizes = {1, 3}
    Patient = TRUE
    MaxEdits = 2
    MaxEvictions = 0
    MaxRebuilds = 0
    MaxFull = 1
    MaxFaults = 1
SYMMETRY ZonePermutations
INVARIANT ZonesHold
CHECK_DEADLOCK FALSE
