SPECIFICATION MCSpec
CONSTANTS
    Size = 2
    Sizes = {1, 2}
    MaxVersion = 2
    Prompt = TRUE
    MaxEdits = 2
    MaxScales = 0
    MaxDown = 0
    MaxFaults = 0
INVARIANT RolloutInOrder
PROPERTIES RolloutEnds FlagsRollOnce FlagsSettle ZonesEnd
CHECK_DEADLOCK FALSE
