SPECIFICATION MCSpec
CONSTANTS
    m1 = m1
    m2 = m2
    Nil = Nil
    Behavior = Nil
    Autoscalers = {a}
    Metrics = {m1, m2}
    Limits <- TwoToFive
    Loads = {1, 5}
    UserReplicas = {3, 6}
    FlagWindow = 1
    DefaultDownWindow = 1
    DefaultPeriod = 1
    History = FALSE
    MaxChanges = 1
    MaxFaults = 1
    MaxRestarts = 0
INVARIANT ChangesPaced
PROPERTY NoShrinkBlind
