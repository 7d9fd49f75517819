SPECIFICATION Spec
CONSTANTS
    Nil = Nil
    Behavior <- Rules
    Autoscalers = {a}
    Metrics = {m1}
    Limits <- OneToThree
    Loads = {1, 3}
    UserReplicas = {1}
    FlagWindow = 1
    DefaultDownWindow = 1
    DefaultPeriod = 1
    History = FALSE
    MaxChanges = 1
    MaxFaults = 0
    MaxRestarts = 1
PROPERTY Settles
