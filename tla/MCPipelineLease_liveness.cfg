SPECIFICATION FairSpec
CONSTANTS
    deep = deep
    diagnosis = diagnosis
    convert = convert
    Tasks = {deep, diagnosis}
    AiTasks = {deep, diagnosis}
    DeepReviewTasks = {deep}
    KeyOf <- MCOwnKeys
    Capacities = {1, 2}
    FailureKinds = {"ordinary"}
    LeaseTicks = 1
    StaleTicks = 0
    Renewals = 1
    RetryBudget = 2
    AttemptLimit = 2
    MinBackoff = 1
    MaxBackoff = 1
    MaxGeneration = 1
PROPERTIES
    
    PauseQuiesces
    OverCapacityOnlyDrains
