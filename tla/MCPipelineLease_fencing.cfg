SPECIFICATION Spec
CONSTANTS
    deep = deep
    diagnosis = diagnosis
    convert = convert
    Tasks = {deep, convert}
    AiTasks = {deep}
    DeepReviewTasks = {deep}
    KeyOf <- MCKeyOf
    Capacities = {1, 2}
    FailureKinds = {"terminal", "ordinary", "scoped_platform"}
    LeaseTicks = 2
    StaleTicks = 1
    Renewals = 1
    RetryBudget = 2
    AttemptLimit = 3
    MinBackoff = 1
    MaxBackoff = 1
    MaxGeneration = 2
INVARIANTS
    AcceptedClaimIsLast
    OneLiveTaskPerKey
PROPERTIES
    ImplementsFencedTasks
