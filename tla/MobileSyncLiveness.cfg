SPECIFICATION FairSpec
CONSTANTS
    Entity = {1}
    Value = {a, b}
    Revocable = {b}
    UserOps = {"create", "edit", "delete", "useServer", "retryMine"}
    MaxAttempts = 2
    BatchSize = 2
    PageSize = 2
    MaxTaps = 2
    MaxWeb = 1
    MaxFaults = 2
    CursorMayBeRefused = TRUE
    Nil = Nil
    a = a
    b = b
INVARIANTS ReplicaConsistent
PROPERTIES EveryMutationSettles ServerIsStore
