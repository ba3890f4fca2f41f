SPECIFICATION Spec
CONSTANTS
    Entity = {1, 2}
    Value = {a, b}
    Revocable = {b}
    UserOps = {"create", "edit", "delete", "retryMine"}
    MaxAttempts = 2
    BatchSize = 2
    PageSize = 1
    MaxTaps = 3
    MaxWeb = 1
    MaxFaults = 1
    CursorMayBeRefused = TRUE
    Nil = Nil
    a = a
    b = b
INVARIANTS ReplicaFollowsJournal ReplicaConsistent
PROPERTIES SyncKeepsIntent
