SPECIFICATION Spec
CONSTANTS
    Entity = {1, 2}
    Account = {u1, u2}
    ScopeOf <- MCScopeOf
    Shared = shared
    Writer = {w1, w2}
    PageSize = 1
    MaxWrites = 3
    Nil = Nil
    u1 = u1
    u2 = u2
    w1 = w1
    w2 = w2
    shared = shared
CHECK_DEADLOCK FALSE
INVARIANTS NoGapBehindCursor
