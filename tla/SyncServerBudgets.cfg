SPECIFICATION FairSpec
CONSTANTS
    Worker = {w1, w2}
    Web = {web1}
    alice = alice
    bob = bob
    User = {alice, bob}
    kA = kA
    kB = kB
    kX = kX
    Key = {kA, kB, kX}
    t1 = t1
    b1 = b1
    b2 = b2
    Transaction = {}
    Budget = {b1, b2}
    Value = {"march100", "march200", "april100"}
    Revocable = {"march200"}
    Manual = "manual"
    Request <- MCBudgetRequest
    OwnerOf <- MCOwnerOf
    FixedOf <- MCFixedOf
    MaxStarted = 3
    Nil = Nil
INVARIANTS ReplyIsRecorded OneBudgetPerScope
PROPERTIES EveryRequestAnswered
