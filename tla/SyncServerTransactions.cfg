SPECIFICATION Spec
SYMMETRY MCSymmetry
CONSTANTS
    Worker = {w1, w2}
    Web = {web1}
    alice = alice
    bob = bob
    User = {alice, bob}
    kA = kA
    kB = kB
    kX = kX
    Key = {kA, kB, kX}
    t1 = t1
    b1 = b1
    b2 = b2
    Transaction = {t1}
    Budget = {}
    Value = {"food", "rent", "card"}
    Revocable = {"rent"}
    Manual = "manual"
    Request <- MCTransactionRequest
    OwnerOf <- MCOwnerOf
    FixedOf <- MCFixedOf
    MaxStarted = 4
    Nil = Nil
INVARIANTS TypeOK JournalDescribesRows AppliedExactlyOnce LocksProtectWrites
PROPERTIES ImplementsStore
