SPECIFICATION Spec
SYMMETRY MCSymmetry
CONSTANTS
    Account = {alice, bob}
    Work = {sync, other}
    Headless = {sync}
    UserGoals = {"logout", "password"}
    MaxPairs = 3
    MaxEdits = 1
    MaxEnds = 0
    MaxFaults = 1
    alice = alice
    bob = bob
    sync = sync
    other = other
    Nil = Nil
CHECK_DEADLOCK FALSE
INVARIANTS DeviceConsistent SignedOutIsClean
PROPERTIES ReplayHasCause EditsSurvive
