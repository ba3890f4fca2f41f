SPECIFICATION FairSpec
CONSTANTS
    Account = {alice}
    Work = {sync}
    Headless = {sync}
    UserGoals = {"logout", "password", "delete"}
    MaxPairs = 2
    MaxEdits = 1
    MaxEnds = 1
    MaxFaults = 1
    alice = alice
    sync = sync
    Nil = Nil
CHECK_DEADLOCK FALSE
PROPERTIES WipeIsCarriedOut UiComesBack
