SPECIFICATION Spec
CONSTANTS
    Nil = Nil
    c1 = c1
    c2 = c2
    t1 = t1
    h1 = h1
    h2 = h2
    f1 = f1
    f2 = f2
    r1 = r1
    OwnCategory = {c1, c2}
    SystemName = {"food"}
    AccountState <- AccStates
    PhoneTime = {1, 2}
    MaxPhoneEdits = 3
    MaxWebEdits = 1
    MaxLost = 1
    CatWorker = {h1, h2}
    CatRequest <- CatRequests
    Spending = {t1}
    MaxCatRequests = 5
    Importer = {h1, h2}
    File <- Files
    Date = {1, 2}
    What = {"a", "b"}
    CategoryOf <- Names
    MaxImports = 2
    MaxImpEdits = 2
    Fp = {f1, f2}
    Scanner = {h1, h2}
    Reviewer = {r1}
    MaxScans = 3
    MaxFndWrites = 3
    MaxReviews = 2
    MaxRequests = 4
    MaxSwitches = 4
    MaxDeaths = 5
    Txn = {f1, f2, t1}
    Purchase = {h1, h2}
    Label = {c1, c2, r1}
    Fitting <- LabelsFitting
    Global <- RankedFirst
    Recent = 2
    MaxSaves = 6
    Money = {f1, f2}
    Opening <- Openings
    Patch <- Patches
    PerDay = 3
    Window = 1
    MaxClock = 7
    Transaction <- TxRows
    NameOrder <- CategoryNames
    Month <- January
    Limit = {2999}
    Threshold = 1500
    CategoryLimit = 1
    PageSize = 1
    MaxTransactions = 3
    MaxTxWrites = 3
CHECK_DEADLOCK FALSE
INVARIANTS AccountsSafe FiguresAgree NetWorthSafe SyncRunsSafe MigrationSafe
PROPERTIES CategoriesSafe ImportsSafe FindingsSafe SuggestionsSafe
