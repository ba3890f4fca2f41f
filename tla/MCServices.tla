----------------------------- MODULE MCServices ------------------------------
(***************************************************************************)
(* Components of the system that share no state here, one instance after   *)
(* the other: component names the machine that runs, the others stay in    *)
(* their initial states.                                                   *)
(***************************************************************************)
EXTENDS Naturals, FiniteSets, Sequences, TLC

CONSTANTS Nil, c1, c2, t1, h1, h2, f1, f2, r1, OwnCategory, SystemName,
          AccountState, PhoneTime, MaxPhoneEdits, MaxWebEdits, MaxLost,
          CatWorker, CatRequest, Spending, MaxCatRequests, Importer, File,
          Date, What, CategoryOf, MaxImports, MaxImpEdits, Fp, Scanner,
          Reviewer, MaxScans, MaxFndWrites, MaxReviews, MaxRequests,
          MaxSwitches, MaxDeaths, Txn, Purchase, Label, Fitting, Global,
          Recent, MaxSaves, Money, Opening, Patch, PerDay, Window, MaxClock,
          Transaction, NameOrder, Month, Limit, Threshold, CategoryLimit,
          PageSize, MaxTransactions, MaxTxWrites

VARIABLES component, catRows, catUse, catTask, catServed, account, history,
          feed, outcomes, phone, outbox, dispute, push, reader, made, accCount,
          txs, batches, closed, gone, task, replies, impCount, evidence,
          findings, lock, scan, review, latest, reviewed, collided, fndCount,
          figRows, budgets, browse, reading, figCount, accounts, snapshots,
          clock, worth, feedback, archived, suggClock, chosen, flight,
          requested, canRun, waiting, settled, covers, served, refused,
          runCount, key, legacy, main, marker, at, had, deaths

\* Requests for two categories of one name and type, and of another type.
WebOn(c) ==
    {[op |-> "create", cat |-> c, name |-> n, type |-> "expense"] : n \in {"a", "food"}}
      \cup {[op |-> "archive", cat |-> c], [op |-> "restore", cat |-> c]}

CatRequests ==
    WebOn(c1)
      \cup {[op |-> "rename", cat |-> c1, name |-> "b"], [op |-> "rename", cat |-> c2, name |-> "a"],
            [op |-> "create", cat |-> c2, name |-> "b", type |-> "expense"],
            [op |-> "reassign", cat |-> c1, to |-> c2],
            [op |-> "use", cat |-> c1, tx |-> t1, type |-> "expense"],
            [op |-> "use", cat |-> c2, tx |-> t1, type |-> "expense"],
            [op |-> "push", cat |-> c1, name |-> "b", type |-> "expense", archived |-> FALSE, base |-> 0],
            [op |-> "push", cat |-> c2, name |-> "b", type |-> "expense", archived |-> TRUE, base |-> 1],
            [op |-> "push", cat |-> c2, name |-> "b", type |-> "income", archived |-> FALSE, base |-> 1],
            [op |-> "push", cat |-> c1, name |-> "food", type |-> "expense", archived |-> FALSE, base |-> 2],
            [op |-> "pushDelete", cat |-> c1, base |-> 1], [op |-> "pushDelete", cat |-> c2, base |-> 1]}

Cat == INSTANCE Categories WITH
    Category <- OwnCategory

\* A counted and an uncounted state of an account, and a renamed one.
AccState(bal, counted, name) == [bal |-> bal, counted |-> counted, name |-> name]

AccStates == {AccState(1, TRUE, 1), AccState(2, FALSE, 1), AccState(1, TRUE, 2)}

Acc == INSTANCE FinancialAccounts WITH
    State <- AccountState, Times <- PhoneTime, MaxEdits <- MaxPhoneEdits

\* A file, a longer one with a repeated row, and one with a row that is not valid.
Row(day, what, cat) == [ok |-> TRUE, day |-> day, what |-> what, type |-> "expense", cat |-> cat]

Files ==
    {<<Row(1, "a", "food")>>,
     <<Row(1, "a", Nil), Row(1, "a", "food")>>,
     <<Row(2, "b", "food"), [Row(1, "a", Nil) EXCEPT !.ok = FALSE]>>}

Names == [expense |-> <<"other", "food">>]

Imp == INSTANCE CsvImport WITH
    Day <- Date, MaxEdits <- MaxImpEdits

Fnd == INSTANCE Findings WITH
    MaxWrites <- MaxFndWrites

\* Transactions around the turn of a year; t1 names expenses and income.
Tx(name, type, amt, y, n, d) ==
    [cat |-> [name |-> name, type |-> type], amt |-> amt, on |-> [y |-> y, n |-> n, d |-> d]]

TxRows ==
    {Tx(c1, "expense", 3000, 2024, 12, 31), Tx(c1, "expense", 3000, 2025, 1, 1),
     Tx(c1, "expense", 1, 2024, 11, 30), Tx(t1, "expense", 3000, 2024, 12, 1),
     Tx(t1, "expense", 1, 2024, 12, 31), Tx(t1, "expense", 1, 2025, 1, 1),
     Tx(t1, "income", 3000, 2025, 1, 1)}

CategoryNames == <<c1, t1>>

January == {[y |-> 2025, n |-> 1]}

Fig == INSTANCE Figures WITH
    rows <- figRows, MaxRows <- MaxTransactions, MaxWrites <- MaxTxWrites

\* Accounts of a broker and of cash, and what an update may carry.
Opened(type, bal) ==
    [type |-> type, purpose |-> "daily", bal |-> bal, inc |-> TRUE, arch |-> FALSE]

Openings == {Opened("broker", 5), Opened("cash", 2)}

Patches ==
    {[bal |-> 3], [inc |-> FALSE], [arch |-> FALSE], [type |-> "broker"],
     [purpose |-> "daily"], [bal |-> 5, inc |-> TRUE]}

Net == INSTANCE NetWorth WITH
    Account <- Money

\* Purchases of an expense and of an income.
LabelsFitting == [p \in {h1, h2} |-> IF p = h1 THEN {c1, c2} ELSE {r1}]

RankedFirst == [p \in {h1, h2} |-> IF p = h1 THEN c1 ELSE r1]

Sug == INSTANCE Suggestions WITH
    Category <- Label, MaxWrites <- MaxSaves

Run == INSTANCE SyncRuns

Mig == INSTANCE LegacyMigration

\* Nil is none of the values it stands beside; a purchase has categories of its type.
ASSUME ServicesAssumption ==
    /\ CatRequest \subseteq Cat!Request /\ MaxCatRequests \in Nat
    /\ File \subseteq Seq(Imp!Row) \ {<<>>}
    /\ \A type \in DOMAIN CategoryOf : CategoryOf[type] \in Seq(STRING) \ {<<>>}
    /\ Date \subseteq Nat /\ MaxImports \in Nat /\ MaxImpEdits \in Nat
    /\ Nil \notin Nat \cup (Date \X What) \cup Imp!Task
    /\ Nil \notin Cat!Row \cup Cat!Use \cup Cat!Task
    /\ Nil \notin AccountState \cup Acc!Row \cup Acc!PhoneRow \cup Acc!OutboxRow
    /\ Nil \notin Acc!Dispute \cup Acc!Push \cup Acc!Result
    /\ Nil \notin Scanner
    /\ Nil \notin Fnd!Finding \cup Fnd!Scan \cup Fnd!Review
    /\ Fitting \in [Purchase -> SUBSET Label] /\ Global \in [Purchase -> Label]
    /\ Recent \in Nat \ {0}
    /\ Nil \notin Label \cup Sug!Decision \cup Sug!Choice
    /\ IsFiniteSet(Money) /\ Opening \subseteq Net!Row
    /\ \A patch \in Patch : Net!Fits(patch)
    /\ {PerDay, Window} \subseteq Nat \ {0} /\ MaxClock \in Nat
    /\ Nil \notin Net!Row \cup Net!Snapshot
    /\ Transaction \subseteq Fig!Row /\ IsFiniteSet(Fig!Category) /\ Nil \notin Fig!Category
    /\ NameOrder \in Seq(Fig!Name) /\ Fig!IsInjective(NameOrder)
    /\ Month \subseteq Fig!Period /\ Limit \subseteq Nat \ {0} /\ Threshold \in Nat
    /\ {CategoryLimit, MaxTransactions, MaxTxWrites} \subseteq Nat /\ PageSize \in Nat \ {0}

categoriesVars == <<catRows, catUse, catTask, catServed>>

accountsVars == <<account, history, feed, outcomes, phone, outbox, dispute,
                 push, reader, made, accCount>>

importsVars == <<txs, batches, closed, gone, task, replies, impCount>>

findingsVars == <<evidence, findings, lock, scan, review, latest, reviewed,
                 collided, fndCount>>

figuresVars == <<figRows, budgets, browse, reading, figCount>>

worthVars == <<accounts, snapshots, clock, worth>>

suggestionsVars == <<feedback, archived, suggClock, chosen>>

runsVars == <<flight, requested, canRun, waiting, settled, covers, served,
             refused, runCount>>

migrationVars == <<key, legacy, main, marker, at, had, deaths>>

Init ==
    /\ component \in {"categories", "accounts", "imports", "findings",
                       "figures", "worth", "suggestions", "runs", "migration"}
    /\ Cat!Init
    /\ Acc!Init
    /\ Imp!Init
    /\ Fnd!Init
    /\ Fig!Init
    /\ Net!Init
    /\ Sug!Init
    /\ Run!Init
    /\ Mig!Init

Next ==
    \/ /\ component = "categories" /\ Cat!Next
       /\ UNCHANGED <<component, accountsVars, importsVars, findingsVars,
                       figuresVars, worthVars, suggestionsVars, runsVars,
                       migrationVars>>
    \/ /\ component = "accounts" /\ Acc!Next
       /\ UNCHANGED <<component, categoriesVars, importsVars, findingsVars,
                       figuresVars, worthVars, suggestionsVars, runsVars,
                       migrationVars>>
    \/ /\ component = "imports" /\ Imp!Next
       /\ UNCHANGED <<component, categoriesVars, accountsVars, findingsVars,
                       figuresVars, worthVars, suggestionsVars, runsVars,
                       migrationVars>>
    \/ /\ component = "findings" /\ Fnd!Next
       /\ UNCHANGED <<component, categoriesVars, accountsVars, importsVars,
                       figuresVars, worthVars, suggestionsVars, runsVars,
                       migrationVars>>
    \/ /\ component = "figures" /\ Fig!Next
       /\ UNCHANGED <<component, categoriesVars, accountsVars, importsVars,
                       findingsVars, worthVars, suggestionsVars, runsVars,
                       migrationVars>>
    \/ /\ component = "worth" /\ Net!Next
       /\ UNCHANGED <<component, categoriesVars, accountsVars, importsVars,
                       findingsVars, figuresVars, suggestionsVars, runsVars,
                       migrationVars>>
    \/ /\ component = "suggestions" /\ Sug!Next
       /\ UNCHANGED <<component, categoriesVars, accountsVars, importsVars,
                       findingsVars, figuresVars, worthVars, runsVars,
                       migrationVars>>
    \/ /\ component = "runs" /\ Run!Next
       /\ UNCHANGED <<component, categoriesVars, accountsVars, importsVars,
                       findingsVars, figuresVars, worthVars, suggestionsVars,
                       migrationVars>>
    \/ /\ component = "migration" /\ Mig!Next
       /\ UNCHANGED <<component, categoriesVars, accountsVars, importsVars,
                       findingsVars, figuresVars, worthVars, suggestionsVars,
                       runsVars>>

vars == <<component, categoriesVars, accountsVars, importsVars, findingsVars,
          figuresVars, worthVars, suggestionsVars, runsVars, migrationVars>>

Spec == Init /\ [][Next]_vars

\* What concurrent requests and pushes may do to categories.
CategoriesSafe == Cat!CategoriesSafe

\* What losses, retries and conflicts may do to a balance history.
AccountsSafe == component = "accounts" => Acc!AccountsSafe

\* What overlapping imports and edits may do to the transactions.
ImportsSafe == Imp!ImportsSafe

\* What overlapping scans and reviews may do to the findings.
FindingsSafe == Fnd!FindingsSafe

\* The figures of every screen agree on the rows.
FiguresAgree == component = "figures" => Fig!FiguresAgree

\* The net worth and its history agree with the accounts.
NetWorthSafe == component = "worth" => Net!NetWorthSafe

\* The suggestions repeat what the user chose.
SuggestionsSafe == Sug!SuggestionsSafe

\* Every request to synchronize is answered, and truly.
SyncRunsSafe == component = "runs" => Run!SyncRunsSafe

\* No death of the process loses the data.
MigrationSafe == component = "migration" => Mig!MigrationSafe
=============================================================================
