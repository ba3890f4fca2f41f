# Verification of Smart Expense AI

Smart Expense AI keeps one person's transactions, budgets, categories and
accounts in PostgreSQL behind a FastAPI backend, shows them in a React web
client, and replicates them to an Android client that goes on working offline.
On the server, services import bank statements, find anomalies and recurring
payments, forecast and report. Three kinds of things are hard to get right
here: the places where requests, devices and process deaths meet (the
synchronization protocol, its journal, the life of a session, imports, scans,
histories that are rewritten); figures that several services compute apart
from each other; and algorithms over dates and amounts whose results a unit
test samples at a few points. This directory models them in TLA+, checks them
with TLC and proves with TLAPS, for every size of the system, the safety of the
server, of its journal, of the device's replica and session, and of the
services.

Contents: [inventory](#inventory) · [modules](#modules) ·
[how the modules correspond to the code](#how-the-modules-correspond-to-the-code) ·
[runs](#runs) · [bounds](#bounds) · [fairness](#fairness) ·
[what is proved](#what-is-proved) · [findings](#findings) ·
[known weaknesses](#known-weaknesses) · [not modelled](#not-modelled) ·
[plan](#plan) · [how to run](#how-to-run)

Paths below are relative to the repository; `services/` is
`backend/app/services/`, `mobile/` is `mobile/src/`.

## Inventory

### Parts that synchronize

| Part | State it keeps | Operations | Meets | Hard behaviour |
|---|---|---|---|---|
| **sync-v1 push** (`services/sync_service.py`, `models/sync.py`) | `transactions`, `budgets`, ... with `version`; `sync_mutations` (one outcome per user, device, mutation id); advisory and row locks | `push_sync`: per mutation look up the stored outcome, apply or refuse, store the outcome | devices (retries), web writers (same rows, no base version) | retries that overlap, unique-index failures that roll back the lock, the web writing a row that is locked or unlocked in between |
| **journal, pull, bootstrap** (`0011_mobile_sync_v1.py`, `pull_sync`, `bootstrap_sync`) | `sync_changes` numbered by an identity column, signed cursors and page tokens | trigger at every write, `pull` after a cursor, `bootstrap` page by page | every transaction that writes, every device that reads | numbers are drawn at the write and visible at the commit; bootstrap pages are separate reads |
| **Android synchronization engine** (`mobile/sync/`) | `sync_outbox`, `sync_conflicts`, `sync_state` (cursor) and the replicated tables in SQLite | reset, claim, push with retry, persist, bootstrap, pull, resolve | user edits in the middle of a run, crashes, lost answers, late requests | every `await` on the network lies between two SQLite transactions |
| **offline edits** (`mobile/features/*/offline*Mutations.ts`) | the same tables | create, update, delete with outbox bookkeeping | a run that is sending the row | coalescing with a queued mutation, cancelling a create that may have been applied |
| **web writers** (`transaction_service.py`, `budget_service.py`, ...) | the same rows | create, update, delete | push workers | read without a lock, write later |
| **session life cycle** (`mobile/auth/`, `mobile/api/client.ts`, `mobile/background/`) | SecureStore: two tokens, the user, the wipe marker; `local_account_id` in SQLite; `acceptingWork` | restore, login, register, logout, password change, deletion, rotation in a shared flight | tasks of the account, headless runs, the server's token rotation | process deaths between single SecureStore calls, 401s in parallel, drains |
| **refresh tokens** (`services/mobile_auth_service.py`) | sessions and hashed one-time refresh tokens | issue, rotate, replay detection, revoke | devices | a rotation whose answer is lost |

What makes them correct:

- *push*: a mutation is applied at most once and exactly when its outcome says
  so; it never overwrites a version other than its base; retries get the same
  answer; the journal replays to the table; one budget per scope; nobody waits
  for ever.
- *journal*: in the order of their numbers the changes of a row are its history;
  nothing visible stays behind a cursor; every cursor gets past every change.
- *engine*: replica, outbox and conflicts agree after every step; a row shown
  as synced is one the server published; synchronization never destroys what
  the user has typed; every queued mutation is settled; at rest the replica is
  the server's table.
- *session*: the device holds nothing of an account after it has left; tokens,
  rows and edits are never mixed between accounts; a required wipe happens; a
  token is presented twice only when a rotation was lost; outages never cost
  an edit; the interface always comes back.

### Services

| Part | State and operations | Hard behaviour | What makes it correct |
|---|---|---|---|
| **categories** (`category_service.py`, category pushes) | rows with name, type, archived, version; create, rename, archive, restore, reassign, push | the web checks without a lock and writes later; pushes lock the row; writers of transactions name a category meanwhile | one name per type; no transaction in a deleted category; a push replaces only the version it declares and spares what is used |
| **financial accounts** (`financial_account_service.py`, `financial_account_sync_history_service.py`, the phone's account edits) | the account, its history of observations, the phone's outbox | one push is two transactions; the history is rewritten in place; edits coalesce | every observation of the phone reaches the history; refusals have a cause; the curve of the net worth is what was held |
| **CSV import** (`csv_import_service.py`) | transactions with a fingerprint, batches | a file committed twice or next to another; imported rows edited, deleted, entered by hand; categories deleted by a push before the insert | a row is imported once and into a category that exists; a batch accounts for its file; new rows are unknown; a conflict has a cause |
| **findings** (`intelligence_service.py`) | findings with a status, an advisory lock | scans overlap with writes and reviews | scans do not collide; the newest evidence stands; dismissals stand |
| **category suggestions** (`category_suggestion_service.py`) | the feedback of each transaction | corrections, deletions, categories archived or deleted | the user's latest choice is offered; no self-confirmation |
| **figures** (`report_service.py`, `financial_comparison_service.py`, `budget_service.py`, `advanced_insights_service.py`, lists) | none: each figure is queries of its own | transactions change between the queries of one answer and between the pages | figures computed apart agree; an answer is true to what its queries read; lists skip nothing |
| **sync run scheduling** (`mobile/sync/SyncCoordinator.ts`, `OnlineSyncProvider.tsx`) | one run in flight, one remembered request | requests during a run, failures, switching off | a resolved request was served; nobody waits in vain |
| **device database** (`databaseEncryption.ts`) | the key, two files, a marker | process deaths at every step | data survives; the application opens on a complete copy only |

### Analyses

| Part | Input and result | What makes it correct |
|---|---|---|
| **anomaly rules** (`intelligence_rules_v2.py`, `amount_anomaly_baseline.py`) | charges of a merchant; findings | look back only; pair duplicates maximally; exact windows |
| **recurring streams** (`recurring_streams*.py`, `recurring_lifecycle.py`, `recurring_price_continuity.py`, `temporal_stream_clustering.py`, `upcoming_payments.py`, `recurrence_label_activity.py`) | dated amounts; streams with cadence, next date, missed charges | what plans paid is not missed, what they left out is; one plan is one stream, two are two; a price change or a silence neither splits nor doubles |
| **evaluation** (`historical_evaluation*.py`, `historical_matching.py`, `private_evaluation.py`, `private_evidence.py`) | labelled data in calibration, validation and holdout; reports | the assignment is optimal; the holdout is sealed; folds look back; a final report has its evidence |
| **forecast** (`spending_forecast.py`) | transactions as of a day; the month's total, a backtest | bills count once; the past does not depend on the future |

Not modelled: offline budgets and payment detection on the phone, the
assistant, entitlements, the HTTP shell, screens, the web client, notifications
and app lock, benchmarks, ML research, deployment; the reasons are
[below](#not-modelled).

`PROJECT.json` lists every part with its sources and its status, and under
"hazards" each place where this code can go wrong in a way a test would hardly
reach, with the property that would notice.

## Modules

| Module | What it is |
|---|---|
| `VersionedStore` | abstract specification: versioned rows, one outcome per mutation key, `Apply` / `Refuse` / `External` in one step each |
| `SyncServer` | `push_sync` and the web writers as threads with locks and uncommitted writes; implements `VersionedStore` |
| `SyncServerProofs` | types, locks, refinement of `VersionedStore`, what the server records (answers, journal, scopes): theorems |
| `SyncJournal` | the journal under overlapping transactions, and its readers |
| `SyncJournalProofs` | its theorems |
| `MobileSync` | the device's replica, outbox and sync run against an atomic server; the server in it implements `VersionedStore` too |
| `MobileSyncProofs` | consistency of the replica, kept intent, refinement of `VersionedStore`; on top of these, that the replica keeps up with the journal: theorems |
| `MobileSession` | the session life cycle of the device with the server's tokens |
| `MobileSessionProofs` | what each of its processes holds at each step; one account, clean login screen, replays and lost edits: theorems |
| `Categories` | the web's category requests, the pushes and the writers of transactions, with row locks and unique indexes |
| `FinancialAccounts` | one account between a phone, the web and a second device, with its history and the two transactions of a push |
| `NetWorth` | accounts on the web, the snapshots their changes leave, and the curve computed from them |
| `CsvImport`, `CsvParsing` | import requests against each other and against edits; what is read in a file's headers and amounts |
| `Findings`, `AnomalyRules` | scans and reviews; the rules themselves |
| `Suggestions` | the suggestion for a purchase and the feedback of a write |
| `Figures` | the figures of a month, the paged list, the insights, read while rows are written |
| `SyncRuns` | when the phone synchronizes |
| `LegacyMigration` | the start of the phone's database |
| `Samples`, `Calendar`, `Schedules`, `StreamClusters` | the library of the analyses: medians, dates, schedules read from dates, clusters of amounts (no variables) |
| `RecurringStreams`, `Continuity`, `TemporalLanes` | streams of a merchant: by amount and descriptor; across silences and price changes; by dates when the amount is one |
| `Matching`, `Evaluation` | the assignment of labels to predictions; the evaluation on a private data set |
| `Forecast` | the forecast of a month and its backtest |
| `MCServices`, `MCAnalysis` | instances of the services and of the analyses, each component on its own within one run |
| `ServicesProofs` | theorems about six of the services, as the components of `MCServices` |
| `FinancialAccountsProofs` | the balance history through lost answers, retries and conflicts, and the curve of the net worth: theorems about `FinancialAccounts` and `NetWorth` as components of `MCServices` |
| `FiguresProofs` | the figures of the screens agree: theorem about `Figures` as a component of `MCServices` |
| `NaturalSets` | lemmas: least and greatest elements of sets of numbers, induction over the subsets of a finite set, sums over finite sets and by groups, ranks in a strict order |
| other `MC*` | small instances for TLC |

How they compose. `VersionedStore` is the joint: `SyncServer` shows that the
concurrent server is the atomic store, and `MobileSync` talks to a server that
is checked to be the same store (`ServerIsStore`), so what holds for the device
against the atomic server holds against the concurrent one as far as the store
goes. `SyncJournal` looks separately at the one thing the store hides: when a
change becomes visible to readers. `MobileSync` reads a journal in commit order,
so its results hold where the order of commits is the order of numbers;
`SyncJournal` says precisely what is lost when it is not
(`OnlyLateChangesMissing`) and shows that it happens (`journal_gap`).
`MobileSession` treats a sync run as a batch claimed, pushed and persisted;
`SyncRuns` says when one starts. `Categories` and `FinancialAccounts` take the
push of their entity with its commits, and leave the stored outcomes to
`SyncServer` (an account's push and its retries excepted, which carry more than
a row). `CsvImport`, `Findings`, `Figures`, `NetWorth` and `Suggestions` are
about requests of one account at READ COMMITTED: a statement sees what is
committed when it starts. The analyses are operators over histories; the
variables of their modules are the histories, which grow by one charge a step,
so that properties can compare what is said of a history before and after it
grows. Several suites share one run, `component` naming the machine that moves:
the machines share no state, and the state space is the sum of theirs.

## How the modules correspond to the code

### SyncServer

One worker is one request thread in the body of `push_sync`'s loop. `pc` names
the place: `lock` (`pg_advisory_xact_lock`), `lookup` (`_stored_outcome`),
`select` (`SELECT ... FOR UPDATE`), `locked` or `absent` (the row was found or
not), `classify` (`_missing_entity_conflict`), `insert` (the flush of a new
row), `persist` (`_persist_outcome` and the commit), `constraint` (the
`IntegrityError` handler, after the rollback, so *without* the advisory lock),
`reread` (the nested failure) and `done`. A database statement is one step,
because PostgreSQL at READ COMMITTED gives each its own snapshot; what a
transaction has written is in `pending` and reaches `rows`, `journal` and
`outcomes` at its commit. The trigger's journal entry is written in the same
step as the row (`Publish`). Web writers select without a lock (`WebLoad`),
flush (`WebWrite`, which waits for and takes the row lock; the trigger gives
the next version of the row *as it is by then*, and an update leaves the fixed
part that row has then (`Written`); a row that is gone by then is an error) and
commit (`WebEnd`).

Abstracted: payloads are values with a *fixed part* an update may not change
(a transaction's source; a budget's month and category, which is also unique
per account); `request_hash` is equality of requests; device registration and
the batch's HTTP envelope carry no state the properties see. Categories that
may be archived are `Revocable` payloads: the check may go either way.
Category and financial-account mutations follow the same skeleton; what is
their own is in `Categories` and `FinancialAccounts`.

### SyncJournal

`Write` is the trigger: the number is drawn (`lastSeq`, which no rollback
returns), the change stays in `open[w]` until `Commit`. `BootstrapPage`
carries the `high` water of the first page through the token; `Pull` returns
the first `PageSize` *visible* changes after the cursor. `late` is a history
variable: changes that became visible after a higher number. A change keeps
the version it writes and whether it deletes, not its payload. Versions do not
name the states of a row: after a deletion a create for the same id is accepted,
and its version is 1 again. A state is therefore named by the change that wrote
it, and a device's row by the change it copied.

Two simplifications. A create's number is drawn in the step that gets past the
unique index; in PostgreSQL the `BEFORE INSERT` trigger draws it just before the
insert waits there for a session that is deleting the id, so that the create may
carry a smaller number than the deletion. And an id is created again by its own
account only.

### MobileSync

One sync process, because `syncTail` serializes foreground and background
runs. Each `runKeyedTransaction` is one step; between them the network, the
user, the web and crashes act. The outbox maps the tap that wrote a mutation to
its row: the tap is both the mutation id and the place in the outbox
(`sequence INTEGER PRIMARY KEY AUTOINCREMENT`). `call` is the request in flight:
the mutations the server has still to handle and its answers so far. The server
handles a batch mutation by mutation, least tap first (`ServeCall`), so an answer
can be lost in the middle; a request given up by its caller goes on as an
`orphan`. `Settled` says in closed form what the loop of `updateEntityStatus`
leaves of a row after all answers of a batch, in outbox order. A page is a
function from ids (bootstrap) or numbers (pull) to changes. `withTransientRetry` is `LoseCall` with
`MayRetry`; a run that fails for good requeues (`Requeue`); a crash leaves
`sending` rows that the next `StartSync` resets. User operations are the three
offline transaction mutations and the two conflict resolutions, with every
outbox rule of theirs: coalescing into a queued mutation, refusing while
`sending`, cancelling an unsynchronized create.

One simplification to know: the answer of the server to `source` or schema
errors is not modelled, and the reading of a conflict and its resolution are
one step.

### MobileSession

Processes are the interface (`ui`, the code of `AuthProvider` and
`sessionManager`), the shared `flight` (`refreshPromise`), and `Work`, the
tasks registered with `runSessionWork`: a headless sync run reads the stored
session and binds the replica itself, other tasks run while the interface is
in. A token pair is named by the order in which the server issued it; `pairs`,
`revoked`, `expired` and `gone` are the server's half. A session whose first
tokens never arrive (`Issue`) counts as `ended`: nobody can use it. SecureStore writes and
deletions are one step each (`SaveItem`, `ClearItem`, `Mark`), in the order of
the calls that one `Promise.all` makes; reading the three items is one step.
SQLite transactions are steps; `bindLocalAccount` is two of them (`Bind`,
`Rebind`), as in the code.

`Answered` covers every outcome of an authenticated call: served, served with
the answer lost, 401, nobody reached. `Denied` is the re-read of the token
after a 401 that keeps parallel calls from rotating twice.

Three causes are recorded in the history variable `lapses`, so that
properties can name them rather than forbid what the code cannot prevent:
`unsaved` (a rotated pair was never stored), `unmarked` (death between the
removal of the credentials and the marker), `overlap` (a task of the account ran
next to restore or login; `restoreMobileSession` neither drains the work nor
uses the shared flight). Failing SecureStore or SQLite calls and the refresh of
the user's profile are not modelled; registration is the login of a new
account.

### Categories

`Begin` is a request of the web (create, rename, archive, restore, archive with
reassignment, write of a transaction into a category), `Check` the reads and
checks of its handler, `WriteCategory` or `WriteUse` its flush and commit;
between them anything may happen, because the handler takes no lock.
`Move` is the bulk update of a reassignment, which locks the transactions it
moves and key-shares its target. `Push` is `SELECT ... FOR UPDATE`, decision and
flush of one mutation, `PushCommit` its commit. `Unlocked`, `KeyShared` and
`IndexSettled` say who waits for whom. A name is compared after normalization;
colours, icons and system categories (which nobody changes) are left out.

### FinancialAccounts, NetWorth

A *state* of an account is a balance, whether it counts (included and not
archived) and a name, which makes no history. The phone coalesces its edits into
one mutation with the base of the history, the dated observations and the final
state (`Queue`, `Body`). The server takes it in two transactions:
`PushCore` (`_apply_financial_account_mutation`, with the snapshot the final
state needs) and `PushReconcile` (`financial_account_sync_history_service`,
which inserts the other observations and dates the one already there). `Lose`
can fall before, between and after them. `ReaderPull` is another device.
`NetWorth` is the web's half: create, update, record, archive, and the curve
that `get_net_worth_history` replays from the snapshots; a day is `PerDay`
moments, in each of which one account may change, and `worth` is a history
variable with the net worth of every moment so far.

### CsvImport, CsvParsing

A request reads the categories, then the transactions within the dates of the
file, then answers the preview or inserts batch and rows in one commit, where
two constraints may refuse them: the unique index on the fingerprint stored at
import, and the foreign key on the category, which a push may have deleted since
it was read. The handler answers both with the same conflict. A row is its day,
the rest of its fingerprint, type and category; a file is parsed again at every
request. An edit changes the day, a category is named for good and not created
again, and the account is not deleted meanwhile.

`CsvParsing` has headers with the token each is normalized to (a file's headers
must differ as written, and two may have one token) and amounts as short
sequences of characters, because here the conversion is the subject: `Amount` is
`_parse_amount` with its detection of separators. Signs are written first and a
closing parenthesis last: the code refuses a cell with one of them elsewhere, and
none is made. Encodings, delimiters, dates and limits of size are left out.

### Findings, AnomalyRules

A scan takes the advisory lock, loads the transactions, reads the findings and
commits; `evidence` stands for what the rules find in the transactions of the
moment, so that a scan can hold old evidence. Only changed columns are written
(`Written`), so two writers mix on one row. The rules proper are operators over
growing histories in `AnomalyRules`: quartiles and medians are exact, doubled
to stay whole; the wording, the severities and the rules of version 1 are left
out.

### Suggestions

The latest dated decision among the last `Recent` of the merchant, whose
category is active, else the global model's. `Save` is a manual write with its
feedback in one transaction; `chosen` is a history variable with the choice a
user would expect to be repeated. A write that leaves the feedback as it is
leaves its date, and so `chosen`. A category that a push deletes (`Remove`) takes
its name out of the decisions (`ON DELETE SET NULL`), whose dates stay; it may be
made anew (`Restore`). The reads, the check and the commit of one write are one
step: two writes of one user that overlap are not modelled.

### Figures

`Report`, `Summary`, `MonthlyExpenses`, `SpentByName` and `SpentFor` are the
five services' own sums over one table; `Compared` is the answer made from two
summaries and two sums by name, `BudgetItems` that made from limits, all spending
and spending by category, `Cards` the insights built from three reports, the
budgets and the accounts. What an answer reads it reads query by query: `Read`
and `ReadOn` take the four queries of a comparison and the six of the insights
(three reports, and three for the budgets) in the order of the code, each from
what is committed by then; a page of a list is two (`Count` and `Fetch`). Writes
come between any two, and `quiet` says that none did. Of the queries of one
report, and of the accounts, one moment is assumed. Rounding is exact. Filters,
text search, other sort orders and the CSV of a report are left out.

### SyncRuns, LegacyMigration

`SyncRuns` is `SyncCoordinator` step by step as JavaScript runs it to the next
`await`; requests are numbered so that a run can be asked which of them it
covers. `LegacyMigration` is `migrateLegacyPlaintextDatabase` with a death after every
step and half an export; the later schema migrations are one step.

### Analyses

A date has a month counted from January 2023 and a day (`Calendar`). A charge
is a date, an amount, perhaps a descriptor. `Schedules` reads the cadence of a
sequence of dates (day of the month, month end, weeks) and says what is next and
what is missing; `StreamClusters` groups a merchant's charges by amount and
descriptor; `RecurringStreams` checks both on histories that grow.
`Continuity` is `recurring_price_continuity.py` with the episodes of
`recurring_lifecycle.py`: its charges are produced by a plan, and `due`, the
month a charge is for, is known to the properties only. `TemporalLanes` is
`temporal_stream_clustering.py` under one plan or two. In `Continuity`
descriptors are left out, and the lanes of one amount, which take more charges
than are made there; everywhere the names of merchants and the score of
a pattern.

`Matching` runs the assignment of `historical_matching.py` statement by
statement (rows placed one by one, potentials, the way back) and compares its
result with every possible matching. `Evaluation` is the private evaluation as
its splits, folds, frozen parameters and two readings of the data set, with the
labels of recurrence, anomaly, category and expected charges and the counts it
prints; `Repeated` stands for the analysis it evaluates. In a fold a label is
matched to the profile of its stream (`Matching` has the assignment), and labels
are monthly and due in the month they are posted (`Continuity` has the boundary of
months in `LabelActive`). The stamp of the parameter file is a hash without a key
and is modelled as such: a hand that writes the file may compute it. `Forecast` is `spending_forecast.py` over `Schedules`, in multiples of
the mean to stay in whole numbers.

## Runs

| Run | Instance | Shows | Distinct states |
|---|---|---|---|
| `push_retries` | 2 workers, 1 web thread, 1 transaction, keys of two devices and a second account, 4 starts | every committed step is an atomic step of `VersionedStore`; locks keep an accepted mutation true until its commit; applied exactly once; the journal replays to the table | 486,403 |
| `push_budgets` | same, 2 budgets of one scope, 3 starts | the unique index, its failure handler and the nested failure: every answer is the recorded one, one budget per scope, every request is answered | 144,343 |
| `mobile_follow` | 2 rows, pages of one, 3 operations, 1 web write, 1 fault | replica, outbox and conflicts agree; synchronization keeps the user's intent; at rest the replica is the server's table | 2,852,471 |
| `mobile_settles` | 1 row, 2 operations, *use server* too, 2 faults, fair | the same consistency with every resolution; every mutation settles; the server is `VersionedStore` | 63,862 |
| `journal` | 2 rows, one of them shared by 2 accounts, 2 writers, pages of one, 4 changes, fair | each row has one history in the order of the numbers, only late changes are missed, cursors get past everything | 160,311 |
| `session` | 2 accounts, a headless and another task, 3 token pairs, 1 edit, 1 fault | clean at the login screen, one account at a time, replay and lost edits have a cause | 3,212,133 |
| `session_ends` | 1 account, deletion, a revocation elsewhere, fair | the interface comes back, wipes are carried out | 239,536 |
| `services` | the nine components below | one property each | 1,287,565 |
| `analysis` | the eight components below | one property each | 465,967 |
| `journal_gap`, `mobile_cancelled`, `session_logout` | as above | [findings](#findings): each violates one sentence of the documentation | – |

The property of a component is the conjunction of the parts its module states
and explains one by one:

| Property | Parts | In words |
|---|---|---|
| `CategoriesSafe` | `NameHeldOnce`, `NoOrphanedUse`, `PushReplacesDeclared`, `PushSparesUsed` | no two categories of one name, no transaction in a deleted one, pushes touch what they declared and nothing in use |
| `AccountsSafe` | `HistoryComplete`, `RefusalHasCause`, `ReaderFollows` | no observation is lost to a lost answer, no mutation refused without a cause, other devices read the history |
| `ImportsSafe` | `ImportedOnce`, `BatchAccounts`, `CategoriesExist`, `ConflictHasCause`, `NewRowsAreUnknown` | overlapping imports, edits and pushes neither double nor lose a row, nor leave it without its category |
| `FindingsSafe` | `ScansNeverCollide`, `LatestEvidenceStands`, `DismissalStands` | overlapping scans keep the newest evidence and the user's word |
| `FiguresAgree` | `MonthlyFiguresAgree`, `ChangesExplainDifference`, `PagingSkipsNothing`, `CardsAreConsistent`, `QuietInsightsAgree` | six computations of a month agree; pages skip nothing; comparison and insights are true to what their queries read, and to the reports if nothing was written between |
| `NetWorthSafe` | `CurveIsWhatWasHeld`, `BrokersAreInvested` | the curve is the net worth of every day |
| `SuggestionsSafe` | `LatestChoiceOffered`, `HistoryIsOthers` | the latest choice is offered, no self-confirmation |
| `SyncRunsSafe` | `ResolvedIsServed`, `WaitingIsServed` | a resolved request was served by a run that began after it |
| `MigrationSafe` | `DataSurvives`, `ReadyIsComplete` | no death loses the data |
| `ParsingRight` | `SuggestionUsable`, `AmountReadAsWritten` | against a reference definition of a written amount |
| `RulesRight` | `UnusualIsRare`, `PairingIsMaximal`, `BurstIsExact`, `FindingsAreCausal` | against reference definitions; later charges change nothing earlier |
| `StreamsRight` | `DescriptorsKeptApart`, `SteadyPriceIsOneStream`, `MissingIsCounted`, `PaidIsNotMissed`, `PunctualIsUnambiguous`, `ProjectionKeepsDay`, `PaidMovesOn` | clusters, missed charges and projections agree with the plan that paid |
| `ContinuityRight` | `NothingCountedTwice`, `PriceChangeFollowed`, `SilenceIsNotMissed`, `LabelsFollowDue` | changes of price and silences |
| `LanesRight` | `OnePlanIsNotSplit`, `TwoPlansTwoLanes`, `LanesDoNotMix` | as many lanes as plans |
| `MatchingRight` | `MatchingIsOptimal`, `ActiveFirst`, `PotentialsPriceCosts`, `NoFalseAlarmForMissed` | against every possible matching |
| `EvaluationRight` | `HoldoutSealed`, `FoldsCoverSplit`, `ForecastsLookBack`, `HoldoutRunsFrozen`, `FinalIsSupported` | no month leaks into another's score, but through a label the holdout alone judges; a final report has its support |
| `ForecastRight` | `BillsCountOnce`, `BacktestIsComplete`, `ForecastsAreCausal` | against the sum of the bills |

Likewise `ReplicaConsistent` is `OutboxMatchesReplica`, `SyncedIsPublished` and
`SentBodyStands`, `DeviceConsistent` is `OneAccountAtATime`, `JournalOrdered` is
`RowsHaveOneHistory`, `RowsFollow` and `CopiesCommitted`, each with the module's `TypeOK`.

`push_retries`, `push_budgets` and the `mobile_*` runs check deadlock
(`SyncServer` has an explicit `Rest`). The others do not: when the bounded
writes, token pairs and faults are used up, the devices rightly have nothing left
to do, and a history that has its full length grows no more.

Every property of a passing run has a mutant in `PROJECT.json`: a plausible
bug in one definition (a dropped lock, a missing reset, a page filtered after
its limit, a baseline that looks ahead) under which TLC finds the property
violated in the very same run.

What is deliberately *not* claimed:

- `OutboxMatchesReplica`, `SyncedIsPublished` and `SyncKeepsIntent` speak of
  rows the user has not deleted on this device; a deleted row can come back
  (`mobile_cancelled`, and the page that predates the deletion).
- `ReplicaFollowsJournal` is checked and proved without *use server* (see known
  weaknesses) and allows rows whose deletion the last bootstrap had already
  counted behind its cursor: bootstrap brings rows but no tombstones.
- `SentBodyStands` says nothing once a call was lost or the process died.
- `ReplyIsRecorded` excepts the answers `mutation_id_reused` and
  `constraint_conflict`, which the code gives to a key used for another body.
- `ReaderFollows` allows a reader between the two transactions of a push the
  server's date instead of the phone's.
- `DismissalStands` excepts a dismissal that overlaps a scan, `PagingSkipsNothing`
  deletions and a write between a count and its page, `ProjectionKeepsDay` what
  follows a short month, `BillsCountOnce` the days from the 29th on.
- `ChangesExplainDifference` and `QuietInsightsAgree` compare answers with the
  reports only if nothing was written between their queries.
- `PriceChangeFollowed` is about charges posted on their day: with a charge posted
  early next to the change of price it does not hold of the code.
- `HoldoutSealed` is about data sets in which no label is dated before the holdout
  while it lists only charges of the holdout, and about measures: the number of
  the holdout's rows is printed.
- `HoldoutRunsFrozen` promises an earlier development run only for a parameter file
  that was not stamped by hand.
- `ActiveFirst` holds at the sizes checked: the utilities add up, so with many more pairs
  an active label may be worth less than what others gain without it.

## Bounds

TLC needs finite instances; every bound is a CONSTANT that begins with `Max`
or a page or batch size.

- *Two workers and one web thread* are enough for every race in `push_sync`:
  its code reads at most one rival (stored outcome, row, budget of the scope)
  between two of its own steps. `MaxStarted` = 4 lets a mutation be retried
  while another device or the web changes the row in between, and a create be
  followed by a delete and a second create. Budgets need 3 (two creates, one
  web create). The theorems remove these bounds. `push_retries` uses the
  symmetry of the two workers, `session` that of the two accounts; both check
  safety only, and neither module orders these values.
- *MobileSync*: an edit, a second edit on top of it, and a resolution or
  deletion are three taps; every pair of a fault and a user operation occurs.
  One row is enough for the rules of one entity; paging and bootstrap need two
  rows and pages of one.
- *SyncJournal*: two writers that overlap, four changes of two rows, so that
  a transaction can number its change first and commit last with a change of
  another account between, and an id is created, deleted and created again.
- *MobileSession*: three pairs are a login, a rotation and the login of the
  other account. One fault, at any of the states, is one crash or one lost
  answer.
- *Services*: two workers or scanners suffice for a race between a check and a
  write; a third rival would find the state one of the two has left. Two
  categories of one name and type and one of another; three edits on the phone
  and one on the web are an edit, one that joins it and one after the conflict;
  two imports of three files that share rows; a window of the net worth
  of one day in a little more than two; three transactions around a turn of the
  year; four requests for a run; three transactions at two merchants, an expense
  with two categories and an income with one. These bounds are
  constants of `Services.cfg`, and the theorems have none of these limits.
- *CSV amounts* have up to eight characters: the shortest with both separators,
  such as `1.234,5`, has seven, one more adds a sign or the second decimal.
- *Analyses*: every history up to the lengths in `MCAnalysis` from a few amounts
  and gaps (in `Continuity` three prices, up to two changes of price and two early
  postings, together at most three), chosen at the thresholds of the code (a price one and two steps away,
  gaps of 7 and 26 days, paydays 1, 3, 16, 29 and 31, a start in the January, April
  or November that meets every short month). The calendar's leap year rule is that
  of 1901 to 2099, its numbering of ISO weeks that of 2023 to 2026; histories
  stay in these years.

## Fairness

- `SyncServer`: weak fairness of each thread's own steps. A request thread
  runs; a lock is granted when its holder ends. Failures (`Fail`), new requests
  and new web writes are never forced. Lock waits are guards, so the result says
  that no cycle of locks leaves a request waiting.
- `MobileSync`: weak fairness of the run's steps and of the server's answer.
  Runs are requested at launch, on return to the foreground, by connectivity,
  by hand and by the background task at least hourly, and every request has
  a timeout. Losses are bounded by `MaxFaults`: a network that loses for ever
  settles nothing.
- `SyncJournal`: weak fairness of each device's reading; writers may stop with
  a transaction open.
- `MobileSession`: weak fairness of code that has started; every call ends, if
  only by `fetchWithTimeout`. Taps, new tasks, expiry, crashes and other
  clients are free.

## What is proved

For every value of the constants that satisfies the assumptions below: any
number of threads, devices, accounts, rows, keys, requests, pages and faults.
The third column is the property a run checks on a small instance.

| Module, theorem | Establishes | Property |
|---|---|---|
| `SyncServerProofs` `TypeCorrect` | types and program points of the push server | `TypeOK` |
| `LocksCorrect` | an accepted mutation stays true until its commit | `LocksProtectWrites` |
| `ServerImplementsStore` | `Spec => Store!Spec`, step by step | `ImplementsStore` |
| `RepliesRecorded` | what a request is answered is what a retry finds | `ReplyIsRecorded` |
| `ScopesHeldOnce` | no two budgets of one account, month and category | `OneBudgetPerScope` |
| `JournalRebuildsRows` | the last entry of a row is the row; its versions have no gap | `JournalDescribesRows` |
| `MutationsJournaledOnce` | a mutation is in the journal once if applied, else never | `AppliedExactlyOnce` |
| `SyncJournalProofs` `NumbersOrderHistory` | the changes of a row are one history in the order of their numbers; table and devices have its states | `JournalOrdered` |
| `OnlyLateLost` | a device lacks only changes that became visible late | `OnlyLateChangesMissing` |
| `MobileSyncProofs` `ReplicaStands` | replica, outbox and conflicts agree; synced rows are published; types | `ReplicaConsistent` |
| `IntentKept` | only the user changes or removes a row that is not synced | `SyncKeepsIntent` |
| `ServerImplements` | the device's atomic server is the store: `Spec => Store!Spec` | `ServerIsStore` |
| `ReplicaKeepsUp` | without *use server*, a device at rest at the journal's end has what the server has | `ReplicaFollowsJournal` |
| `MobileSessionProofs` `StepsStand` | types, and what each process holds at each step | – |
| `OneAccount` | tokens, replica, outbox, interface of one account | `DeviceConsistent` |
| `CleanAfterLeaving` | nothing of the last account at the login screen | `SignedOutIsClean` |
| `ReplaysExplained` | a session is revoked as replayed for a cause | `ReplayHasCause` |
| `EditsKept` | an edit is lost only with its account's sessions, or by a lapse | `EditsSurvive` |
| `ServicesProofs` `RequestsAnswered` | a resolved request was served by a later run | `SyncRunsSafe` |
| `DataKept` | one complete copy of the data through every death | `MigrationSafe` |
| `FindingsStand` | scans exclude each other; evidence and dismissals stand | `FindingsSafe` |
| `SuggestionsStand` | the latest choice is offered | `SuggestionsSafe` |
| `CategoriesStand` | one name, no orphaned use, pushes over what they declared | `CategoriesSafe` |
| `ImportsStand` | nothing twice or without a category, batches account, new rows unknown, conflicts caused | `ImportsSafe` |
| `FinancialAccountsProofs` `HistoryKept` | no observation of the phone is lost, no edit refused without a cause, the history is read as it is | `AccountsSafe` |
| `WorthStands` | the curve is what was held, on every day shown and now; brokers are invested | `NetWorthSafe` |
| `FiguresProofs` `FiguresTellOneStory` | figures computed apart agree; pages skip nothing; comparison and cards say what their queries read | `FiguresAgree` |

**Assumptions.** Only the named `ASSUME`s of the modules: `SyncServerAssumption`,
`SyncJournalAssumption`, `MobileSyncAssumption`, `MobileSessionAssumption` and
`ServicesAssumption`. They
say that sets of processes or ids are disjoint, that ids are numbers where the
code orders them (those of transactions start above 0, where a listing begins),
that a device knows finitely many transactions and a user has finitely many
accounts, that requests and files are well formed, that a type has a default
category, that a history shows at least a day (its request asks for months, at least one),
that transactions have dates that exist, amounts in cents that are not negative and finitely
many categories, whose names have an order, that budgets are positive, and that `Nil` is none of the values it
stands beside, records with given fields included. TLC
evaluates each in the run of its module.

**The arguments.** None of the properties is inductive as it stands; each is a
consequence of a stronger invariant, which TLC was given before it was proved.

- *Push server.* `IInv == TypeOK /\ LocksProtectWrites`. `TypeOK` alone is
  inductive only with the processes' program points in it; `LocksProtectWrites`
  is what the refinement needs and no restatement of it: for every worker
  between its acceptance and its commit the row is locked by it and still at the
  version the mutation named; every uncommitted write, the web's included, is
  the successor of the committed row; an absent row is locked only by the process
  about to insert it. The lemmas have one per group of actions, each split into
  a type part (`TypeKept`) and a lock part (`StepInTransaction`,
  `EndOfTransaction`). Three steps change what the store sees: `Persist` (an
  `Apply` or a `Refuse`), `PersistConstraint` (a `Refuse`) and `WebEnd` (an
  `External`); all others stutter.
- *What the server records.* `RepliesStand` adds to the answers what a worker
  knows that has lost the race and is about to read the winner's outcome.
  `ScopesApart` extends the unique index to uncommitted rows: an insert, or the web's,
  is flushed only against rivals committed *or* pending. `JournalStands` gives the
  greatest entries as witnesses and says that each continues the version of the one
  before; `WriteSteps` shows that a pending write changes in the step that flushes
  it only. For exactly-once, entries, pending writes and outcomes name the mutation
  they are of (`WritesNamed`, `EntriesNamed`, `OutcomesWritten`).
- *Journal.* `WInv` is about writers: numbers are given once (`Numbered`), an open
  change is the only session's of its row and newer than what is committed
  (`RowsLocked`), so a new change is the newest of its row, and what a session sees
  is what the changes before it leave; after a deletion only a creation follows.
  `ReadersStand` says for each device up to which number it has taken in which
  rows: through the pages of a bootstrap only ids up to the page's last, by
  pulling all of them.
- *Device.* `Intent` is the invariant of a row: at most one mutation or one stored
  conflict, and that agrees with the row in value, version and status; a synced row
  has neither and is published. `OutboxMatchesReplica` alone is not inductive: it
  forgets that evidence is at most one and holds the row's value, from which
  *retry mine* restores it. What an answer does to a row is known from `InFlight` (a
  call carries exactly the claimed mutations, as they still are in the outbox, each
  to be handled or answered) and `Backed` (what the server told it had published);
  `Paging` says the same of a page that waits, and `Evidence` of a stored conflict.
  `Naming` and `Counted` bound keys by taps and the journal by recorded mutations
  and web writes, which types the versions. `Settling` carries `SentBodyStands`
  across the steps before the first fault. Rows the user has deleted are outside:
  there an old request or page may bring back what is gone. For the refinement a
  step of the server is an `Apply`, a `Refuse`, a repetition (a stutter) or, from
  the web, an `External`.
- *Keeping up.* `JInv`, on top of the device's invariant. `Follows` says of every row
  the device has not cancelled what the property says at rest: it is still behind the
  cursor, or has intent (an outbox entry, a conflict), or is the server's. To keep this
  through the steps that remove intent, the rest says what the server and the device
  know of each other. `RowsJournaled`: the newest entry of a row is the row.
  `DraftsStand`: of what may yet reach the server, a body sent earlier included, a
  deletion is never rewritten under its key, and a row the server does not know has
  one creation key. `Recorded`, `FailuresTold` and `AnswersTold`: what an outcome and an
  answer to it allow to conclude. `Quiet`: while pages are read no mutation waits whose
  outcome the device missed, and `Unseen`: one applied without the device knowing is
  still to be pulled, or is the row. `Doomed`: a deletion is done, queued, or disputed.
  `Listing` and `Pages`: a row unchanged since the bootstrap began is on a page read, on
  the one at hand or on one to come. *Use server* is excluded because it breaks
  `Follows`: it may write a payload that the cursor has passed.
- *Session.* `Held` (types, `StepsHold`, `UiStands`) fixes which tokens go with which
  step and what the interface does for which purpose. On it stand four parts:
  `Apart`, that as long as no task ran next to a restore all tokens, tasks and rows
  are of one account, and that what is being cleared stays cleared; `WipeDue`, that without
  a stored user there is nothing on the device or a wipe is due; `TokensCurrent`, that
  the refresh token in the store is the last of the only living session of its account,
  except between the two halves of storing its successor; `GivenUpEnded`, that the replica of a
  session that is given up is of an account whose sessions were ended.
- *Services.* Each component has an invariant of its own, and only one component of
  the composition moves: `RunInv` (whoever waits is covered by the run under way or by
  the flag), `MigInv` (a marker means a complete copy; which file each step has
  touched), `FndInv` (a scan that has read holds the lock, and but for what was
  reviewed since, what it read is still there), `SugInv` (the choice that counts is the newest eligible feedback of its
  merchant), `CatInv` (`PushStands`: between its lock and its commit a push's row is
  the one it read, and what a type change or a deletion spared is still unused; `MoveStands`; `ChecksStand`),
  `ImpInv` (`IdsApart`: ids are drawn once; `FreshStands`: what a request takes for new
  differs pairwise and, until a commit or an edit overtakes it, from every import that
  still has its fields; and its categories are there, or a deletion has overtaken it). A batch is counted by a bijection from the new rows of the file to the ids
  drawn for them (`NewIds`).

- *Balance history.* `AccInv` says which of outbox, push and conflict a phone row of
  each status has (`Phases`) and that ids are drawn once (`DrawnOnce`). In `Bodies`, a
  mutation ends in the phone's state and carries observations the phone made, each once;
  and, as long as the server's row is the one the mutation is based on, the base of its
  history is that row's. From this follows that the server's refusal of a state that is
  no news cannot meet an edit that joined others. `Outcomes` and `Answers` trace a result
  back to a stored outcome: a retry is answered as its first attempt was. `HistoryStands`
  is the completeness of the property before the phone is at rest: what is neither in the
  outbox nor in a conflict is in the history with its date; what waits there is not in
  the history before the mutation was applied; between the two transactions of a push
  the one snapshot already there has the server's date. Observations may be inserted in
  the middle of a mutation's list, so `Inserting` states what an insertion does to what
  a sequence holds; the second transaction lists the missing ids by their rank
  (`Unrecorded`), which is why no id enters the feed twice.

- *Net worth.* `NetInv`: `Mirrored`, that an account counts as its latest snapshot says,
  which is what `IsHistory` is for; `InOrder`, that no two snapshots have one date; and
  `Remembered`, that at every moment so far the net worth was the total of the snapshots
  up to it. A change without a snapshot keeps it because it changes nothing that counts
  (`AccountsNow`), a new snapshot because it is later than all of them. The curve then needs no
  more of the past: for the end of a day, the last snapshot before it is the day's
  point, or lies before the window and is the baseline, or does not exist; only today
  may the replay and the summary be compared, and they agree. `Invested` says of every row
  what `Normal` does to the one that is written.

- *Figures.* A report, a summary, a series and a budget are first brought to one form,
  the sum over the transactions of a month and type (`Amount`, `Kind`), for which
  `InTheMonth` shows that the three ways of selecting a month (before the next one's
  first day, up to its last day, by year and month) select the same rows; `Previous` shows
  that months are counted back rightly over a year. What is grouped (entries of the
  breakdown, names, categories) is compared by `SumByGroups`. The breakdown, the changes
  and a list are sequences in a strict order, so an element stands at the position after its
  rank (`ListIs`): an entry is in the breakdown once, what a comparison leaves out
  is of a rank beyond its limit, and a page holds the ranks from its offset to the next
  page's. None of this depends on the past. The two parts that do have the invariant
  `FigInv`: `BrowseStands` says that, unless a row was moved under the reader, each row there at
  the beginning is shown or ranks behind the pages read, which a new row can only
  raise (`MoreRows`), and that a page taken with its count is of the rows counted;
  `ReadStands`, by one lemma for each kind of query, that each part that was read is
  well formed (`PartStands`; no entry of a report exceeds its total) and, if nothing was
  written since, is what the rows give now. From limits and sums of any moments no
  budget over its limit comes out below 100% (`ItemsStand`); of a comparison
  with a write between its queries only the order of what it shows and hides is left. Of the order of the cards only what the
  property asks is used: one card of a kind, and the only one that needs attention is first
  (`OnlyAttentionFirst`).

`Max` and `Min` are `CHOOSE`s; what is known of them comes from `NaturalSets`, whose
first lemmas follow from the well-foundedness of the naturals. So does induction over
the subsets of a finite set, without an operator as a parameter (`SubsetInduction`: what
fails for a set fails for one of least cardinality), and from it what a sum
over a set is: the fold is a recursive function, of which `SumTableIs` shows that it
exists, `SumOfOneMore` that the order of summation does not matter, and `SumOfParts` that a
sum is that of its parts. `SumByGroups` and `SumOfDifference` are proved the same way; the
ranks of a finite set in a strict order are its cardinalities (`RanksRise`, `RanksTaken`).

**Only model-checked.** Liveness and everything under fairness
(`EveryRequestAnswered`, `EveryCursorPasses`, `EveryMutationSettles`,
`WipeIsCarriedOut`, `UiComesBack`): outside the prover's reach.
The analyses recompute their results
from whole histories with recursive functions and folds; what these return for every
history is induction over data. The three runs that must fail need no proof: they show
counterexamples.

## Findings

Each is a run that must fail.

1. **`journal_gap`** – `pull_sync` and `bootstrap_sync` continue after the
   highest number they have *seen*. A transaction that drew a smaller number
   and commits later stays behind the cursor for ever, against the "no
   gaps/duplicates" of `ROADMAP.md`.
2. **`mobile_cancelled`** – `deleteOfflineTransaction` takes a row without a
   server version for one the server has never seen. If its create was applied
   and the answer lost, deleting drops the outbox entry only, and the next
   pull brings the row back.
3. **`session_logout`** – `invalidateMobileSessionAndRequireLocalWipe` deletes
   the credentials first and sets the marker afterwards; a process that dies in
   between starts at the login screen with the account's replica still there.
   The comment in `sessionManager.ts` says the opposite order.

## Known weaknesses

Seen while modelling; named in the hazards and in the conditions of the
properties, without a run of their own.

Synchronization and session:

- A mutation whose answer was lost is queued again, and `updateOfflineTransaction`
  rewrites its payload under the same mutation id although the server may have
  applied the first body; the server then refuses it as `mutation_id_reused` and
  the newer edit ends as failed (`mobile/README.md:54` promises otherwise).
- *Use server* writes the payload stored with the conflict, which later pulls
  may have overtaken; the cursor has passed the newer version by then. Resolving
  the conflict of a delete overwrites a newer edit of the row.
- A pulled page that the server answered before the user deleted a row is
  applied after it and inserts the row again until the queued delete is pushed
  and pulled. A bootstrap brings no deletions.
- One mutation the server answers with a 4xx stops the batch, and every batch
  after it. A pulled row that meets a local one in a unique index or a foreign
  key of the device stops the page.
- `restoreMobileSession` refreshes outside the shared flight; next to a
  headless run both may present the same token. `mobile/README.md` says that
  concurrent 401s cannot rotate a token twice, which holds for calls through
  the API client (`ReplayHasCause`).
- A rotation whose answer is lost ends, at the next refresh, in a revoked
  session and a wiped replica. The server cannot tell this from a replay.
- The mutations of budgets, categories, accounts and conflicts on the device
  are not wrapped in `runSessionWork`, so a drain does not wait for them;
  `EditLocally` models the transactions' mutations, which are.
- A history entry of an account is dated after its publication, in the second
  transaction of the push: a device that pulls in between keeps the first date.
- After a run that fails, `SyncCoordinator` remembers the request but starts no
  run; the next trigger does.
- A legacy database whose export was interrupted before its marker makes every
  later start stop: nothing is lost, and nothing can be opened.

Services:

- An imported transaction that the user edits makes its file be refused as a
  conflict for ever: the preview compares today's fields, the unique index the
  fingerprint stored at import (`csv_import_service.py:478`, `:656`;
  `docs/csv-import.md:144`, `:164`).
- A transaction may be written into a category archived after the check
  (`docs/api.md`: only an active category is selected).
- A dismissal that overlaps a scan is written over by it.
- A list loses a row to a deletion between its pages, or to a write between its
  count and its page.
- `compare_months` makes four queries at READ COMMITTED
  (`financial_comparison_service.py:71-94`): with a write between them the changes it
  lists and the difference it states disagree. `get_budget_month` makes three
  (`budget_service.py:180-207`), the insights many: an answer may mix moments.
- An import whose category a push deletes before the insert is refused as "A matching
  import was committed concurrently", which is not what happened
  (`csv_import_service.py:653-657`).
- Feedback whose row does not change keeps its date, so after a category was
  restored the suggestion may be older than the user's latest choice.

Analyses:

- Projected payments drift after a month too short for their day: each is
  computed from the one before (`upcoming_payments.py:47`; `docs/ARCHITECTURE.md:190`).
  A payment within its grace is neither upcoming nor overdue.
- Payments of the 30th are read as month ends when two of three months end there.
- A stream that comes back on a day after the one analysed leaves its earlier
  episode reported as missing (`recurring_lifecycle.py:295`;
  `docs/historical-analysis.md:143`).
- One charge after a silence starts a stream again, and must for its months not to be
  reported as missing (`SilenceIsNotMissed`; `MIN_REACTIVATION_OCCURRENCES` is 1 in
  `recurring_lifecycle.py:22`). `docs/historical-analysis.md:337` says that reactivation
  "intentionally waits for fresh evidence rather than resurrecting a subscription after
  one isolated charge".
- A charge posted early next to a change of price may split the stream or end it.
- Two streams may be given one key when their median amount drifts to the other's.
- A payment due exactly on the day of the forecast is expected and, once posted,
  spent: the day itself decides which.
- Report and evidence of the private evaluation read the data set separately, and
  may be of different data. Labelled months without an expense are not evaluated
  (`private_evaluation.py:275`; `docs/occurrence-evaluation.md:48`), and a manifest
  without `occurrenceEvaluationMonths` has none.
- A development run leaves the recurrence labels as they are: one that is dated before
  the holdout and lists only charges of the holdout is inactive in the validation months
  because of these (`is_active_in`, `historical_evaluation.py:78-89`), so holdout labels
  move a validation metric, against the sealed holdout of `docs/evaluation-protocol.md:44`.
  `HoldoutSealed` fails on such data sets (`JudgedByHoldout`). The report of a development
  run also prints how many rows the holdout has (`private_evaluation.py:446-450`).
- The fingerprint of the frozen parameters is a hash without a key
  (`historical_evaluation_protocol.py:66-92`): it finds a file changed by mistake, and a
  holdout run accepts one stamped by hand, without a development run before it.

## Not modelled

Within the parts above: the signatures of cursors and page tokens, HTTP
envelopes, validation of schemas, formatting of money and dates, filters, the
texts of findings and insights, names of merchants, error metrics and confidence
intervals, the classifier. Whole parts, and why:

| Part | Why not |
|---|---|
| offline budgets and categories on the phone | the outbox rules are those of the transactions in `MobileSync`; what differs, the device's unique indexes against pulled rows, is a known weakness |
| payment detection | patterns over texts of other applications; what it accepts goes through the offline create that is modelled |
| financial assistant | an external language model over read-only tools |
| entitlements, HTTP shell | reads of two columns; headers, tokens and a per-process limiter |
| password reset | of it, the end of an account's sessions is in `MobileSession`; links and their delivery are one request each |
| caches of server-derived resources | keyed by resource and labelled with their age; a write is one of the tasks of `MobileSession` |
| screens, web client, notifications, app lock | presentation; the web's writes are the web writers of `SyncServer`, `Categories`, `NetWorth` |
| synthetic benchmark, research models, deployment | data generation, offline research, packaging |

## Plan

Done, in this order: `VersionedStore`, `SyncServer` with its proofs,
`MobileSync`, `SyncJournal`, `MobileSession`, the services, the analyses.

Theorems proved, in this order: the push server and its refinement, what it
records, the journal, the session, six services, the device's synchronization,
the replica that keeps up with the journal, the balance history, the net worth, the
figures. What is left:

1. The properties of the analyses, over histories of every length.
2. Liveness, and that a refinement keeps the fairness of its steps.

A resolution that brings the device the server's newest row rather than the payload
stored with the conflict would let `ReplicaKeepsUp` drop its condition.

## How to run

    tlc -workers 2 -config SyncServerTransactions.cfg MCSyncServer
    tlc -workers 2 -config Services.cfg MCServices
    tlapm SyncServerProofs.tla
    tlapm FiguresProofs.tla

Each run and its configuration is listed in `PROJECT.json`; none takes more
than about three minutes on two workers. The proofs are checked module by module,
the larger ones in five to ten minutes each; a module that extends another's
proofs does not check those again.
