------------------------------ MODULE MobileSync ------------------------------
(***************************************************************************)
(* The Android client's synchronization of one replicated table            *)
(* (transactions) with the server: the SQLite replica, its durable outbox  *)
(* and its stored conflicts, under user edits that arrive at any moment of *)
(* a sync run, lost and late requests, lost answers, retries, crashes of   *)
(* the application and concurrent edits on the web.                        *)
(*                                                                         *)
(* mobile/src/sync and mobile/src/features/transactions.  Every            *)
(* runKeyedTransaction is one step, and foreground and background runs are *)
(* serialized by syncTail, so there is one sync process.  The server is    *)
(* atomic per mutation, as VersionedStore says and SyncServer implements.  *)
(***************************************************************************)
EXTENDS Naturals, Sequences, FiniteSets, FiniteSetsExt

CONSTANTS
    Entity,       \* ids of transactions, in the order bootstrap pages them
    Value,        \* payloads
    Revocable,    \* payloads whose category may be archived at the moment
    UserOps,      \* what the user does in an instance
    MaxAttempts,  \* MAX_TRANSIENT_ATTEMPTS
    BatchSize,    \* PUSH_BATCH_SIZE
    PageSize,     \* PAGE_SIZE
    MaxTaps,      \* bound: user operations that write a mutation
    MaxWeb,       \* bound: writes by the web application
    MaxFaults,    \* bound: lost calls, crashes and refused cursors
    CursorMayBeRefused, \* whether the server may refuse a cursor
    Nil           \* "no row", "no cursor", "no call", "no payload"

\* The tap that first wrote a mutation names it (Crypto.randomUUID) and gives
\* it its place in the outbox (sequence INTEGER PRIMARY KEY AUTOINCREMENT); the
\* last tap that changed it is its clientOccurredAt.
Tap == 1..MaxTaps

\* Every version beyond 1 took a write, and writes are bounded.
Version == 0..(MaxTaps + MaxWeb)

Body == [key : Tap, ent : Entity, op : {"upsert", "delete"}, base : Version,
         val : Value \cup {Nil}, at : Tap]

LocalRow == [val : Value, ver : Version,
             status : {"synced", "pending", "failed", "conflict"}]

OutboxRow == [body : Body, status : {"queued", "sending", "failed"}]

\* A server's answer to a mutation; sval is the conflict's server payload.
Answer == [status : {"applied", "duplicate", "conflict", "rejected"},
           reason : {"none", "stale_version", "server_deleted",
                     "ownership_or_visibility_changed", "invalid_category",
                     "mutation_id_reused"},
           ver : Version, sval : Value \cup {Nil}]

Conflict == [key : Tap, ent : Entity, reason : {"stale_version", "server_deleted",
                                     "ownership_or_visibility_changed"},
             ver : Version, sval : Value \cup {Nil}, lval : Value \cup {Nil}]

Change == [ent : Entity, ver : Version, val : Value \cup {Nil}]

\* Mutations on their way to the server, and its answers so far.
Queue == [Tap -> Body \cup {Nil}]

Call == [todo : Queue, answers : [Tap -> Answer \cup {Nil}]]

Keys(q) == {k \in Tap : q[k] # Nil}

SyncPC == {"idle", "claim", "await", "requeue", "bootstrap", "pull",
           "rebootstrap", "repull"}

\* Nil is none of the things it stands in for.
ASSUME MobileSyncAssumption ==
    /\ Entity \subseteq Nat \ {0} /\ IsFiniteSet(Entity)
    /\ Revocable \subseteq Value
    /\ UserOps \subseteq {"create", "edit", "delete", "useServer", "retryMine"}
    /\ MaxAttempts \in Nat \ {0} /\ BatchSize \in Nat \ {0} /\ PageSize \in Nat \ {0}
    /\ MaxTaps \in Nat /\ MaxWeb \in Nat /\ MaxFaults \in Nat
    /\ CursorMayBeRefused \in BOOLEAN
    /\ Nil \notin Value /\ Nil \notin Nat
    /\ Nil \notin Body /\ Nil \notin Answer /\ Nil \notin [req : Body, res : Answer]
    /\ Nil \notin LocalRow /\ Nil \notin OutboxRow /\ Nil \notin Call
    /\ Nil \notin [ver : Version, val : Value]
    /\ Nil \notin [high : Nat, last : Entity \cup {0}, more : BOOLEAN]
    /\ \A ids \in SUBSET Entity :
         Nil \notin [changes : [ids -> Change], next : {Nil}, more : BOOLEAN]
    /\ Nil \notin [owner : {"account"}, ver : Version, val : Value]

VARIABLES
    rows, outcomes, journal,             \* the server's tables
    local, outbox, conflicts, cursor,    \* the device's tables
    pc, call, attempts, boot, page,      \* the sync run, lost in a crash
    orphans,                             \* requests nobody waits for any more
    taps, webs, faults,                  \* bounds
    deletedHere, cancelled,              \* history of the user's deletions
    listedAt                             \* history: cursor of the last bootstrap

server == <<rows, outcomes, journal>>
device == <<local, outbox, conflicts, cursor>>
run == <<pc, call, attempts, boot, page>>
history == <<deletedHere, cancelled, listedAt>>
vars == <<rows, outcomes, journal, local, outbox, conflicts, cursor, pc, call,
          attempts, boot, page, orphans, taps, webs, faults, deletedHere, cancelled,
          listedAt>>

Init ==
    /\ rows = [e \in Entity |-> Nil]
    /\ outcomes = [k \in Tap |-> Nil]
    /\ journal = <<>>
    /\ local = [e \in Entity |-> Nil]
    /\ outbox = [k \in Tap |-> Nil]
    /\ conflicts = {}
    /\ cursor = Nil
    /\ pc = "idle"
    /\ call = Nil
    /\ attempts = 0
    /\ boot = Nil /\ page = Nil
    /\ orphans = {}
    /\ taps = 0 /\ webs = 0 /\ faults = 0
    /\ deletedHere = {} /\ cancelled = {} /\ listedAt = 0

-----------------------------------------------------------------------------
(* The server: one mutation, atomically.  Store is the abstract server. *)

Store == INSTANCE VersionedStore WITH
    Key <- Tap,
    User <- {"account"},
    OwnerOf <- [k \in Tap |-> "account"],
    Request <- Body,
    rows <- [e \in Entity |->
               IF rows[e] = Nil
               THEN Nil
               ELSE [owner |-> "account", ver |-> rows[e].ver, val |-> rows[e].val]],
    outcomes <- [k \in Tap |->
        IF outcomes[k] = Nil
        THEN Nil
        ELSE [req |-> outcomes[k].req, status |-> outcomes[k].res.status,
              ver |-> outcomes[k].res.ver]]

Reply(status, reason, ver, sval) ==
    [status |-> status, reason |-> reason, ver |-> ver, sval |-> sval]

LastVersion(e) == journal[Max({i \in DOMAIN journal : journal[i].ent = e})].ver

\* What the server may answer to a mutation it sees for the first time.
Verdicts(r) ==
    LET old == rows[r.ent] IN
    (IF r.val \in Revocable
     THEN {Reply("rejected", "invalid_category", 0, Nil)}
     ELSE {})
    \cup
    (IF old = Nil
     THEN IF r.op = "upsert" /\ r.base = 0
          THEN {Reply("applied", "none", 1, Nil)}
          ELSE IF \E i \in DOMAIN journal : journal[i].ent = r.ent
               THEN {Reply("conflict", "server_deleted", LastVersion(r.ent), Nil)}
               ELSE {Reply("conflict", "ownership_or_visibility_changed", 0, Nil)}
     ELSE IF r.base # old.ver
          THEN {Reply("conflict", "stale_version", old.ver, old.val)}
          ELSE {Reply("applied", "none",
                      IF r.val = old.val THEN old.ver ELSE old.ver + 1, Nil)})

\* A repeated mutation is told its recorded outcome, applied becoming duplicate.
Replayed(res) == [res EXCEPT !.status = IF @ = "applied" THEN "duplicate" ELSE @]

\* A mutation id names one body for ever.
Answers(r) ==
    IF outcomes[r.key] = Nil THEN Verdicts(r)
    ELSE IF outcomes[r.key].req = r THEN {Replayed(outcomes[r.key].res)}
    ELSE {Reply("rejected", "mutation_id_reused", 0, Nil)}

\* Mutant: a repeated mutation is applied again.
HandleDuplicates(r, a) ==
    LET changes == a.status \in {"applied", "duplicate"}
                     /\ (rows[r.ent] = Nil \/ a.ver # rows[r.ent].ver) IN
    /\ outcomes' = IF outcomes[r.key] = Nil
                   THEN [outcomes EXCEPT ![r.key] = [req |-> r, res |-> a]]
                   ELSE outcomes
    /\ rows' = IF ~ changes THEN rows
               ELSE [rows EXCEPT ![r.ent] =
                       IF r.op = "delete" THEN Nil ELSE [ver |-> a.ver, val |-> r.val]]
    /\ journal' = IF changes
                  THEN Append(journal, [ent |-> r.ent, ver |-> a.ver, val |-> r.val])
                  ELSE journal

\* Answering a, the server changes row, journal and outcome together.
Handle(r, a) ==
    LET first == outcomes[r.key] = Nil
        changes == first /\ a.status = "applied"
                     /\ (rows[r.ent] = Nil \/ a.ver # rows[r.ent].ver) IN
    /\ outcomes' = IF first
                   THEN [outcomes EXCEPT ![r.key] = [req |-> r, res |-> a]]
                   ELSE outcomes
    /\ rows' = IF ~ changes THEN rows
               ELSE [rows EXCEPT ![r.ent] =
                       IF r.op = "delete" THEN Nil ELSE [ver |-> a.ver, val |-> r.val]]
    /\ journal' = IF changes
                  THEN Append(journal, [ent |-> r.ent, ver |-> a.ver, val |-> r.val])
                  ELSE journal

\* The mutations of a batch are handled in order, each in its transaction.
First(q) == Min(Keys(q))

ServeCall ==
    LET k == First(call.todo)  r == call.todo[k] IN
    /\ pc = "await"
    /\ Keys(call.todo) # {}
    /\ \E a \in Answers(r) :
         /\ Handle(r, a)
         /\ call' = [todo |-> [call.todo EXCEPT ![k] = Nil],
                     answers |-> [call.answers EXCEPT ![k] = a]]
    /\ UNCHANGED <<device, pc, attempts, boot, page, orphans, taps, webs, faults, history>>

\* A request whose caller has given up still arrives, or never does.
ServeOrphan(todo) ==
    LET k == First(todo)  rest == [todo EXCEPT ![k] = Nil] IN
    /\ todo \in orphans
    /\ \E a \in Answers(todo[k]) : Handle(todo[k], a)
    /\ orphans' = (orphans \ {todo}) \cup (IF Keys(rest) = {} THEN {} ELSE {rest})
    /\ UNCHANGED <<device, run, taps, webs, faults, history>>

DropOrphan(todo) ==
    /\ todo \in orphans
    /\ orphans' = orphans \ {todo}
    /\ UNCHANGED <<server, device, run, taps, webs, faults, history>>

\* No trace of e anywhere: its id may be the next random UUID.
Fresh(e) ==
    /\ rows[e] = Nil
    /\ local[e] = Nil
    /\ e \notin cancelled
    /\ \A k \in Tap : outcomes[k] # Nil => outcomes[k].req.ent # e
    /\ \A i \in DOMAIN journal : journal[i].ent # e
    /\ \A k \in Keys(outbox) : outbox[k].body.ent # e
    /\ \A todo \in orphans : \A k \in Keys(todo) : todo[k].ent # e

\* Writes of the web application, which carry no base version.
WebWrite(e, v) ==
    /\ webs < MaxWeb
    /\ IF rows[e] = Nil THEN v # Nil /\ Fresh(e) ELSE v # rows[e].val
    /\ LET ver == IF rows[e] = Nil THEN 1 ELSE rows[e].ver + 1 IN
       /\ rows' = [rows EXCEPT ![e] = IF v = Nil THEN Nil ELSE [ver |-> ver, val |-> v]]
       /\ journal' = Append(journal, [ent |-> e, ver |-> ver, val |-> v])
    /\ webs' = webs + 1
    /\ UNCHANGED <<outcomes, device, run, orphans, taps, faults, history>>

-----------------------------------------------------------------------------
(* The user *)

EntriesOf(e) == {k \in Keys(outbox) : outbox[k].body.ent = e}

\* assertEntityNotSending
NotSending(e) == \A k \in EntriesOf(e) : outbox[k].status # "sending"

Enqueued(q, e, op, base, v) ==
    [q EXCEPT ![taps + 1] =
       [body |-> [key |-> taps + 1, ent |-> e, op |-> op, base |-> base,
                  val |-> v, at |-> taps + 1],
        status |-> "queued"]]

Tapped(op) ==
    /\ op \in UserOps
    /\ taps < MaxTaps
    /\ taps' = taps + 1
    /\ UNCHANGED <<server, cursor, run, orphans, webs, faults>>

\* createOfflineTransaction
Create(e, v) ==
    /\ Tapped("create")
    /\ Fresh(e)
    /\ local' = [local EXCEPT ![e] = [val |-> v, ver |-> 0, status |-> "pending"]]
    /\ outbox' = Enqueued(outbox, e, "upsert", 0, v)
    /\ UNCHANGED <<conflicts, history>>

\* Mutant: the row is edited while its mutation is on its way.
EditWhileSending(e, v) ==
    /\ Tapped("edit")
    /\ local[e] # Nil
    /\ local[e].status # "conflict"
    /\ local' = [local EXCEPT ![e].val = v, ![e].status = "pending"]
    /\ outbox' = IF EntriesOf(e) = {}
                 THEN Enqueued(outbox, e, "upsert", local[e].ver, v)
                 ELSE [outbox EXCEPT ![Max(EntriesOf(e))] =
                         [@ EXCEPT !.body.val = v, !.body.at = taps + 1]]
    /\ UNCHANGED <<conflicts, history>>

\* updateOfflineTransaction: the latest queued or failed upsert of the row
\* takes the new payload, and keeps its mutation id and base version.
Edit(e, v) ==
    /\ Tapped("edit")
    /\ NotSending(e)
    /\ local[e] # Nil
    /\ local[e].status # "conflict"
    /\ local' = [local EXCEPT ![e].val = v, ![e].status = "pending"]
    /\ LET mine == EntriesOf(e)
           latest == Max(mine) IN
       outbox' = IF mine # {} /\ outbox[latest].body.op = "upsert"
                 THEN [outbox EXCEPT ![latest] =
                         [body |-> [@.body EXCEPT !.val = v, !.at = taps + 1],
                          status |-> "queued"]]
                 ELSE Enqueued(outbox, e, "upsert", local[e].ver, v)
    /\ UNCHANGED <<conflicts, history>>

\* deleteOfflineTransaction: a row without a server version was never
\* acknowledged, and only its outbox entry is dropped.
Delete(e) ==
    /\ Tapped("delete")
    /\ NotSending(e)
    /\ local[e] # Nil
    /\ local[e].status # "conflict"
    /\ local' = [local EXCEPT ![e] = Nil]
    /\ LET others == [k \in Tap |-> IF k \in EntriesOf(e) THEN Nil ELSE outbox[k]]
           base == IF EntriesOf(e) = {}
                   THEN local[e].ver
                   ELSE outbox[Max(EntriesOf(e))].body.base IN
       IF local[e].ver = 0
       THEN /\ outbox' = others
            /\ cancelled' = cancelled \cup {e}
            /\ UNCHANGED deletedHere
       ELSE /\ outbox' = Enqueued(others, e, "delete",
                                  IF base = 0 THEN local[e].ver ELSE base, Nil)
            /\ deletedHere' = deletedHere \cup {e}
            /\ UNCHANGED cancelled
    /\ UNCHANGED <<conflicts, listedAt>>

\* resolveConflictWithServer: the server row of the stored conflict replaces
\* the local one whatever its status.
UseServer(c) ==
    /\ "useServer" \in UserOps
    /\ c \in conflicts
    /\ conflicts' = conflicts \ {c}
    /\ local' = [local EXCEPT ![c.ent] =
                   IF c.sval = Nil
                   THEN Nil
                   ELSE [val |-> c.sval, ver |-> c.ver, status |-> "synced"]]
    /\ UNCHANGED <<server, outbox, cursor, run, orphans, taps, webs, faults, history>>

\* Mutant: the retried mutation keeps the base version that was refused.
RetryMineAtOldBase(c) ==
    /\ Tapped("retryMine")
    /\ c \in conflicts
    /\ c.reason = "stale_version"
    /\ c.lval # Nil
    /\ conflicts' = conflicts \ {c}
    /\ local' = IF local[c.ent] = Nil
                THEN local
                ELSE [local EXCEPT ![c.ent].ver = c.ver, ![c.ent].status = "pending"]
    /\ outbox' = Enqueued(outbox, c.ent, "upsert", outcomes[c.key].req.base, c.lval)
    /\ UNCHANGED history

\* retryConflictWithLocalValue
RetryMine(c) ==
    /\ Tapped("retryMine")
    /\ c \in conflicts
    /\ c.reason = "stale_version"
    /\ c.lval # Nil
    /\ conflicts' = conflicts \ {c}
    /\ local' = IF local[c.ent] = Nil
                THEN local
                ELSE [local EXCEPT ![c.ent].ver = c.ver, ![c.ent].status = "pending"]
    /\ outbox' = Enqueued(outbox, c.ent, "upsert", c.ver, c.lval)
    /\ UNCHANGED history

UserStep ==
    \/ \E e \in Entity, v \in Value : Create(e, v) \/ Edit(e, v)
    \/ \E e \in Entity : Delete(e)
    \/ \E c \in conflicts : UseServer(c) \/ RetryMine(c)

-----------------------------------------------------------------------------
(* The sync run: performForegroundSync *)

\* The claimed batch and its request.
Sending(q) == {k \in Keys(q) : q[k].status = "sending"}

Fetch(q) == [todo |-> [k \in Tap |-> IF k \in Sending(q) THEN q[k].body ELSE Nil],
             answers |-> [k \in Tap |-> Nil]]

\* The outbox with every claim taken back.
Requeued(q) ==
    [k \in Tap |-> IF k \in Sending(q) THEN [q[k] EXCEPT !.status = "queued"] ELSE q[k]]

UserUnchanged == UNCHANGED <<server, taps, webs, deletedHere, cancelled>>

SyncUnchanged == UserUnchanged /\ UNCHANGED listedAt

\* Mutant: claims of an interrupted run are taken to be still in flight.
StartSyncKeepingClaims ==
    /\ pc = "idle"
    /\ pc' = "claim"
    /\ UNCHANGED <<device, call, attempts, boot, page, orphans, faults>>
    /\ SyncUnchanged

\* resetInterruptedMutations; runs are requested by navigation, reconnection,
\* return to the foreground, a local write, or the background task.
StartSync ==
    /\ pc = "idle"
    /\ outbox' = Requeued(outbox)
    /\ pc' = "claim"
    /\ UNCHANGED <<local, conflicts, cursor, call, attempts, boot, page, orphans, faults>>
    /\ SyncUnchanged

\* claimPendingMutations and the request that carries them; with nothing
\* queued the run goes on to bootstrap or pull.
Claim ==
    LET queued == {k \in Keys(outbox) : outbox[k].status = "queued"}
        batch == {k \in queued : Cardinality({j \in queued : j <= k}) <= BatchSize}
        claimed == [k \in Tap |->
                      IF k \in batch THEN [outbox[k] EXCEPT !.status = "sending"]
                                     ELSE outbox[k]] IN
    /\ pc = "claim"
    /\ IF queued = {}
       THEN /\ pc' = IF cursor = Nil THEN "bootstrap" ELSE "pull"
            /\ UNCHANGED <<outbox, call, attempts>>
       ELSE /\ outbox' = claimed
            /\ call' = Fetch(claimed)
            /\ attempts' = 1
            /\ pc' = "await"
    /\ UNCHANGED <<local, conflicts, cursor, boot, page, orphans, faults>>
    /\ SyncUnchanged

\* The request, its answer, or the connection is lost: an unanswered part of
\* the batch may still reach the server.
Orphaned ==
    IF call # Nil /\ Keys(call.todo) # {} THEN orphans \cup {call.todo} ELSE orphans

MayRetry == attempts < MaxAttempts

\* withTransientRetry: another attempt, or the error is passed on.
LoseCall ==
    /\ pc = "await"
    /\ faults < MaxFaults
    /\ faults' = faults + 1
    /\ orphans' = Orphaned
    /\ \/ /\ MayRetry
          /\ attempts' = attempts + 1
          /\ call' = Fetch(outbox)
          /\ UNCHANGED pc
       \/ /\ pc' = "requeue"
          /\ call' = Nil
          /\ attempts' = 0
    /\ UNCHANGED <<device, boot, page>>
    /\ SyncUnchanged

\* requeueMutations, and the error ends the run.
Requeue ==
    /\ pc = "requeue"
    /\ outbox' = Requeued(outbox)
    /\ pc' = "idle"
    /\ UNCHANGED <<local, conflicts, cursor, call, attempts, boot, page, orphans, faults>>
    /\ SyncUnchanged

\* What the answers to its mutations make of a row (updateEntityStatus, in
\* outbox order): an accepted deletion removes it, otherwise it has the version
\* of the last answer that names one and the status of the last answer.
Accepted == {"applied", "duplicate"}

Shown == [applied |-> "synced", duplicate |-> "synced",
          conflict |-> "conflict", rejected |-> "failed"]

Settled(e) ==
    LET mine == {k \in Keys(call.answers) : outbox[k].body.ent = e}
        told == {k \in mine : call.answers[k].status # "rejected"}
        gone == {k \in mine : /\ call.answers[k].status \in Accepted
                              /\ outbox[k].body.op = "delete"} IN
    IF mine = {} \/ local[e] = Nil THEN local[e]
    ELSE IF gone # {} THEN Nil
    ELSE [val |-> local[e].val,
          ver |-> IF told = {} THEN local[e].ver ELSE call.answers[Max(told)].ver,
          status |-> Shown[call.answers[Max(mine)].status]]

\* persistPushResponse: the whole batch in one transaction.
PersistResponse ==
    /\ pc = "await"
    /\ Keys(call.todo) = {}
    /\ local' = [e \in Entity |-> Settled(e)]
    /\ outbox' = [k \in Tap |->
         IF call.answers[k] = Nil THEN outbox[k]
         ELSE IF call.answers[k].status = "rejected"
              THEN [outbox[k] EXCEPT !.status = "failed"] ELSE Nil]
    /\ conflicts' = conflicts \cup
         {[key |-> k, ent |-> outbox[k].body.ent, reason |-> call.answers[k].reason,
           ver |-> call.answers[k].ver, sval |-> call.answers[k].sval,
           lval |-> outbox[k].body.val] :
             k \in {j \in Keys(call.answers) : call.answers[j].status = "conflict"}}
    /\ call' = Nil
    /\ attempts' = 0
    /\ pc' = "claim"
    /\ UNCHANGED <<cursor, boot, page, orphans, faults>>
    /\ SyncUnchanged

\* applySyncChange: a row with unsynced local intent is left alone; of the
\* changes of a page to another row the last one stays.
Received(ver, val) == IF val = Nil THEN Nil ELSE [val |-> val, ver |-> ver, status |-> "synced"]

\* Mutant: hasUnsyncedLocalIntent looks for pending rows only.
ApplyOverFailed(changes) ==
    [e \in Entity |->
        LET mine == {i \in DOMAIN changes : changes[i].ent = e} IN
        IF mine = {} \/ (local[e] # Nil /\ local[e].status = "pending")
        THEN local[e]
        ELSE Received(changes[Max(mine)].ver, changes[Max(mine)].val)]

Apply(changes) ==
    [e \in Entity |->
        LET mine == {i \in DOMAIN changes : changes[i].ent = e} IN
        IF mine = {} \/ (local[e] # Nil /\ local[e].status # "synced")
        THEN local[e]
        ELSE Received(changes[Max(mine)].ver, changes[Max(mine)].val)]

\* Mutant: the last page establishes the cursor of the moment.
BootTokensLate ==
    [high |-> Len(journal), last |-> IF boot = Nil THEN 0 ELSE boot.last, more |-> TRUE]

\* The snapshot and page tokens: the first page fixes the cursor that is
\* established after the last one.
BootTokens ==
    IF boot = Nil THEN [high |-> Len(journal), last |-> 0, more |-> TRUE] ELSE boot

\* The server answers a bootstrap call: the next rows as they are now, in id
\* order.
FetchBootstrap ==
    LET ahead == {e \in Entity : e > BootTokens.last /\ rows[e] # Nil}
        ids == {e \in ahead : Cardinality({o \in ahead : o <= e}) <= PageSize} IN
    /\ pc \in {"bootstrap", "rebootstrap"}
    /\ page = Nil
    /\ BootTokens.more
    /\ page' = [next |-> Nil, more |-> TRUE,
                changes |-> [e \in ids |->
                    [ent |-> e, ver |-> rows[e].ver, val |-> rows[e].val]]]
    /\ boot' = [BootTokens EXCEPT !.last = IF ids = {} THEN @ ELSE Max(ids),
                                  !.more = ids # ahead]
    /\ UNCHANGED <<device, pc, call, attempts, orphans, faults>>
    /\ SyncUnchanged

\* After the last page the cursor of the first one is stored.
EstablishCursor ==
    /\ boot # Nil
    /\ page = Nil
    /\ ~ boot.more
    /\ cursor' = boot.high
    /\ listedAt' = boot.high
    /\ boot' = Nil
    /\ pc' = IF pc = "bootstrap" THEN "pull" ELSE "repull"
    /\ UNCHANGED <<local, outbox, conflicts, call, attempts, page, orphans, faults>>
    /\ UserUnchanged

\* The server answers a pull call: the changes after the cursor.
FetchPull ==
    LET last == Min({cursor + PageSize, Len(journal)}) IN
    /\ pc \in {"pull", "repull"}
    /\ page = Nil
    /\ page' = [changes |-> [i \in cursor + 1 .. last |-> journal[i]], next |-> last,
                more |-> last < Len(journal)]
    /\ UNCHANGED <<device, pc, call, attempts, boot, orphans, faults>>
    /\ SyncUnchanged

\* A page and the cursor behind it are written in one transaction, to the
\* replica as it is by then.
ApplyPage ==
    /\ page # Nil
    /\ local' = Apply(page.changes)
    /\ cursor' = IF page.next = Nil THEN cursor ELSE page.next
    /\ pc' = IF page.more THEN pc ELSE "idle"
    /\ page' = Nil
    /\ UNCHANGED <<outbox, conflicts, call, attempts, boot, orphans, faults>>
    /\ SyncUnchanged

\* invalid_sync_cursor: the cursor is dropped and the replica bootstrapped,
\* once per run; a second refusal ends the run like any failing call.
CursorRefused ==
    /\ pc = "pull" /\ page = Nil
    /\ CursorMayBeRefused
    /\ faults < MaxFaults
    /\ faults' = faults + 1
    /\ cursor' = Nil
    /\ pc' = "rebootstrap"
    /\ UNCHANGED <<local, outbox, conflicts, call, attempts, boot, page, orphans>>
    /\ SyncUnchanged

\* The process dies, or a pull or bootstrap call fails for good: the run is
\* gone, the tables stay.
Crash ==
    /\ pc # "idle"
    /\ faults < MaxFaults
    /\ faults' = faults + 1
    /\ orphans' = Orphaned
    /\ pc' = "idle"
    /\ call' = Nil
    /\ attempts' = 0
    /\ boot' = Nil /\ page' = Nil
    /\ UNCHANGED device
    /\ SyncUnchanged

SyncStep ==
    \/ StartSync \/ Claim \/ Requeue \/ PersistResponse
    \/ FetchBootstrap \/ EstablishCursor \/ FetchPull \/ ApplyPage

Next ==
    \/ UserStep
    \/ SyncStep
    \/ ServeCall
    \/ \E todo \in orphans : ServeOrphan(todo) \/ DropOrphan(todo)
    \/ \E e \in Entity, v \in Value \cup {Nil} : WebWrite(e, v)
    \/ LoseCall \/ CursorRefused \/ Crash

Spec == Init /\ [][Next]_vars

\* Runs are requested again and again and go on; the server answers a call
\* that is not lost.  Users, the web, faults and late requests are free.
FairSpec == Spec /\ WF_vars(SyncStep) /\ WF_vars(ServeCall)

-----------------------------------------------------------------------------
(* Properties *)

TypeOK ==
    /\ rows \in [Entity -> [ver : Version, val : Value] \cup {Nil}]
    /\ outcomes \in [Tap -> [req : Body, res : Answer] \cup {Nil}]
    /\ journal \in Seq(Change)
    /\ local \in [Entity -> LocalRow \cup {Nil}]
    /\ outbox \in [Tap -> OutboxRow \cup {Nil}]
    /\ conflicts \subseteq Conflict
    /\ cursor \in Nat \cup {Nil}
    /\ pc \in SyncPC
    /\ call \in Call \cup {Nil} /\ (call # Nil <=> pc = "await")
    /\ attempts \in 0..MaxAttempts
    /\ boot = Nil \/ boot \in [high : Nat, last : Entity \cup {0}, more : BOOLEAN]
    /\ page = Nil \/ page \in [changes : [DOMAIN page.changes -> Change],
                               next : Nat \cup {Nil}, more : BOOLEAN]
    /\ orphans \subseteq Queue
    /\ taps \in 0..MaxTaps /\ webs \in 0..MaxWeb /\ faults \in 0..MaxFaults
    /\ deletedHere \subseteq Entity /\ cancelled \subseteq Entity
    /\ listedAt \in Nat

\* Status and outbox agree, although edits, answers, conflicts and crashes
\* interleave: a row the user has never deleted here has at most one outbox
\* entry, which carries the row's value and the version the user saw; it is
\* pending or failed exactly when it has one, and in conflict exactly when
\* its evidence is stored.  So no accepted edit is without its mutation, and
\* no mutation is based on a version the user has not seen.
OutboxMatchesReplica ==
    \A e \in Entity \ deletedHere :
        LET mine == EntriesOf(e) IN
        /\ \A j, k \in mine : j = k
        /\ mine # {} => local[e] # Nil
        /\ local[e] # Nil =>
             /\ local[e].status = "conflict" <=> \E c \in conflicts : c.ent = e
             /\ local[e].status \in {"pending", "failed"} <=> mine # {}
             /\ \A k \in mine :
                  /\ outbox[k].body.val = local[e].val
                  /\ outbox[k].body.base = local[e].ver
                  /\ outbox[k].status = "failed" <=> local[e].status = "failed"

\* A row shown as synced is one the server has published: this value under
\* this version.  An edit made while its predecessor is on its way, a late
\* request of an earlier attempt or a duplicate answer never labels a value
\* with a version it does not have.
SyncedIsPublished ==
    \A e \in Entity \ deletedHere :
        local[e] # Nil /\ local[e].status = "synced" =>
            \E i \in DOMAIN journal :
                journal[i] = [ent |-> e, ver |-> local[e].ver, val |-> local[e].val]

\* Synchronization never destroys local intent: only the user changes the
\* value of a row that is not synced, or makes it disappear.
Acted(e) ==
    \/ taps' # taps /\ pc' = pc
    \/ \E c \in conflicts \ conflicts' : c.ent = e

SyncKeepsIntent ==
    [][\A e \in Entity \ deletedHere :
         local[e] # Nil /\ local[e].status # "synced" /\ ~ Acted(e) =>
             local'[e] # Nil /\ local'[e].val = local[e].val]_vars

\* Once a run has reached the end of the journal and nothing is outstanding,
\* the replica has every row of the server's table as it is there, and no row
\* whose deletion came after the last bootstrap: paging, skipping rows with
\* local intent, conflicts and their resolutions lose no change.
AtRest ==
    /\ pc = "idle" /\ cursor = Len(journal)
    /\ Keys(outbox) = {} /\ conflicts = {} /\ orphans = {}

ReplicaFollowsJournal ==
    AtRest => \A e \in Entity \ cancelled :
        /\ rows[e] # Nil =>
             local[e] = [val |-> rows[e].val, ver |-> rows[e].ver, status |-> "synced"]
        /\ rows[e] = Nil /\ local[e] # Nil =>
             \E i \in 1..listedAt : journal[i].ent = e /\ journal[i].val = Nil

\* Every queued mutation is settled: applied, in conflict, failed, or taken
\* back by the user, whatever is lost and wherever the process dies.
EveryMutationSettles ==
    \A k \in Tap :
        outbox[k] # Nil ~> outbox[k] = Nil \/ outbox[k].status = "failed"

\* The server under this client is the versioned store of VersionedStore.
ServerIsStore == Store!Spec

\* As long as no call and no process is lost, a body the server has applied
\* is the one still queued under its mutation id, although the user edits rows
\* while their mutations are claimed, sent and answered.  (After a lost answer
\* the entry is queued again and an edit rewrites it: mobile/README.md's "An
\* entity already being sent cannot have its payload edited or removed before
\* acknowledgment" does not extend to that.)
SentBodyStands ==
    faults = 0 =>
        \A k \in Keys(outbox) :
            outcomes[k] # Nil /\ outcomes[k].res.status = "applied"
                => outcomes[k].req = outbox[k].body

\* The replica stays consistent through every interleaving of the user, the
\* engine and the server: what is queued, shown and sent agree.
ReplicaConsistent ==
    /\ TypeOK
    /\ OutboxMatchesReplica
    /\ SyncedIsPublished
    /\ SentBodyStands

\* mobile/README.md: "Deleting an unsynchronized transaction cancels the
\* local create."
CancelledStaysAway == \A e \in cancelled : local[e] = Nil
=============================================================================
