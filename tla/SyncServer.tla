------------------------------ MODULE SyncServer ------------------------------
(***************************************************************************)
(* The server half of sync-v1 under concurrency: POST /sync/push as        *)
(* backend/app/services/sync_service.py runs it, one database transaction  *)
(* per mutation at READ COMMITTED, next to the web application's own       *)
(* writers of the same rows.                                               *)
(*                                                                         *)
(* A push worker handles one mutation of a batch at a time; the mutations  *)
(* of a batch are independent transactions, so a batch is a worker that    *)
(* receives again.  A worker's transaction holds the advisory lock of its  *)
(* mutation key and the lock of the row it has selected FOR UPDATE or has  *)
(* written.  Transactions and budgets are the two entity types modelled:   *)
(* a transaction's immutable part is its source, a budget's is its scope   *)
(* (month and category), which is also unique among an account's budgets.  *)
(*                                                                         *)
(* Not modelled here: the global order of journal sequences (SyncJournal), *)
(* the device (MobileSync), the payload beyond what the guards compare.    *)
(***************************************************************************)
EXTENDS Naturals, Sequences, FiniteSets

CONSTANTS
    Worker,      \* threads serving POST /sync/push
    Web,         \* threads serving the web application's writes
    Transaction, \* ids of transactions
    Budget,      \* ids of budgets
    User,        \* accounts
    Key,         \* (user, device, mutationId) triples
    OwnerOf,     \* the account of each key
    Value,       \* payloads
    FixedOf,     \* the part of a payload an update may not change
    Manual,      \* the fixed part of a manually entered transaction
    Revocable,   \* payloads whose category may be archived at the moment
    Request,     \* the mutations clients may send
    MaxStarted,  \* bound: how many requests and web writes ever start
    Nil          \* "no row", "no lock", "no outcome", "no request"

Entity == Transaction \cup Budget
Process == Worker \cup Web

Row == [owner : User, ver : Nat \ {0}, val : Value]

Reason == {"none", "stale_version", "server_deleted",
           "ownership_or_visibility_changed", "invalid_category",
           "budget_scope_conflict", "invalid_source", "fixed_part_immutable",
           "constraint_conflict", "mutation_id_reused"}

Result == [status : {"applied", "duplicate", "conflict", "rejected"},
           reason : Reason, ver : Nat]

\* A stored outcome keeps the request it answered; comparing the requests
\* stands for comparing request_hash.
Outcome == [req : Request, res : Result]

\* An uncommitted write of a process, and a committed journal entry.  by is
\* a history component: the mutation key that wrote it, Nil for the web.
Change == [ent : Entity, op : {"upsert", "delete"}, owner : User,
           ver : Nat \ {0}, val : Value \cup {Nil}, by : Key \cup {Nil}]

Task == [ent : Entity, op : {"create", "update", "delete"},
         owner : User, val : Value \cup {Nil}]

RequestType ==
    [key : Key, ent : Entity, op : {"upsert", "delete"}, base : Nat,
     val : Value \cup {Nil}]

WorkerPC == {"idle", "lock", "lookup", "select", "locked", "absent",
             "classify", "insert", "persist", "constraint", "reread", "done"}

WebPC == {"idle", "insert", "loaded", "commit"}

ASSUME SyncServerAssumption ==
    /\ Worker \cap Web = {}
    /\ Transaction \cap Budget = {}
    /\ OwnerOf \in [Key -> User]
    /\ Value \subseteq DOMAIN FixedOf
    /\ Revocable \subseteq Value
    /\ MaxStarted \in Nat
    /\ \A r \in Request :
         /\ r \in RequestType
         /\ r.op = "upsert" <=> r.val # Nil
    /\ Nil \notin Row /\ Nil \notin Outcome /\ Nil \notin Result
    /\ Nil \notin Change /\ Nil \notin Task /\ Nil \notin Request
    /\ Nil \notin Process /\ Nil \notin Key /\ Nil \notin Value

VARIABLES
    rows,      \* committed rows
    journal,   \* committed sync_changes, in commit order
    outcomes,  \* committed sync_mutations
    advisory,  \* holder of the advisory lock of each mutation key
    lock,      \* holder of the row lock of each entity
    pc,        \* where each process stands
    task,      \* what it works on
    pending,   \* its uncommitted write
    reply,     \* what the push worker is about to answer
    started    \* how many requests and web writes have started

vars == <<rows, journal, outcomes, advisory, lock, pc, task, pending, reply,
          started>>

Init ==
    /\ rows = [e \in Entity |-> Nil]
    /\ journal = <<>>
    /\ outcomes = [k \in Key |-> Nil]
    /\ advisory = [k \in Key |-> Nil]
    /\ lock = [e \in Entity |-> Nil]
    /\ pc = [p \in Process |-> "idle"]
    /\ task = [p \in Process |-> Nil]
    /\ pending = [p \in Process |-> Nil]
    /\ reply = [w \in Worker |-> Nil]
    /\ started = 0

-----------------------------------------------------------------------------
(* Helpers *)

Answer(status, reason, ver) == [status |-> status, reason |-> reason, ver |-> ver]

\* _stored_outcome: a stored "applied" is answered as "duplicate".
StoredAnswer(o) ==
    IF o.res.status = "applied" THEN [o.res EXCEPT !.status = "duplicate"] ELSE o.res

\* The committed budgets that occupy the scope of payload v.
ScopeHolders(e, u, v) ==
    {f \in Budget \ {e} : /\ e \in Budget
                          /\ rows[f] # Nil
                          /\ rows[f].owner = u
                          /\ FixedOf[rows[f].val] = FixedOf[v]}

\* The rows a unique index compares with an insert: same id or same scope,
\* committed or still uncommitted in another transaction.
UncommittedRivals(p, e, u, v) ==
    {q \in Process \ {p} :
        /\ pending[q] # Nil
        /\ \/ pending[q].ent = e
           \/ /\ e \in Budget
              /\ pending[q].ent \in ScopeHolders(e, u, v)
           \/ /\ {e, pending[q].ent} \subseteq Budget
              /\ pending[q].op = "upsert"
              /\ pending[q].owner = u
              /\ FixedOf[pending[q].val] = FixedOf[v]}

\* Mutant: no unique index on the scope, only the handlers' own look.
CommittedRivalsById(e, u, v) == {f \in Entity : f = e /\ rows[f] # Nil}

CommittedRivals(e, u, v) ==
    {f \in Entity : f = e /\ rows[f] # Nil} \cup ScopeHolders(e, u, v)

\* _last_user_change: the latest committed journal entry of the account for
\* the entity is a tombstone.
LastChanges(e, u) ==
    {i \in DOMAIN journal :
        /\ journal[i].ent = e
        /\ journal[i].owner = u
        /\ \A j \in DOMAIN journal :
             journal[j].ent = e /\ journal[j].owner = u => j <= i}

\* _missing_entity_conflict
MissingAnswer(e, u) ==
    IF \E i \in LastChanges(e, u) : journal[i].op = "delete"
    THEN Answer("conflict", "server_deleted",
                journal[CHOOSE i \in LastChanges(e, u) : TRUE].ver)
    ELSE Answer("conflict", "ownership_or_visibility_changed", 0)

\* Mutant: a session-level advisory lock, which a commit does not release.
ReleaseKeepingAdvisory(p) ==
    /\ lock' = [e \in Entity |-> IF lock[e] = p THEN Nil ELSE lock[e]]
    /\ pending' = [pending EXCEPT ![p] = Nil]
    /\ UNCHANGED advisory

\* End of a transaction: every lock it holds is released.
Release(p) ==
    /\ advisory' = [k \in Key |-> IF advisory[k] = p THEN Nil ELSE advisory[k]]
    /\ lock' = [e \in Entity |-> IF lock[e] = p THEN Nil ELSE lock[e]]
    /\ pending' = [pending EXCEPT ![p] = Nil]

\* The row a write leaves, and what the row triggers and the commit publish.
RowOf(c) ==
    IF c.op = "delete"
    THEN Nil
    ELSE [owner |-> c.owner, ver |-> c.ver, val |-> c.val]

Publish(p) ==
    IF pending[p] = Nil
    THEN UNCHANGED <<rows, journal>>
    ELSE /\ rows' = [rows EXCEPT ![pending[p].ent] = RowOf(pending[p])]
         /\ journal' = Append(journal, pending[p])

Goto(p, label) == pc' = [pc EXCEPT ![p] = label]

\* Store the answer of a step and go on to persist it.
Decide(w, answer) ==
    /\ reply' = [reply EXCEPT ![w] = answer]
    /\ Goto(w, "persist")

-----------------------------------------------------------------------------
(* push_sync: one mutation *)

Receive(w, r) ==
    /\ pc[w] = "idle"
    /\ started < MaxStarted
    /\ started' = started + 1
    /\ task' = [task EXCEPT ![w] = r]
    /\ reply' = [reply EXCEPT ![w] = Nil]
    /\ Goto(w, "lock")
    /\ UNCHANGED <<rows, journal, outcomes, advisory, lock, pending>>

\* pg_advisory_xact_lock: waits until no other transaction holds the key.
AcquireAdvisory(w) ==
    /\ pc[w] = "lock"
    /\ advisory[task[w].key] = Nil
    /\ advisory' = [advisory EXCEPT ![task[w].key] = w]
    /\ Goto(w, "lookup")
    /\ UNCHANGED <<rows, journal, outcomes, lock, task, pending, reply, started>>

\* The stored outcome answers a known key; the same key with another body is
\* refused and nothing is stored.
AnswerStored(w) ==
    LET o == outcomes[task[w].key] IN
    /\ pc[w] = "lookup"
    /\ o # Nil
    /\ reply' = [reply EXCEPT ![w] =
                   IF o.req # task[w]
                   THEN Answer("rejected", "mutation_id_reused", 0)
                   ELSE StoredAnswer(o)]
    /\ Goto(w, "done")
    /\ Release(w)
    /\ UNCHANGED <<rows, journal, outcomes, task, started>>

LookupMiss(w) ==
    /\ pc[w] = "lookup"
    /\ outcomes[task[w].key] = Nil
    /\ Goto(w, "select")
    /\ UNCHANGED <<rows, journal, outcomes, advisory, lock, task, pending, reply,
                   started>>

\* Mutant: a plain SELECT.
SelectUnlocked(w) ==
    /\ pc[w] = "select"
    /\ Goto(w, IF rows[task[w].ent] = Nil THEN "absent" ELSE "locked")
    /\ UNCHANGED <<rows, journal, outcomes, advisory, lock, task, pending, reply,
                   started>>

\* SELECT ... FOR UPDATE: a committed row is locked, once no other
\* transaction holds it; an uncommitted insert is invisible.
SelectForUpdate(w) ==
    LET e == task[w].ent IN
    /\ pc[w] = "select"
    /\ IF rows[e] = Nil
       THEN /\ Goto(w, "absent")
            /\ UNCHANGED lock
       ELSE /\ lock[e] = Nil
            /\ lock' = [lock EXCEPT ![e] = w]
            /\ Goto(w, "locked")
    /\ UNCHANGED <<rows, journal, outcomes, advisory, task, pending, reply, started>>

\* The category of the payload is archived, invisible or of the other type.
RejectCategory(w) ==
    /\ pc[w] \in {"locked", "absent"}
    /\ task[w].op = "upsert"
    /\ task[w].val \in Revocable
    /\ Decide(w, Answer("rejected", "invalid_category", 0))
    /\ UNCHANGED <<rows, journal, outcomes, advisory, lock, task, pending, started>>

\* _budget_scope_conflict: another committed budget has the scope.
RejectScope(w) ==
    /\ pc[w] \in {"locked", "absent"}
    /\ task[w].op = "upsert"
    /\ ScopeHolders(task[w].ent, OwnerOf[task[w].key], task[w].val) # {}
    /\ Decide(w, Answer("rejected", "budget_scope_conflict", 0))
    /\ UNCHANGED <<rows, journal, outcomes, advisory, lock, task, pending, started>>

\* The mutation passed the checks that precede the look at the row itself.
Admissible(w) ==
    task[w].op = "upsert" =>
        ScopeHolders(task[w].ent, OwnerOf[task[w].key], task[w].val) = {}

\* The row is somebody else's: a delete looks for a tombstone of its own
\* account, an upsert conflicts at once.
ForeignRow(w) ==
    /\ pc[w] = "locked"
    /\ Admissible(w)
    /\ rows[task[w].ent].owner # OwnerOf[task[w].key]
    /\ IF task[w].op = "delete"
       THEN Goto(w, "classify") /\ UNCHANGED reply
       ELSE Decide(w, Answer("conflict", "ownership_or_visibility_changed", 0))
    /\ UNCHANGED <<rows, journal, outcomes, advisory, lock, task, pending, started>>

OwnRow(w) ==
    /\ pc[w] = "locked"
    /\ Admissible(w)
    /\ rows[task[w].ent].owner = OwnerOf[task[w].key]

StaleVersion(w) ==
    /\ OwnRow(w)
    /\ task[w].base # rows[task[w].ent].ver
    /\ Decide(w, Answer("conflict", "stale_version", rows[task[w].ent].ver))
    /\ UNCHANGED <<rows, journal, outcomes, advisory, lock, task, pending, started>>

\* A transaction's source and a budget's month and category are immutable.
RejectFixedPart(w) ==
    /\ OwnRow(w)
    /\ task[w].op = "upsert"
    /\ task[w].base = rows[task[w].ent].ver
    /\ FixedOf[task[w].val] # FixedOf[rows[task[w].ent].val]
    /\ Decide(w, Answer("rejected", "fixed_part_immutable", 0))
    /\ UNCHANGED <<rows, journal, outcomes, advisory, lock, task, pending, started>>

\* Mutant: the answer carries the version read before the flush.
UpdateRowWithoutRefresh(w) ==
    LET old == rows[task[w].ent] IN
    /\ OwnRow(w)
    /\ task[w].op = "upsert"
    /\ task[w].base = old.ver
    /\ FixedOf[task[w].val] = FixedOf[old.val]
    /\ pending' = [pending EXCEPT ![w] =
          [ent |-> task[w].ent, op |-> "upsert", owner |-> old.owner,
           ver |-> old.ver + 1, val |-> task[w].val, by |-> task[w].key]]
    /\ Decide(w, Answer("applied", "none", old.ver))
    /\ UNCHANGED <<rows, journal, outcomes, advisory, lock, task, started>>

\* Mutant: the handler forgets to compare the base version.
UpdateRowAnyVersion(w) ==
    LET old == rows[task[w].ent] IN
    /\ OwnRow(w)
    /\ task[w].op = "upsert"
    /\ FixedOf[task[w].val] = FixedOf[old.val]
    /\ old.val # task[w].val
    /\ pending' = [pending EXCEPT ![w] =
          [ent |-> task[w].ent, op |-> "upsert", owner |-> old.owner,
           ver |-> old.ver + 1, val |-> task[w].val, by |-> task[w].key]]
    /\ Decide(w, Answer("applied", "none", old.ver + 1))
    /\ UNCHANGED <<rows, journal, outcomes, advisory, lock, task, started>>

\* The flush: the row trigger allots the next version and a journal row; an
\* update that changes no replicated column keeps the version and adds none.
UpdateRow(w) ==
    LET old == rows[task[w].ent] IN
    /\ OwnRow(w)
    /\ task[w].op = "upsert"
    /\ task[w].base = old.ver
    /\ FixedOf[task[w].val] = FixedOf[old.val]
    /\ IF old.val = task[w].val
       THEN /\ Decide(w, Answer("applied", "none", old.ver))
            /\ UNCHANGED pending
       ELSE /\ pending' = [pending EXCEPT ![w] =
                 [ent |-> task[w].ent, op |-> "upsert", owner |-> old.owner,
                  ver |-> old.ver + 1, val |-> task[w].val, by |-> task[w].key]]
            /\ Decide(w, Answer("applied", "none", old.ver + 1))
    /\ UNCHANGED <<rows, journal, outcomes, advisory, lock, task, started>>

\* Mutant: the tombstone reuses the version of the row it removes.
DeleteRowSameVersion(w) ==
    LET old == rows[task[w].ent] IN
    /\ OwnRow(w)
    /\ task[w].op = "delete"
    /\ task[w].base = old.ver
    /\ pending' = [pending EXCEPT ![w] =
          [ent |-> task[w].ent, op |-> "delete", owner |-> old.owner,
           ver |-> old.ver, val |-> Nil, by |-> task[w].key]]
    /\ Decide(w, Answer("applied", "none", old.ver))
    /\ UNCHANGED <<rows, journal, outcomes, advisory, lock, task, started>>

DeleteRow(w) ==
    LET old == rows[task[w].ent] IN
    /\ OwnRow(w)
    /\ task[w].op = "delete"
    /\ task[w].base = old.ver
    /\ pending' = [pending EXCEPT ![w] =
          [ent |-> task[w].ent, op |-> "delete", owner |-> old.owner,
           ver |-> old.ver + 1, val |-> Nil, by |-> task[w].key]]
    /\ Decide(w, Answer("applied", "none", old.ver + 1))
    /\ UNCHANGED <<rows, journal, outcomes, advisory, lock, task, started>>

\* The select found no row.
MissingRow(w) ==
    /\ pc[w] = "absent"
    /\ Admissible(w)
    /\ task[w].op = "delete" \/ task[w].base # 0
    /\ Goto(w, "classify")
    /\ UNCHANGED <<rows, journal, outcomes, advisory, lock, task, pending, reply,
                   started>>

RejectSource(w) ==
    /\ pc[w] = "absent"
    /\ Admissible(w)
    /\ task[w].op = "upsert"
    /\ task[w].base = 0
    /\ task[w].ent \in Transaction
    /\ FixedOf[task[w].val] # Manual
    /\ Decide(w, Answer("rejected", "invalid_source", 0))
    /\ UNCHANGED <<rows, journal, outcomes, advisory, lock, task, pending, started>>

CreateRow(w) ==
    /\ pc[w] = "absent"
    /\ Admissible(w)
    /\ task[w].op = "upsert"
    /\ task[w].base = 0
    /\ task[w].ent \in Transaction => FixedOf[task[w].val] = Manual
    /\ Goto(w, "insert")
    /\ UNCHANGED <<rows, journal, outcomes, advisory, lock, task, pending, reply,
                   started>>

\* A second statement, with a snapshot of its own.
Classify(w) ==
    /\ pc[w] = "classify"
    /\ Decide(w, MissingAnswer(task[w].ent, OwnerOf[task[w].key]))
    /\ UNCHANGED <<rows, journal, outcomes, advisory, lock, task, pending, started>>

\* INSERT: waits for uncommitted rivals of the unique indexes; with a
\* committed rival it fails, and the rollback gives up every lock.
InsertRow(w) ==
    LET e == task[w].ent
        u == OwnerOf[task[w].key]
        v == task[w].val IN
    /\ pc[w] = "insert"
    /\ UncommittedRivals(w, e, u, v) = {}
    /\ CommittedRivals(e, u, v) = {}
    /\ pending' = [pending EXCEPT ![w] =
          [ent |-> e, op |-> "upsert", owner |-> u, ver |-> 1, val |-> v,
           by |-> task[w].key]]
    /\ lock' = [lock EXCEPT ![e] = w]
    /\ Decide(w, Answer("applied", "none", 1))
    /\ UNCHANGED <<rows, journal, outcomes, advisory, task, started>>

InsertFails(w) ==
    LET e == task[w].ent
        u == OwnerOf[task[w].key]
        v == task[w].val IN
    /\ pc[w] = "insert"
    /\ UncommittedRivals(w, e, u, v) = {}
    /\ CommittedRivals(e, u, v) # {}
    /\ Goto(w, "constraint")
    /\ Release(w)
    /\ UNCHANGED <<rows, journal, outcomes, task, reply, started>>

\* _persist_outcome: the outcome and the write commit together; a stored
\* outcome of the key fails the commit and rolls the write back.
Persist(w) ==
    LET k == task[w].key IN
    /\ pc[w] = "persist"
    /\ IF outcomes[k] = Nil
       THEN /\ outcomes' = [outcomes EXCEPT ![k] = [req |-> task[w], res |-> reply[w]]]
            /\ Publish(w)
            /\ Goto(w, "done")
       ELSE /\ Goto(w, "constraint")
            /\ UNCHANGED <<rows, journal, outcomes>>
    /\ Release(w)
    /\ UNCHANGED <<task, reply, started>>

\* The handler of the IntegrityError runs after the rollback, so without the
\* advisory lock.
PersistConstraint(w) ==
    LET k == task[w].key
        answer == Answer("rejected", "constraint_conflict", 0) IN
    /\ pc[w] = "constraint"
    /\ reply' = [reply EXCEPT ![w] = answer]
    /\ IF outcomes[k] = Nil
       THEN /\ outcomes' = [outcomes EXCEPT ![k] = [req |-> task[w], res |-> answer]]
            /\ Goto(w, "done")
       ELSE /\ Goto(w, "reread")
            /\ UNCHANGED outcomes
    /\ UNCHANGED <<rows, journal, advisory, lock, task, pending, started>>

\* Mutant: the loser of the race answers for itself.
RereadIgnoringStored(w) ==
    /\ pc[w] = "reread"
    /\ Goto(w, "done")
    /\ UNCHANGED <<rows, journal, outcomes, advisory, lock, task, pending, reply,
                   started>>

Reread(w) ==
    LET o == outcomes[task[w].key] IN
    /\ pc[w] = "reread"
    /\ IF o # Nil /\ o.req = task[w]
       THEN reply' = [reply EXCEPT ![w] = StoredAnswer(o)]
       ELSE UNCHANGED reply
    /\ Goto(w, "done")
    /\ UNCHANGED <<rows, journal, outcomes, advisory, lock, task, pending, started>>

\* Any other database error or a lost connection: rollback, status 500.
Fail(w) ==
    /\ pc[w] \notin {"idle", "done"}
    /\ task' = [task EXCEPT ![w] = Nil]
    /\ reply' = [reply EXCEPT ![w] = Nil]
    /\ Goto(w, "idle")
    /\ Release(w)
    /\ UNCHANGED <<rows, journal, outcomes, started>>

\* Mutant: the worker keeps the request it has answered.
RespondKeepingTask(w) ==
    /\ pc[w] = "done"
    /\ Goto(w, "idle")
    /\ UNCHANGED <<rows, journal, outcomes, advisory, lock, task, pending, reply,
                   started>>

Respond(w) ==
    /\ pc[w] = "done"
    /\ task' = [task EXCEPT ![w] = Nil]
    /\ reply' = [reply EXCEPT ![w] = Nil]
    /\ Goto(w, "idle")
    /\ UNCHANGED <<rows, journal, outcomes, advisory, lock, pending, started>>

PushStep(w) ==
    \/ AcquireAdvisory(w) \/ AnswerStored(w) \/ LookupMiss(w)
    \/ SelectForUpdate(w) \/ RejectCategory(w) \/ RejectScope(w)
    \/ ForeignRow(w) \/ StaleVersion(w) \/ RejectFixedPart(w)
    \/ UpdateRow(w) \/ DeleteRow(w) \/ MissingRow(w) \/ RejectSource(w)
    \/ CreateRow(w) \/ Classify(w) \/ InsertRow(w) \/ InsertFails(w)
    \/ Persist(w) \/ PersistConstraint(w) \/ Reread(w) \/ Respond(w)

-----------------------------------------------------------------------------
(* The web application's writers: no version check, the last write wins. *)

\* create_transaction, create_budget: the server draws a fresh id.  A budget
\* whose scope is visibly taken is refused before anything is written.
WebCreate(p, e, u, v) ==
    /\ pc[p] = "idle"
    /\ started < MaxStarted
    /\ rows[e] = Nil
    /\ \A i \in DOMAIN journal : journal[i].ent # e
    /\ \A q \in Process : task[q] # Nil => task[q].ent # e
    /\ \A k \in Key : outcomes[k] # Nil => outcomes[k].req.ent # e
    /\ e \in Transaction => FixedOf[v] = Manual
    /\ ScopeHolders(e, u, v) = {}
    /\ task' = [task EXCEPT ![p] =
                  [ent |-> e, op |-> "create", owner |-> u, val |-> v]]
    /\ started' = started + 1
    /\ Goto(p, "insert")
    /\ UNCHANGED <<rows, journal, outcomes, advisory, lock, pending, reply>>

WebInsert(p) ==
    LET t == task[p] IN
    /\ pc[p] = "insert"
    /\ UncommittedRivals(p, t.ent, t.owner, t.val) = {}
    /\ IF CommittedRivals(t.ent, t.owner, t.val) = {}
       THEN /\ pending' = [pending EXCEPT ![p] =
                 [ent |-> t.ent, op |-> "upsert", owner |-> t.owner,
                  ver |-> 1, val |-> t.val, by |-> Nil]]
            /\ lock' = [lock EXCEPT ![t.ent] = p]
            /\ Goto(p, "commit")
            /\ UNCHANGED task
       ELSE /\ task' = [task EXCEPT ![p] = Nil]
            /\ Goto(p, "idle")
            /\ UNCHANGED <<lock, pending>>
    /\ UNCHANGED <<rows, journal, outcomes, advisory, reply, started>>

\* update_*, delete_*: the row is read without a lock.  An update whose
\* values equal the loaded ones is not sent to the database.
WebLoad(p, e, op, v) ==
    /\ pc[p] = "idle"
    /\ started < MaxStarted
    /\ rows[e] # Nil
    /\ op = "update" => /\ FixedOf[v] = FixedOf[rows[e].val]
                        /\ v # rows[e].val
    /\ task' = [task EXCEPT ![p] =
                  [ent |-> e, op |-> op, owner |-> rows[e].owner,
                   val |-> IF op = "update" THEN v ELSE Nil]]
    /\ started' = started + 1
    /\ Goto(p, "loaded")
    /\ UNCHANGED <<rows, journal, outcomes, advisory, lock, pending, reply>>

\* What an update leaves of the row it meets: it sets the columns of its
\* payload and never the fixed part, also when the row was deleted and created
\* again, with another fixed part, since it was read.
Written(t, old) ==
    IF t.op = "delete"
    THEN {Nil}
    ELSE {v \in Value : /\ FixedOf[v] = FixedOf[old.val]
                        /\ FixedOf[t.val] = FixedOf[old.val] => v = t.val}

\* The flush waits for the row lock; a row that is gone by then is an error.
WebWrite(p) ==
    LET t == task[p]
        old == rows[t.ent] IN
    /\ pc[p] = "loaded"
    /\ old # Nil => lock[t.ent] = Nil
    /\ IF old = Nil
       THEN /\ task' = [task EXCEPT ![p] = Nil]
            /\ Goto(p, "idle")
            /\ UNCHANGED <<lock, pending>>
       ELSE /\ lock' = [lock EXCEPT ![t.ent] = p]
            /\ \E v \in Written(t, old) :
                 pending' = [pending EXCEPT ![p] =
                   IF t.op = "update" /\ v = old.val
                   THEN Nil
                   ELSE [ent |-> t.ent,
                         op |-> IF t.op = "delete" THEN "delete" ELSE "upsert",
                         owner |-> old.owner, ver |-> old.ver + 1,
                         val |-> v, by |-> Nil]]
            /\ Goto(p, "commit")
            /\ UNCHANGED task
    /\ UNCHANGED <<rows, journal, outcomes, advisory, reply, started>>

\* Commit, or a database error that rolls the write back.
WebEnd(p) ==
    /\ pc[p] = "commit"
    /\ Publish(p) \/ UNCHANGED <<rows, journal>>
    /\ task' = [task EXCEPT ![p] = Nil]
    /\ Goto(p, "idle")
    /\ Release(p)
    /\ UNCHANGED <<outcomes, reply, started>>

WebStep(p) == WebInsert(p) \/ WebWrite(p) \/ WebEnd(p)

WebStart(p) ==
    \/ \E e \in Entity, u \in User, v \in Value : WebCreate(p, e, u, v)
    \/ \E e \in Entity, v \in Value : WebLoad(p, e, "update", v)
    \/ \E e \in Entity : WebLoad(p, e, "delete", Nil)

-----------------------------------------------------------------------------
\* Nothing in flight and nothing more to start: the server waits.
Rest ==
    /\ started = MaxStarted
    /\ \A p \in Process : pc[p] = "idle"
    /\ UNCHANGED vars

Next ==
    \/ \E w \in Worker : \/ \E r \in Request : Receive(w, r)
                         \/ PushStep(w)
                         \/ Fail(w)
    \/ \E p \in Web : WebStart(p) \/ WebStep(p)
    \/ Rest

\* A thread that can take its next database step takes it; failures and new
\* requests are never forced.
Fairness ==
    /\ \A w \in Worker : WF_vars(PushStep(w))
    /\ \A p \in Web : WF_vars(WebStep(p))

Spec == Init /\ [][Next]_vars

FairSpec == Spec /\ Fairness

-----------------------------------------------------------------------------
(* Properties *)

TypeOK ==
    /\ rows \in [Entity -> Row \cup {Nil}]
    /\ journal \in Seq(Change)
    /\ outcomes \in [Key -> Outcome \cup {Nil}]
    /\ advisory \in [Key -> Worker \cup {Nil}]
    /\ lock \in [Entity -> Process \cup {Nil}]
    /\ pc \in [Process -> WorkerPC \cup WebPC]
    /\ \A w \in Worker :
         /\ pc[w] \in WorkerPC
         /\ task[w] \in Request \cup {Nil}
         /\ task[w] = Nil <=> pc[w] = "idle"
    /\ \A p \in Web :
         /\ pc[p] \in WebPC
         /\ task[p] \in Task \cup {Nil}
         /\ task[p] = Nil <=> pc[p] = "idle"
    /\ DOMAIN task = Process
    /\ pending \in [Process -> Change \cup {Nil}]
    /\ reply \in [Worker -> Result \cup {Nil}]
    /\ started \in 0..MaxStarted

\* The server implements the versioned store: whatever the locks, the
\* retries and the rolled-back transactions do, every committed step is an
\* atomic Apply, Refuse or External of VersionedStore.  In particular a
\* pushed mutation never overwrites a version other than its base, and an
\* outcome never changes once it is stored.
Store == INSTANCE VersionedStore WITH
    outcomes <- [k \in Key |->
        IF outcomes[k] = Nil
        THEN Nil
        ELSE [req |-> outcomes[k].req, status |-> outcomes[k].res.status,
              ver |-> outcomes[k].res.ver]]

ImplementsStore == Store!Spec

\* The heart of the refinement.  From the moment a worker has accepted a
\* mutation until its transaction ends, the row lock keeps the row at the
\* base version the mutation named, so that what commits is what was checked;
\* and every uncommitted write, the web's included, is the next version of
\* the row it will replace.
WriteGuarded(p) ==
    pending[p] # Nil =>
        LET c == pending[p] IN
        /\ pc[p] \in {"persist", "commit"}
        /\ lock[c.ent] = p
        /\ c.op = "upsert" => c.val # Nil
        /\ IF rows[c.ent] = Nil
           THEN c.op = "upsert" /\ c.ver = 1
           ELSE c.owner = rows[c.ent].owner /\ c.ver = rows[c.ent].ver + 1

AcceptanceStands(w) ==
    LET r == task[w] IN
    /\ pc[w] = "locked" => rows[r.ent] # Nil /\ lock[r.ent] = w
    /\ pc[w] = "insert" => r.op = "upsert" /\ r.base = 0
    /\ pc[w] = "persist" =>
         /\ reply[w] # Nil
         /\ IF reply[w].status = "applied"
            THEN /\ lock[r.ent] = w
                 /\ Store!BaseMatches(r, rows[r.ent])
                 /\ reply[w].ver = Store!VersionAfter(r, rows[r.ent])
                 /\ IF pending[w] = Nil
                    THEN Store!RowAfter(r, rows[r.ent]) = rows[r.ent]
                    ELSE /\ pending[w].ent = r.ent
                         /\ RowOf(pending[w]) = Store!RowAfter(r, rows[r.ent])
            ELSE reply[w].status \in {"conflict", "rejected"} /\ pending[w] = Nil

LocksProtectWrites ==
    /\ \A p \in Process : WriteGuarded(p)
    /\ \A w \in Worker : AcceptanceStands(w)
    /\ \A e \in Entity :
         lock[e] # Nil /\ rows[e] = Nil =>
             pending[lock[e]] # Nil /\ pending[lock[e]].ent = e
    /\ \A p \in Web :
         /\ pc[p] = "insert" => task[p].op = "create"
         /\ pc[p] \in {"insert", "loaded"} =>
              (task[p].op = "delete" <=> task[p].val = Nil)

\* However often a mutation is sent, and whether or not its answer arrives,
\* the journal holds at most one entry written for it, and holds it exactly
\* when the stored outcome says applied (an update that changes nothing
\* writes none).  The outcome names the journaled version.
AppliedExactlyOnce ==
    \A k \in Key :
        LET written == {i \in DOMAIN journal : journal[i].by = k} IN
        /\ Cardinality(written) <= 1
        /\ \A i \in written :
             /\ outcomes[k] # Nil
             /\ outcomes[k].res = Answer("applied", "none", journal[i].ver)
             /\ outcomes[k].req.ent = journal[i].ent
        /\ (outcomes[k] # Nil /\ outcomes[k].res.status = "applied"
              /\ (outcomes[k].req.op = "delete" \/ outcomes[k].req.base = 0))
             => written # {}

\* Replaying the journal rebuilds the table: the last entry of an entity is
\* its row (or its absence), and the versions of one entity go up by one,
\* starting again at 1 after a tombstone.
JournalDescribesRows ==
    \A e \in Entity :
        LET mine == {i \in DOMAIN journal : journal[i].ent = e} IN
        /\ mine = {} => rows[e] = Nil
        /\ \A i \in mine :
             LET earlier == {j \in mine : j < i}
                 before == CHOOSE j \in earlier : \A m \in earlier : m <= j IN
             /\ (\A j \in mine : j <= i) => rows[e] = RowOf(journal[i])
             /\ journal[i].ver =
                  IF earlier = {} \/ journal[before].op = "delete"
                  THEN 1
                  ELSE journal[before].ver + 1

\* A worker that is about to answer a request says what the store has
\* recorded for exactly this request, also after it lost the race to record
\* an outcome of its own: every retry of a mutation gets the same answer.
\* The only other answer is to a key that was used for a different body.
ReplyIsRecorded ==
    \A w \in Worker :
        pc[w] = "done" =>
            LET o == outcomes[task[w].key] IN
            /\ o # Nil
            /\ IF o.req = task[w]
               THEN reply[w] \in {o.res, StoredAnswer(o)}
               ELSE reply[w].reason \in {"mutation_id_reused", "constraint_conflict"}

\* One budget per account, month and category, although both the push
\* handler and the web handler look for a rival before they insert and
\* another transaction may insert in between.
OneBudgetPerScope ==
    \A e, f \in Budget :
        /\ e # f
        /\ rows[e] # Nil
        /\ rows[f] # Nil
        /\ rows[e].owner = rows[f].owner
        => FixedOf[rows[e].val] # FixedOf[rows[f].val]

\* Locks, uncommitted rivals and rollbacks never leave a request waiting for
\* ever: it is answered, or its transaction fails.
EveryRequestAnswered ==
    \A w \in Worker : pc[w] = "lock" ~> pc[w] \in {"done", "idle"}
=============================================================================
