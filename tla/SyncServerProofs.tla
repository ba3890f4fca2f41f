--------------------------- MODULE SyncServerProofs ---------------------------
(***************************************************************************)
(* Theorems about SyncServer for any number of threads, accounts, entities *)
(* and requests.                                                           *)
(***************************************************************************)
EXTENDS SyncServer, FiniteSetTheorems, TLAPS

-----------------------------------------------------------------------------
(* Types *)

\* Facts about the constants in the form the steps need them.
LEMMA Constants ==
    /\ \A r \in Request :
         /\ r.key \in Key /\ r.ent \in Entity /\ OwnerOf[r.key] \in User
         /\ r.op \in {"upsert", "delete"} /\ r.base \in Nat
         /\ r.val \in Value \cup {Nil}
         /\ r.op = "upsert" <=> r.val \in Value
    /\ Nil \notin Row /\ Nil \notin Outcome /\ Nil \notin Result
    /\ Nil \notin Change /\ Nil \notin Task /\ Nil \notin Request
    /\ Nil \notin Process /\ Nil \notin Key /\ Nil \notin Value
    /\ Worker \cap Web = {}
    /\ Worker \subseteq Process /\ Web \subseteq Process
BY SyncServerAssumption DEF Process, RequestType

LEMMA AnswerType ==
    ASSUME NEW s \in {"applied", "duplicate", "conflict", "rejected"},
           NEW r \in Reason, NEW v \in Nat
    PROVE  Answer(s, r, v) \in Result
BY DEF Answer, Result

LEMMA StoredAnswerType ==
    ASSUME NEW o \in Outcome
    PROVE  StoredAnswer(o) \in Result
BY DEF StoredAnswer, Outcome, Result

LEMMA MissingAnswerType ==
    ASSUME NEW e, NEW u, journal \in Seq(Change)
    PROVE  MissingAnswer(e, u) \in Result
<1>1. CASE \E i \in LastChanges(e, u) : journal[i].op = "delete"
  <2>1. (CHOOSE i \in LastChanges(e, u) : TRUE) \in DOMAIN journal
        BY <1>1 DEF LastChanges
  <2>2. journal[CHOOSE i \in LastChanges(e, u) : TRUE] \in Change
        BY <2>1
  <2> QED  BY <1>1, <2>2 DEF MissingAnswer, Answer, Result, Change, Reason
<1>2. CASE ~ \E i \in LastChanges(e, u) : journal[i].op = "delete"
  BY <1>2 DEF MissingAnswer, Answer, Result, Reason
<1> QED  BY <1>1, <1>2

LEMMA ReleaseType ==
    ASSUME TypeOK, NEW p \in Process, Release(p)
    PROVE  /\ advisory' \in [Key -> Worker \cup {Nil}]
           /\ lock' \in [Entity -> Process \cup {Nil}]
           /\ pending' \in [Process -> Change \cup {Nil}]
BY DEF TypeOK, Release

\* The parts of TypeOK about one process, preserved when the others stand.
ProcessesOK ==
    /\ pc \in [Process -> WorkerPC \cup WebPC]
    /\ DOMAIN task = Process
    /\ \A w \in Worker :
         /\ pc[w] \in WorkerPC
         /\ task[w] \in Request \cup {Nil}
         /\ task[w] = Nil <=> pc[w] = "idle"
    /\ \A p \in Web :
         /\ pc[p] \in WebPC
         /\ task[p] \in Task \cup {Nil}
         /\ task[p] = Nil <=> pc[p] = "idle"

\* A worker that moves between two labels other than "idle" keeps its task.
LEMMA WorkerMoves ==
    ASSUME TypeOK, NEW w \in Worker, NEW l \in WorkerPC \ {"idle"},
           Goto(w, l), UNCHANGED task, pc[w] # "idle"
    PROVE  ProcessesOK'
BY Constants DEF TypeOK, ProcessesOK, Goto

LEMMA WorkerStops ==
    ASSUME TypeOK, NEW w \in Worker, Goto(w, "idle"),
           task' = [task EXCEPT ![w] = Nil]
    PROVE  ProcessesOK'
BY Constants DEF TypeOK, ProcessesOK, Goto, WorkerPC

LEMMA WebMoves ==
    ASSUME TypeOK, NEW p \in Web, NEW l \in WebPC \ {"idle"},
           Goto(p, l), UNCHANGED task, pc[p] # "idle"
    PROVE  ProcessesOK'
BY Constants DEF TypeOK, ProcessesOK, Goto

LEMMA WebStops ==
    ASSUME TypeOK, NEW p \in Web, Goto(p, "idle"),
           task' = [task EXCEPT ![p] = Nil]
    PROVE  ProcessesOK'
BY Constants DEF TypeOK, ProcessesOK, Goto, WebPC

LEMMA TypeSplit ==
    TypeOK <=>
        /\ ProcessesOK
        /\ rows \in [Entity -> Row \cup {Nil}]
        /\ journal \in Seq(Change)
        /\ outcomes \in [Key -> Outcome \cup {Nil}]
        /\ advisory \in [Key -> Worker \cup {Nil}]
        /\ lock \in [Entity -> Process \cup {Nil}]
        /\ pending \in [Process -> Change \cup {Nil}]
        /\ reply \in [Worker -> Result \cup {Nil}]
        /\ started \in 0..MaxStarted
BY DEF TypeOK, ProcessesOK

LEMMA TypeKept ==
    ASSUME ProcessesOK',
           rows' \in [Entity -> Row \cup {Nil}], journal' \in Seq(Change),
           outcomes' \in [Key -> Outcome \cup {Nil}],
           advisory' \in [Key -> Worker \cup {Nil}],
           lock' \in [Entity -> Process \cup {Nil}],
           pending' \in [Process -> Change \cup {Nil}],
           reply' \in [Worker -> Result \cup {Nil}],
           started' \in 0..MaxStarted
    PROVE  TypeOK'
BY DEF TypeOK, ProcessesOK

LEMMA DecideType ==
    ASSUME TypeOK, NEW w \in Worker, pc[w] # "idle", UNCHANGED task,
           NEW answer \in Result, Decide(w, answer)
    PROVE  ProcessesOK' /\ reply' \in [Worker -> Result \cup {Nil}]
<1>1. Goto(w, "persist")
  BY DEF Decide
<1>2. ProcessesOK'
  BY <1>1, WorkerMoves DEF WorkerPC
<1> QED  BY <1>2 DEF Decide, TypeOK

\* A worker that is not idle has a request.
LEMMA Busy ==
    ASSUME TypeOK, NEW w \in Worker, pc[w] # "idle"
    PROVE  /\ task[w] \in Request
           /\ task[w].key \in Key /\ task[w].ent \in Entity
           /\ OwnerOf[task[w].key] \in User
           /\ task[w].op \in {"upsert", "delete"} /\ task[w].base \in Nat
           /\ task[w].val \in Value \cup {Nil}
           /\ task[w].op = "upsert" <=> task[w].val \in Value
           /\ w \in Process
<1>1. task[w] \in Request
  BY DEF TypeOK
<1> QED  BY <1>1, Constants

LEMMA BusyWeb ==
    ASSUME TypeOK, NEW p \in Web, pc[p] # "idle"
    PROVE  /\ task[p] \in Task
           /\ task[p].ent \in Entity /\ task[p].owner \in User
           /\ task[p].op \in {"create", "update", "delete"}
           /\ task[p].val \in Value \cup {Nil}
           /\ p \in Process
<1>1. task[p] \in Task
  BY DEF TypeOK
<1> QED  BY <1>1, Constants DEF Task

\* What a push worker's write looks like, update or delete.
LEMMA NextVersionType ==
    ASSUME TypeOK, NEW e \in Entity, rows[e] # Nil, NEW op \in {"upsert", "delete"},
           NEW v \in Value \cup {Nil}, NEW k \in Key \cup {Nil}
    PROVE  /\ [ent |-> e, op |-> op, owner |-> rows[e].owner,
               ver |-> rows[e].ver + 1, val |-> v, by |-> k] \in Change
           /\ rows[e].ver \in Nat /\ rows[e].ver # 0 /\ rows[e].owner \in User
           /\ rows[e].val \in Value
BY DEF TypeOK, Change, Row

LEMMA FirstVersionType ==
    ASSUME NEW e \in Entity, NEW u \in User, NEW v \in Value, NEW k \in Key \cup {Nil}
    PROVE  [ent |-> e, op |-> "upsert", owner |-> u, ver |-> 1, val |-> v,
            by |-> k] \in Change
BY DEF Change

\* Committing a well-formed write.
LEMMA PublishType ==
    ASSUME TypeOK, NEW p \in Process, Publish(p),
           pending[p] # Nil => (pending[p].op = "upsert" => pending[p].val # Nil)
    PROVE  rows' \in [Entity -> Row \cup {Nil}] /\ journal' \in Seq(Change)
<1>1. CASE pending[p] = Nil
  BY <1>1 DEF Publish, TypeOK
<1>2. CASE pending[p] # Nil
  <2>1. pending[p] \in Change
    BY <1>2 DEF TypeOK
  <2>2. RowOf(pending[p]) \in Row \cup {Nil}
    BY <2>1, <1>2 DEF RowOf, Change, Row
  <2>3. rows' = [rows EXCEPT ![pending[p].ent] = RowOf(pending[p])]
        /\ journal' = Append(journal, pending[p])
    BY <1>2 DEF Publish
  <2>4. rows' \in [Entity -> Row \cup {Nil}]
    BY <2>2, <2>3 DEF TypeOK
  <2>5. journal' \in Seq(Change)
    BY <2>1, <2>3 DEF TypeOK
  <2> QED  BY <2>4, <2>5
<1> QED  BY <1>1, <1>2

-----------------------------------------------------------------------------
(* The inductive invariant *)

IInv == TypeOK /\ LocksProtectWrites

\* A process that is not about to commit has nothing uncommitted.
LEMMA NothingPending ==
    ASSUME IInv, NEW p \in Process, pc[p] \notin {"persist", "commit"}
    PROVE  pending[p] = Nil
BY DEF IInv, LocksProtectWrites, WriteGuarded

\* The claim of LocksProtectWrites about the task of a web writer.
WebTaskShaped(p) ==
    /\ pc[p] = "insert" => task[p].op = "create"
    /\ pc[p] \in {"insert", "loaded"} =>
         (task[p].op = "delete" <=> task[p].val = Nil)

\* A step of p inside its transaction: it takes free locks only, writes
\* nothing that is committed, and establishes what it claims about itself.
LEMMA StepInTransaction ==
    ASSUME IInv, NEW p \in Process, NEW l, Goto(p, l), UNCHANGED rows,
           \A q \in Process \ {p} : task'[q] = task[q] /\ pending'[q] = pending[q],
           \A v \in Worker \ {p} : reply'[v] = reply[v],
           pending[p] # Nil => pending'[p] = pending[p],
           \A e \in Entity :
             \/ lock'[e] = lock[e]
             \/ /\ lock[e] = Nil
                /\ lock'[e] = p
                /\ rows[e] # Nil \/ (pending'[p] # Nil /\ pending'[p].ent = e),
           WriteGuarded(p)',
           p \in Worker => AcceptanceStands(p)',
           p \in Web => WebTaskShaped(p)'
    PROVE  LocksProtectWrites'
<1>1. \A q \in Process \ {p} : pc'[q] = pc[q]
  BY DEF Goto, IInv, TypeOK
<1>2. Web \subseteq Process /\ Worker \subseteq Process /\ Nil \notin Process
  BY Constants
<1>3. \A e \in Entity, q \in Process : lock[e] = q => lock'[e] = q
  BY <1>2
<1>4. ASSUME NEW q \in Process PROVE WriteGuarded(q)'
  <2>1. CASE q # p
    <3>1. WriteGuarded(q)
      BY DEF IInv, LocksProtectWrites
    <3>2. pending[q] # Nil => pending[q].ent \in Entity
      BY DEF IInv, TypeOK, Change
    <3> QED  BY <3>1, <3>2, <2>1, <1>1, <1>3 DEF WriteGuarded
  <2> QED  BY <2>1
<1>5. ASSUME NEW v \in Worker PROVE AcceptanceStands(v)'
  <2>1. CASE v # p
    <3>1. AcceptanceStands(v) /\ v \in Process
      BY <1>2 DEF IInv, LocksProtectWrites
    <3>2. pc'[v] = pc[v] /\ task'[v] = task[v] /\ reply'[v] = reply[v]
          /\ pending'[v] = pending[v]
      BY <2>1, <3>1, <1>1
    <3>3. pc[v] # "idle" => task[v].ent \in Entity
      BY Busy DEF IInv
    <3>4. pc[v] # "idle" /\ lock[task[v].ent] = v => lock'[task[v].ent] = v
      BY <3>3, <3>1, <1>3
    <3> QED  BY <3>1, <3>2, <3>4 DEF AcceptanceStands
  <2> QED  BY <2>1
<1>6. ASSUME NEW e \in Entity, lock'[e] # Nil, rows'[e] = Nil
      PROVE pending'[lock'[e]] # Nil /\ pending'[lock'[e]].ent = e
  <2>1. CASE lock'[e] = lock[e]
    <3>1. lock[e] \in Process /\ pending[lock[e]] # Nil /\ pending[lock[e]].ent = e
      BY <2>1, <1>6 DEF IInv, LocksProtectWrites, TypeOK
    <3> QED  BY <2>1, <3>1
  <2>2. CASE lock'[e] # lock[e]
    BY <2>2, <1>6
  <2> QED  BY <2>1, <2>2
<1>7. ASSUME NEW q \in Web PROVE WebTaskShaped(q)'
  BY <1>1, <1>2 DEF IInv, LocksProtectWrites, WebTaskShaped
<1> QED  BY <1>4, <1>5, <1>6, <1>7 DEF LocksProtectWrites, WebTaskShaped

\* The end of a transaction, by commit or rollback: only rows the process
\* had locked can have changed, so the claims of the others stand, and no
\* lock stays behind on a row that does not exist.
LEMMA EndOfTransaction ==
    ASSUME IInv, NEW p \in Process, NEW l, Goto(p, l), Release(p),
           \A e \in Entity : lock[e] # p => rows'[e] = rows[e],
           l \notin {"locked", "persist", "insert", "loaded", "commit"},
           \A q \in Process \ {p} : task'[q] = task[q],
           \A v \in Worker \ {p} : reply'[v] = reply[v]
    PROVE  LocksProtectWrites'
<1>1. \A q \in Process \ {p} : pc'[q] = pc[q] /\ pending'[q] = pending[q]
  BY DEF Goto, Release, IInv, TypeOK
<1>2. pc'[p] = l /\ pending'[p] = Nil
  BY DEF Goto, Release, IInv, TypeOK
<1>3. \A e \in Entity, q \in Process \ {p} :
          lock[e] = q => lock'[e] = q /\ rows'[e] = rows[e]
  BY DEF Release
<1>4. \A e \in Entity : lock'[e] # Nil => lock'[e] = lock[e] /\ lock[e] # p
  BY DEF Release
<1>5. Web \subseteq Process /\ Worker \subseteq Process
  BY Constants
<1>6. ASSUME NEW q \in Process PROVE WriteGuarded(q)'
  <2>1. CASE q = p
    BY <2>1, <1>2 DEF WriteGuarded
  <2>2. CASE q # p
    <3>1. WriteGuarded(q)
      BY DEF IInv, LocksProtectWrites
    <3>2. pending[q] # Nil => pending[q].ent \in Entity
      BY DEF IInv, TypeOK, Change
    <3> QED  BY <3>1, <3>2, <2>2, <1>1, <1>3 DEF WriteGuarded
  <2> QED  BY <2>1, <2>2
<1>7. ASSUME NEW v \in Worker PROVE AcceptanceStands(v)'
  <2>1. CASE v = p
    BY <2>1, <1>2 DEF AcceptanceStands
  <2>2. CASE v # p
    <3>1. AcceptanceStands(v) /\ v \in Process
      BY <1>5 DEF IInv, LocksProtectWrites
    <3>2. pc'[v] = pc[v] /\ task'[v] = task[v] /\ reply'[v] = reply[v]
          /\ pending'[v] = pending[v]
      BY <2>2, <3>1, <1>1
    <3>3. pc[v] # "idle" => task[v].ent \in Entity
      BY Busy DEF IInv
    <3>4. pc[v] # "idle" /\ lock[task[v].ent] = v =>
            lock'[task[v].ent] = v /\ rows'[task[v].ent] = rows[task[v].ent]
      BY <3>3, <3>1, <2>2, <1>3
    <3> QED  BY <3>1, <3>2, <3>4 DEF AcceptanceStands
  <2> QED  BY <2>1, <2>2
<1>8. ASSUME NEW e \in Entity, lock'[e] # Nil, rows'[e] = Nil
      PROVE pending'[lock'[e]] # Nil /\ pending'[lock'[e]].ent = e
  <2>1. lock'[e] = lock[e] /\ lock[e] # p /\ lock[e] # Nil /\ lock[e] \in Process
    BY <1>4, <1>8 DEF IInv, TypeOK
  <2> QED  BY <2>1, <1>1, <1>8 DEF IInv, LocksProtectWrites
<1>9. ASSUME NEW q \in Web PROVE WebTaskShaped(q)'
  BY <1>1, <1>2, <1>5 DEF IInv, LocksProtectWrites, WebTaskShaped
<1> QED  BY <1>6, <1>7, <1>8, <1>9 DEF LocksProtectWrites, WebTaskShaped

\* A commit changes only the row the process wrote, which it has locked.
LEMMA PublishLocked ==
    ASSUME IInv, NEW p \in Process, Publish(p)
    PROVE  /\ \A e \in Entity : lock[e] # p => rows'[e] = rows[e]
           /\ rows' \in [Entity -> Row \cup {Nil}] /\ journal' \in Seq(Change)
<1>1. WriteGuarded(p)
  BY DEF IInv, LocksProtectWrites
<1>2. ASSUME NEW e \in Entity, lock[e] # p PROVE rows'[e] = rows[e]
  BY <1>1, <1>2 DEF Publish, WriteGuarded, IInv, TypeOK
<1>3. rows' \in [Entity -> Row \cup {Nil}] /\ journal' \in Seq(Change)
  BY <1>1, PublishType DEF WriteGuarded, IInv
<1> QED  BY <1>2, <1>3

\* Labels at which a worker claims nothing about rows and locks.
Unclaimed == WorkerPC \ {"idle", "locked", "persist"}

\* A worker goes on to a label without a claim; it takes no lock.
LEMMA WorkerGoesOn ==
    ASSUME IInv, NEW w \in Worker, NEW l \in Unclaimed, Goto(w, l),
           pc[w] \notin {"idle", "persist"},
           l = "insert" => task[w].op = "upsert" /\ task[w].base = 0,
           UNCHANGED <<rows, journal, lock, task, pending, started>>,
           outcomes' \in [Key -> Outcome \cup {Nil}],
           advisory' \in [Key -> Worker \cup {Nil}],
           reply' \in [Worker -> Result \cup {Nil}],
           \A v \in Worker \ {w} : reply'[v] = reply[v]
    PROVE  IInv'
<1>1. TypeOK /\ w \in Process /\ w \notin Web /\ l \in WorkerPC \ {"idle"}
  BY Constants DEF IInv, Unclaimed
<1>2. ProcessesOK'
  BY <1>1, WorkerMoves
<1>3. TypeOK'
  BY <1>1, <1>2, TypeSplit, TypeKept
<1>4. pending[w] = Nil
  BY <1>1, NothingPending DEF TypeOK, WorkerPC
<1>5. WriteGuarded(w)'
  BY <1>4 DEF WriteGuarded
<1>6. pc'[w] = l
  BY <1>1 DEF Goto, TypeOK
<1>7. AcceptanceStands(w)'
  BY <1>6 DEF AcceptanceStands, Unclaimed
<1>8. LocksProtectWrites'
  BY <1>1, <1>4, <1>5, <1>7, StepInTransaction
<1> QED  BY <1>3, <1>8 DEF IInv

\* A worker decides to answer with a conflict or a rejection.
LEMMA WorkerRefuses ==
    ASSUME IInv, NEW w \in Worker, pc[w] \notin {"idle", "persist"},
           NEW answer \in Result, answer.status \in {"conflict", "rejected"},
           Decide(w, answer),
           UNCHANGED <<rows, journal, outcomes, advisory, lock, task, pending,
                       started>>
    PROVE  IInv'
<1>1. TypeOK /\ w \in Process /\ w \notin Web /\ Nil \notin Result
  BY Constants DEF IInv
<1>2. ProcessesOK' /\ reply' \in [Worker -> Result \cup {Nil}]
  BY <1>1, DecideType
<1>3. TypeOK'
  BY <1>1, <1>2, TypeSplit, TypeKept
<1>4. pending[w] = Nil
  BY <1>1, NothingPending DEF TypeOK, WorkerPC
<1>5. WriteGuarded(w)'
  BY <1>4 DEF WriteGuarded
<1>6. Goto(w, "persist") /\ pc'[w] = "persist" /\ reply'[w] = answer
      /\ \A v \in Worker \ {w} : reply'[v] = reply[v]
  BY <1>1 DEF Decide, Goto, TypeOK
<1>7. AcceptanceStands(w)'
  BY <1>1, <1>4, <1>6 DEF AcceptanceStands
<1>8. LocksProtectWrites'
  BY <1>1, <1>4, <1>5, <1>6, <1>7, StepInTransaction
<1> QED  BY <1>3, <1>8 DEF IInv

\* A worker accepts its mutation with the row locked and the write, if there
\* is one, prepared.
LEMMA WorkerAccepts ==
    ASSUME IInv, NEW w \in Worker, pc[w] \in {"locked", "insert"},
           NEW ver \in Nat, Decide(w, Answer("applied", "none", ver)),
           UNCHANGED <<rows, journal, outcomes, advisory, task, started>>,
           pending' \in [Process -> Change \cup {Nil}],
           \A q \in Process \ {w} : pending'[q] = pending[q],
           lock' \in [Entity -> Process \cup {Nil}],
           \A e \in Entity :
             \/ lock'[e] = lock[e]
             \/ /\ lock[e] = Nil
                /\ lock'[e] = w
                /\ rows[e] # Nil \/ (pending'[w] # Nil /\ pending'[w].ent = e),
           lock'[task[w].ent] = w,
           Store!BaseMatches(task[w], rows[task[w].ent]),
           ver = Store!VersionAfter(task[w], rows[task[w].ent]),
           IF pending'[w] = Nil
           THEN Store!RowAfter(task[w], rows[task[w].ent]) = rows[task[w].ent]
           ELSE /\ pending'[w].ent = task[w].ent
                /\ RowOf(pending'[w]) = Store!RowAfter(task[w], rows[task[w].ent])
                /\ pending'[w].op = "upsert" => pending'[w].val # Nil
                /\ IF rows[task[w].ent] = Nil
                   THEN pending'[w].op = "upsert" /\ pending'[w].ver = 1
                   ELSE /\ pending'[w].owner = rows[task[w].ent].owner
                        /\ pending'[w].ver = rows[task[w].ent].ver + 1
    PROVE  IInv'
<1>1. TypeOK /\ w \in Process /\ w \notin Web /\ Nil \notin Result
  BY Constants DEF IInv
<1>2. Answer("applied", "none", ver) \in Result
  BY AnswerType DEF Reason
<1>3. ProcessesOK' /\ reply' \in [Worker -> Result \cup {Nil}]
  BY <1>1, <1>2, DecideType
<1>4. TypeOK'
  BY <1>1, <1>3, TypeSplit, TypeKept
<1>5. pending[w] = Nil
  BY <1>1, NothingPending
<1>6. Goto(w, "persist") /\ pc'[w] = "persist"
      /\ reply'[w] = Answer("applied", "none", ver)
      /\ \A v \in Worker \ {w} : reply'[v] = reply[v]
  BY <1>1 DEF Decide, Goto, TypeOK
<1>7. reply'[w] # Nil /\ reply'[w].status = "applied" /\ reply'[w].ver = ver
  BY <1>1, <1>2, <1>6 DEF Answer
<1>8. WriteGuarded(w)'
  BY <1>6 DEF WriteGuarded
<1>9. AcceptanceStands(w)'
  BY <1>6, <1>7 DEF AcceptanceStands
<1>10. LocksProtectWrites'
  BY <1>1, <1>5, <1>6, <1>8, <1>9, StepInTransaction
<1> QED  BY <1>4, <1>10 DEF IInv

\* A process ends its transaction.
LEMMA WorkerEnds ==
    ASSUME IInv, NEW w \in Worker, NEW l \in {"done", "constraint"}, Goto(w, l),
           pc[w] # "idle", Release(w), UNCHANGED <<task, started>>,
           Publish(w) \/ UNCHANGED <<rows, journal>>,
           outcomes' \in [Key -> Outcome \cup {Nil}],
           reply' \in [Worker -> Result \cup {Nil}],
           \A v \in Worker \ {w} : reply'[v] = reply[v]
    PROVE  IInv'
<1>1. TypeOK /\ w \in Process /\ l \in WorkerPC \ {"idle"}
  BY Constants DEF IInv, WorkerPC
<1>2. ProcessesOK'
  BY <1>1, WorkerMoves
<1>3. /\ \A e \in Entity : lock[e] # w => rows'[e] = rows[e]
      /\ rows' \in [Entity -> Row \cup {Nil}] /\ journal' \in Seq(Change)
  BY <1>1, PublishLocked DEF TypeOK
<1>4. /\ advisory' \in [Key -> Worker \cup {Nil}]
      /\ lock' \in [Entity -> Process \cup {Nil}]
      /\ pending' \in [Process -> Change \cup {Nil}]
  BY <1>1, ReleaseType
<1>5. TypeOK'
  BY <1>1, <1>2, <1>3, <1>4, TypeSplit, TypeKept
<1>6. LocksProtectWrites'
  BY <1>1, <1>3, EndOfTransaction
<1> QED  BY <1>5, <1>6 DEF IInv

-----------------------------------------------------------------------------
(* The steps of a push worker *)

LEMMA InitOK == Init => IInv
<1> SUFFICES ASSUME Init PROVE IInv
  OBVIOUS
<1>1. TypeOK
  BY Constants, SyncServerAssumption DEF Init, TypeOK, WorkerPC, WebPC
<1>2. LocksProtectWrites
  BY Constants DEF Init, LocksProtectWrites, WriteGuarded, AcceptanceStands
<1> QED  BY <1>1, <1>2 DEF IInv

LEMMA ReceiveOK ==
    ASSUME IInv, NEW w \in Worker, NEW r \in Request, Receive(w, r)
    PROVE  IInv'
<1>1. TypeOK /\ w \in Process /\ w \notin Web /\ Nil \notin Request
  BY Constants DEF IInv
<1>2. /\ Goto(w, "lock") /\ pc[w] = "idle" /\ pc'[w] = "lock"
      /\ task' = [task EXCEPT ![w] = r] /\ reply' = [reply EXCEPT ![w] = Nil]
      /\ \A q \in Process \ {w} : task'[q] = task[q] /\ pending'[q] = pending[q]
      /\ \A v \in Worker \ {w} : reply'[v] = reply[v]
  BY <1>1 DEF Receive, Goto, TypeOK
<1>3. ProcessesOK'
  BY <1>1, <1>2, Constants DEF TypeOK, ProcessesOK, Goto, WorkerPC
<1>4. started' \in 0..MaxStarted /\ reply' \in [Worker -> Result \cup {Nil}]
  BY <1>1, SyncServerAssumption DEF Receive, TypeOK
<1>5. UNCHANGED <<rows, journal, outcomes, advisory, lock, pending>>
  BY DEF Receive
<1>6. TypeOK'
  BY <1>1, <1>3, <1>4, <1>5, TypeSplit, TypeKept
<1>7. pending[w] = Nil
  BY <1>1, <1>2, NothingPending
<1>8. WriteGuarded(w)' /\ AcceptanceStands(w)'
  BY <1>2, <1>5, <1>7 DEF WriteGuarded, AcceptanceStands
<1>9. LocksProtectWrites'
  BY <1>1, <1>2, <1>5, <1>7, <1>8, StepInTransaction
<1> QED  BY <1>6, <1>9 DEF IInv

\* The steps that look things up and take no row lock.
LEMMA LookOK ==
    ASSUME IInv, NEW w \in Worker,
           \/ AcquireAdvisory(w) \/ LookupMiss(w) \/ MissingRow(w) \/ CreateRow(w)
           \/ ForeignRow(w) /\ task[w].op = "delete"
    PROVE  IInv'
<1>1. TypeOK
  BY DEF IInv
<1>2. pc[w] # "idle" => task[w].key \in Key
  BY <1>1, Busy
<1>3. CASE AcquireAdvisory(w)
  <2>1. advisory' \in [Key -> Worker \cup {Nil}]
    BY <1>1, <1>2, <1>3 DEF AcquireAdvisory, TypeOK
  <2> QED  BY <1>1, <1>3, <2>1, WorkerGoesOn, TypeSplit
           DEF AcquireAdvisory, Unclaimed, WorkerPC
<1>4. CASE LookupMiss(w)
  BY <1>1, <1>4, WorkerGoesOn, TypeSplit DEF LookupMiss, Unclaimed, WorkerPC
<1>5. CASE MissingRow(w)
  BY <1>1, <1>5, WorkerGoesOn, TypeSplit DEF MissingRow, Unclaimed, WorkerPC
<1>6. CASE CreateRow(w)
  BY <1>1, <1>6, WorkerGoesOn, TypeSplit DEF CreateRow, Unclaimed, WorkerPC
<1>7. CASE ForeignRow(w) /\ task[w].op = "delete"
  BY <1>1, <1>7, WorkerGoesOn, TypeSplit DEF ForeignRow, Unclaimed, WorkerPC
<1> QED  BY <1>3, <1>4, <1>5, <1>6, <1>7

LEMMA SelectOK ==
    ASSUME IInv, NEW w \in Worker, SelectForUpdate(w)
    PROVE  IInv'
<1> DEFINE e == task[w].ent
<1>1. TypeOK /\ w \in Process /\ w \notin Web /\ pc[w] = "select"
  BY Constants DEF IInv, SelectForUpdate
<1>2. e \in Entity
  BY <1>1, Busy
<1>3. pending[w] = Nil
  BY <1>1, NothingPending
<1>4. UNCHANGED <<rows, journal, outcomes, advisory, task, pending, reply, started>>
  BY DEF SelectForUpdate
<1>5. CASE rows[e] = Nil
  <2>1. Goto(w, "absent") /\ UNCHANGED lock
    BY <1>5 DEF SelectForUpdate
  <2> QED  BY <1>1, <1>4, <2>1, WorkerGoesOn, TypeSplit DEF Unclaimed, WorkerPC
<1>6. CASE rows[e] # Nil
  <2>1. Goto(w, "locked") /\ lock[e] = Nil /\ lock' = [lock EXCEPT ![e] = w]
    BY <1>6 DEF SelectForUpdate
  <2>2. pc'[w] = "locked" /\ lock'[e] = w
        /\ lock' \in [Entity -> Process \cup {Nil}]
        /\ \A f \in Entity : lock'[f] = lock[f] \/ (lock[f] = Nil /\ lock'[f] = w /\ f = e)
    BY <1>1, <1>2, <2>1 DEF Goto, TypeOK
  <2>3. ProcessesOK'
    BY <1>1, <1>4, <2>1, WorkerMoves DEF WorkerPC
  <2>4. TypeOK'
    BY <1>1, <1>4, <2>2, <2>3, TypeSplit, TypeKept
  <2>5. WriteGuarded(w)'
    BY <1>3, <1>4 DEF WriteGuarded
  <2>6. AcceptanceStands(w)'
    BY <1>4, <1>6, <2>2 DEF AcceptanceStands
  <2>7. LocksProtectWrites'
    BY <1>1, <1>3, <1>4, <1>6, <2>1, <2>2, <2>5, <2>6, StepInTransaction
  <2> QED  BY <2>4, <2>7 DEF IInv
<1> QED  BY <1>5, <1>6

LEMMA RefuseOK ==
    ASSUME IInv, NEW w \in Worker,
           \/ RejectCategory(w) \/ RejectScope(w) \/ StaleVersion(w)
           \/ RejectFixedPart(w) \/ RejectSource(w) \/ Classify(w)
           \/ ForeignRow(w) /\ task[w].op # "delete"
    PROVE  IInv'
<1>1. TypeOK
  BY DEF IInv
<1>2. CASE RejectCategory(w)
  BY <1>2, AnswerType, WorkerRefuses DEF RejectCategory, Answer, Reason
<1>3. CASE RejectScope(w)
  BY <1>3, AnswerType, WorkerRefuses DEF RejectScope, Answer, Reason
<1>4. CASE StaleVersion(w)
  <2>1. task[w].ent \in Entity /\ rows[task[w].ent] # Nil
    BY <1>1, <1>4, Busy DEF StaleVersion, OwnRow, IInv, LocksProtectWrites,
                            AcceptanceStands
  <2>2. rows[task[w].ent].ver \in Nat
    BY <1>1, <2>1 DEF TypeOK, Row
  <2> DEFINE a == Answer("conflict", "stale_version", rows[task[w].ent].ver)
  <2>3. a \in Result /\ a.status = "conflict"
    BY <2>2, AnswerType DEF Answer, Reason
  <2> QED  BY <1>4, <2>3, WorkerRefuses DEF StaleVersion, OwnRow
<1>5. CASE RejectFixedPart(w)
  BY <1>5, AnswerType, WorkerRefuses DEF RejectFixedPart, OwnRow, Answer, Reason
<1>6. CASE RejectSource(w)
  BY <1>6, AnswerType, WorkerRefuses DEF RejectSource, Answer, Reason
<1>7. CASE Classify(w)
  <2> DEFINE a == MissingAnswer(task[w].ent, OwnerOf[task[w].key])
  <2>1. a \in Result /\ a.status = "conflict"
    BY <1>1, MissingAnswerType DEF MissingAnswer, Answer, TypeOK
  <2> QED  BY <1>7, <2>1, WorkerRefuses DEF Classify
<1>8. CASE ForeignRow(w) /\ task[w].op # "delete"
  BY <1>8, AnswerType, WorkerRefuses DEF ForeignRow, Answer, Reason
<1> QED  BY <1>2, <1>3, <1>4, <1>5, <1>6, <1>7, <1>8

\* The steps that accept a mutation: their write is the next version of the
\* row the worker has locked, or the first version of a row it inserts.
LEMMA UpdateOK ==
    ASSUME IInv, NEW w \in Worker, UpdateRow(w)
    PROVE  IInv'
<1> DEFINE e == task[w].ent
           old == rows[e]
           c == [ent |-> e, op |-> "upsert", owner |-> old.owner,
                 ver |-> old.ver + 1, val |-> task[w].val, by |-> task[w].key]
<1>1. TypeOK /\ pc[w] = "locked" /\ w \in Process /\ Nil \notin Change
      /\ Nil \notin Value
  BY Constants DEF IInv, UpdateRow, OwnRow
<1>2. e \in Entity /\ task[w].key \in Key /\ task[w].val \in Value
      /\ task[w].op = "upsert"
  BY <1>1, Busy DEF UpdateRow
<1>3. old # Nil /\ lock[e] = w
  BY <1>1 DEF IInv, LocksProtectWrites, AcceptanceStands
<1>4. c \in Change /\ old.ver \in Nat /\ old.ver # 0 /\ old.val \in Value
  BY <1>1, <1>2, <1>3, NextVersionType
<1>5. Store!BaseMatches(task[w], old)
  BY <1>3 DEF UpdateRow, OwnRow, Store!BaseMatches
<1>6. UNCHANGED <<rows, journal, outcomes, advisory, lock, task, started>>
  BY DEF UpdateRow
<1>7. lock' \in [Entity -> Process \cup {Nil}] /\ pending[w] = Nil
      /\ pending \in [Process -> Change \cup {Nil}]
  BY <1>1, <1>6, NothingPending DEF TypeOK
<1>8. CASE old.val = task[w].val
  <2>1. Decide(w, Answer("applied", "none", old.ver)) /\ UNCHANGED pending
    BY <1>8 DEF UpdateRow
  <2>2. Store!RowAfter(task[w], old) = old
        /\ old.ver = Store!VersionAfter(task[w], old)
    BY <1>2, <1>3, <1>8 DEF Store!RowAfter, Store!VersionAfter
  <2> QED  BY <1>1, <1>3, <1>4, <1>5, <1>6, <1>7, <2>1, <2>2, WorkerAccepts
<1>9. CASE old.val # task[w].val
  <2>1. /\ Decide(w, Answer("applied", "none", old.ver + 1))
        /\ pending' = [pending EXCEPT ![w] = c]
    BY <1>9 DEF UpdateRow
  <2>2. /\ pending' \in [Process -> Change \cup {Nil}] /\ pending'[w] = c
        /\ \A q \in Process \ {w} : pending'[q] = pending[q]
    BY <1>1, <1>4, <1>7, <2>1
  <2>3. RowOf(c) = Store!RowAfter(task[w], old)
        /\ old.ver + 1 = Store!VersionAfter(task[w], old)
    BY <1>2, <1>3, <1>9 DEF RowOf, Store!RowAfter, Store!VersionAfter
  <2>4. c # Nil /\ c.ent = e /\ c.op = "upsert" /\ c.val # Nil
        /\ c.owner = old.owner /\ c.ver = old.ver + 1
    BY <1>1, <1>2, <1>4
  <2>5. old.ver + 1 \in Nat
    BY <1>4
  <2> HIDE DEF c
  <2> QED  BY <1>1, <1>3, <1>5, <1>6, <1>7, <2>1, <2>2, <2>3, <2>4, <2>5,
              WorkerAccepts
<1> QED  BY <1>8, <1>9

LEMMA DeleteOK ==
    ASSUME IInv, NEW w \in Worker, DeleteRow(w)
    PROVE  IInv'
<1> DEFINE e == task[w].ent
           old == rows[e]
           c == [ent |-> e, op |-> "delete", owner |-> old.owner,
                 ver |-> old.ver + 1, val |-> Nil, by |-> task[w].key]
<1>1. TypeOK /\ pc[w] = "locked" /\ w \in Process /\ Nil \notin Change
  BY Constants DEF IInv, DeleteRow, OwnRow
<1>2. e \in Entity /\ task[w].key \in Key /\ task[w].op = "delete"
  BY <1>1, Busy DEF DeleteRow
<1>3. old # Nil /\ lock[e] = w
  BY <1>1 DEF IInv, LocksProtectWrites, AcceptanceStands
<1>4. c \in Change /\ old.ver \in Nat /\ old.ver # 0
  BY <1>1, <1>2, <1>3, NextVersionType
<1>5. Store!BaseMatches(task[w], old)
  BY <1>3 DEF DeleteRow, OwnRow, Store!BaseMatches
<1>6. UNCHANGED <<rows, journal, outcomes, advisory, lock, task, started>>
      /\ Decide(w, Answer("applied", "none", old.ver + 1))
      /\ pending' = [pending EXCEPT ![w] = c]
  BY DEF DeleteRow
<1>7. /\ lock' \in [Entity -> Process \cup {Nil}]
      /\ pending' \in [Process -> Change \cup {Nil}] /\ pending'[w] = c
      /\ \A q \in Process \ {w} : pending'[q] = pending[q]
  BY <1>1, <1>4, <1>6 DEF TypeOK
<1>8. RowOf(c) = Store!RowAfter(task[w], old)
      /\ old.ver + 1 = Store!VersionAfter(task[w], old)
  BY <1>2 DEF RowOf, Store!RowAfter, Store!VersionAfter
<1>9. c # Nil /\ c.ent = e /\ c.op = "delete"
      /\ c.owner = old.owner /\ c.ver = old.ver + 1 /\ old.ver + 1 \in Nat
  BY <1>1, <1>4
<1> HIDE DEF c
<1> QED  BY <1>1, <1>3, <1>5, <1>6, <1>7, <1>8, <1>9, WorkerAccepts

LEMMA InsertOK ==
    ASSUME IInv, NEW w \in Worker, InsertRow(w)
    PROVE  IInv'
<1> DEFINE e == task[w].ent
           u == OwnerOf[task[w].key]
           c == [ent |-> e, op |-> "upsert", owner |-> u, ver |-> 1,
                 val |-> task[w].val, by |-> task[w].key]
<1>1. TypeOK /\ pc[w] = "insert" /\ w \in Process /\ Nil \notin Change
      /\ Nil \notin Value
  BY Constants DEF IInv, InsertRow
<1>2. e \in Entity /\ u \in User /\ task[w].key \in Key
  BY <1>1, Busy
<1>3. task[w].op = "upsert" /\ task[w].base = 0 /\ task[w].val \in Value
  BY <1>1, <1>2, Busy DEF IInv, LocksProtectWrites, AcceptanceStands
<1>4. c \in Change
  BY <1>2, <1>3, FirstVersionType
<1>5. rows[e] = Nil
  BY <1>2 DEF InsertRow, CommittedRivals
<1>6. lock[e] = Nil
  <2>1. SUFFICES ASSUME lock[e] # Nil PROVE FALSE
    OBVIOUS
  <2>2. lock[e] \in Process /\ pending[lock[e]] # Nil /\ pending[lock[e]].ent = e
    BY <1>2, <1>5, <2>1 DEF IInv, LocksProtectWrites, TypeOK
  <2>3. pending[w] = Nil
    BY <1>1, NothingPending
  <2>4. lock[e] \in UncommittedRivals(w, e, u, task[w].val)
    BY <2>2, <2>3 DEF UncommittedRivals
  <2> QED  BY <2>4 DEF InsertRow
<1>7. Store!BaseMatches(task[w], rows[e])
  BY <1>3, <1>5 DEF Store!BaseMatches
<1>8. UNCHANGED <<rows, journal, outcomes, advisory, task, started>>
      /\ Decide(w, Answer("applied", "none", 1))
      /\ pending' = [pending EXCEPT ![w] = c]
      /\ lock' = [lock EXCEPT ![e] = w]
  BY DEF InsertRow
<1>9. c # Nil /\ c.ent = e /\ c.op = "upsert" /\ c.val # Nil /\ c.ver = 1
  BY <1>1, <1>3, <1>4
<1>10. /\ lock' \in [Entity -> Process \cup {Nil}] /\ lock'[e] = w
       /\ pending' \in [Process -> Change \cup {Nil}] /\ pending'[w] = c
       /\ \A q \in Process \ {w} : pending'[q] = pending[q]
       /\ \A f \in Entity : lock'[f] = lock[f] \/ f = e
  BY <1>1, <1>2, <1>4, <1>8 DEF TypeOK
<1>11. RowOf(c) = Store!RowAfter(task[w], rows[e])
       /\ 1 = Store!VersionAfter(task[w], rows[e])
  BY <1>3, <1>5 DEF RowOf, Store!RowAfter, Store!VersionAfter
<1> HIDE DEF c
<1> QED  BY <1>1, <1>5, <1>6, <1>7, <1>8, <1>9, <1>10, <1>11, WorkerAccepts

\* The steps that end a transaction.
LEMMA EndOK ==
    ASSUME IInv, NEW w \in Worker,
           AnswerStored(w) \/ InsertFails(w) \/ Persist(w)
    PROVE  IInv'
<1>1. TypeOK
  BY DEF IInv
<1>2. CASE AnswerStored(w)
  <2> DEFINE o == outcomes[task[w].key]
             a == IF o.req # task[w]
                  THEN Answer("rejected", "mutation_id_reused", 0)
                  ELSE StoredAnswer(o)
  <2>1. pc[w] = "lookup" /\ o # Nil /\ reply' = [reply EXCEPT ![w] = a]
    BY <1>2 DEF AnswerStored
  <2>2. o \in Outcome
    BY <1>1, <2>1, Busy DEF TypeOK
  <2>3. a \in Result
    BY <2>2, StoredAnswerType, AnswerType DEF Reason
  <2>4. reply' \in [Worker -> Result \cup {Nil}]
        /\ \A v \in Worker \ {w} : reply'[v] = reply[v]
    BY <1>1, <2>1, <2>3 DEF TypeOK
  <2> QED  BY <1>1, <1>2, <2>1, <2>4, WorkerEnds, TypeSplit DEF AnswerStored
<1>3. CASE InsertFails(w)
  BY <1>1, <1>3, WorkerEnds, TypeSplit DEF InsertFails
<1>4. CASE Persist(w)
  <2>1. /\ pc[w] = "persist" /\ Release(w) /\ UNCHANGED <<task, reply, started>>
        /\ task[w] \in Request /\ task[w].key \in Key
    BY <1>1, <1>4, Busy DEF Persist
  <2>2. CASE outcomes[task[w].key] # Nil
    BY <1>1, <1>4, <2>1, <2>2, WorkerEnds, TypeSplit DEF Persist
  <2>3. CASE outcomes[task[w].key] = Nil
    <3>1. reply[w] \in Result
      BY <1>1, <2>1 DEF IInv, LocksProtectWrites, AcceptanceStands, TypeOK
    <3>2. outcomes' \in [Key -> Outcome \cup {Nil}]
      BY <1>1, <1>4, <2>1, <2>3, <3>1 DEF Persist, TypeOK, Outcome
    <3> QED  BY <1>1, <1>4, <2>1, <2>3, <3>2, WorkerEnds, TypeSplit DEF Persist
  <2> QED  BY <2>2, <2>3
<1> QED  BY <1>2, <1>3, <1>4

LEMMA ConstraintOK ==
    ASSUME IInv, NEW w \in Worker, PersistConstraint(w) \/ Reread(w)
    PROVE  IInv'
<1>1. TypeOK
  BY DEF IInv
<1>2. CASE PersistConstraint(w)
  <2> DEFINE a == Answer("rejected", "constraint_conflict", 0)
  <2>1. a \in Result
    BY AnswerType DEF Reason
  <2>2. pc[w] = "constraint" /\ task[w] \in Request /\ task[w].key \in Key
        /\ reply' = [reply EXCEPT ![w] = a]
    BY <1>1, <1>2, Busy DEF PersistConstraint
  <2>3. reply' \in [Worker -> Result \cup {Nil}]
        /\ \A v \in Worker \ {w} : reply'[v] = reply[v]
    BY <1>1, <2>1, <2>2 DEF TypeOK
  <2>4. outcomes' \in [Key -> Outcome \cup {Nil}]
    BY <1>1, <1>2, <2>1, <2>2 DEF PersistConstraint, TypeOK, Outcome
  <2>5. Goto(w, "done") \/ Goto(w, "reread")
    BY <1>2 DEF PersistConstraint
  <2>6. UNCHANGED <<rows, journal, advisory, lock, task, pending, started>>
    BY <1>2 DEF PersistConstraint
  <2> QED  BY <1>1, <2>2, <2>3, <2>4, <2>5, <2>6, WorkerGoesOn, TypeSplit
           DEF Unclaimed, WorkerPC
<1>3. CASE Reread(w)
  <2> DEFINE o == outcomes[task[w].key]
  <2>1. pc[w] = "reread" /\ task[w].key \in Key
    BY <1>1, <1>3, Busy DEF Reread
  <2>2. o # Nil => StoredAnswer(o) \in Result
    BY <1>1, <2>1, StoredAnswerType DEF TypeOK
  <2>3. reply' \in [Worker -> Result \cup {Nil}]
        /\ \A v \in Worker \ {w} : reply'[v] = reply[v]
    BY <1>1, <1>3, <2>2 DEF Reread, TypeOK
  <2> QED  BY <1>1, <1>3, <2>1, <2>3, WorkerGoesOn, TypeSplit
           DEF Reread, Unclaimed, WorkerPC
<1> QED  BY <1>2, <1>3

\* The worker forgets the request, having answered it or failed.
LEMMA StopOK ==
    ASSUME IInv, NEW w \in Worker, Fail(w) \/ Respond(w)
    PROVE  IInv'
<1>1. TypeOK /\ w \in Process /\ w \notin Web
  BY Constants DEF IInv
<1>2. /\ Goto(w, "idle") /\ task' = [task EXCEPT ![w] = Nil]
      /\ reply' = [reply EXCEPT ![w] = Nil]
      /\ UNCHANGED <<rows, journal, outcomes, started>>
  BY DEF Fail, Respond
<1>3. /\ pc'[w] = "idle"
      /\ \A q \in Process \ {w} : task'[q] = task[q]
      /\ \A v \in Worker \ {w} : reply'[v] = reply[v]
      /\ reply' \in [Worker -> Result \cup {Nil}]
  BY <1>1, <1>2 DEF Goto, TypeOK
<1>4. ProcessesOK'
  BY <1>1, <1>2, WorkerStops
<1>5. CASE Fail(w)
  <2>1. Release(w)
    BY <1>5 DEF Fail
  <2>2. /\ advisory' \in [Key -> Worker \cup {Nil}]
        /\ lock' \in [Entity -> Process \cup {Nil}]
        /\ pending' \in [Process -> Change \cup {Nil}]
    BY <1>1, <2>1, ReleaseType
  <2>3. TypeOK'
    BY <1>1, <1>2, <1>3, <1>4, <2>2, TypeSplit, TypeKept
  <2>4. LocksProtectWrites'
    BY <1>1, <1>2, <1>3, <2>1, EndOfTransaction
  <2> QED  BY <2>3, <2>4 DEF IInv
<1>6. CASE Respond(w)
  <2>1. pc[w] = "done" /\ UNCHANGED <<advisory, lock, pending>>
    BY <1>6 DEF Respond
  <2>2. TypeOK'
    BY <1>1, <1>2, <1>3, <1>4, <2>1, TypeSplit, TypeKept
  <2>3. pending[w] = Nil
    BY <1>1, <2>1, NothingPending
  <2>4. WriteGuarded(w)' /\ AcceptanceStands(w)'
    BY <1>3, <2>1, <2>3 DEF WriteGuarded, AcceptanceStands
  <2>5. LocksProtectWrites'
    BY <1>1, <1>2, <1>3, <2>1, <2>3, <2>4, StepInTransaction
  <2> QED  BY <2>2, <2>5 DEF IInv
<1> QED  BY <1>5, <1>6

-----------------------------------------------------------------------------
(* The steps of a web writer *)

LEMMA WebStartOK ==
    ASSUME IInv, NEW p \in Web, WebStart(p)
    PROVE  IInv'
<1>1. TypeOK /\ p \in Process /\ p \notin Worker /\ Nil \notin Value
      /\ Nil \notin Task
  BY Constants DEF IInv
<1>2. PICK t \in Task, l \in {"insert", "loaded"} :
        /\ Goto(p, l) /\ task' = [task EXCEPT ![p] = t]
        /\ t.op = "delete" <=> t.val = Nil
        /\ l = "insert" => t.op = "create"
  <2>1. ASSUME NEW e \in Entity, NEW u \in User, NEW v \in Value,
               WebCreate(p, e, u, v)
        PROVE  \E t \in Task, l \in {"insert", "loaded"} :
                 /\ Goto(p, l) /\ task' = [task EXCEPT ![p] = t]
                 /\ t.op = "delete" <=> t.val = Nil
                 /\ l = "insert" => t.op = "create"
    <3> DEFINE t == [ent |-> e, op |-> "create", owner |-> u, val |-> v]
    <3>1. t \in Task /\ (t.op = "delete" <=> t.val = Nil)
      BY <1>1 DEF Task
    <3> QED  BY <2>1, <3>1 DEF WebCreate
  <2>2. ASSUME NEW e \in Entity, NEW op \in {"update", "delete"},
               NEW v \in Value \cup {Nil}, op = "update" => v \in Value,
               WebLoad(p, e, op, v)
        PROVE  \E t \in Task, l \in {"insert", "loaded"} :
                 /\ Goto(p, l) /\ task' = [task EXCEPT ![p] = t]
                 /\ t.op = "delete" <=> t.val = Nil
                 /\ l = "insert" => t.op = "create"
    <3> DEFINE t == [ent |-> e, op |-> op, owner |-> rows[e].owner,
                     val |-> IF op = "update" THEN v ELSE Nil]
    <3>1. rows[e] \in Row
      BY <1>1, <2>2 DEF WebLoad, TypeOK
    <3>2. t \in Task /\ (t.op = "delete" <=> t.val = Nil)
      BY <1>1, <2>2, <3>1 DEF Task, Row
    <3> QED  BY <2>2, <3>2 DEF WebLoad
  <2> QED  BY <2>1, <2>2 DEF WebStart
<1>3. /\ pc[p] = "idle" /\ started' = started + 1 /\ started < MaxStarted
      /\ UNCHANGED <<rows, journal, outcomes, advisory, lock, pending, reply>>
  BY DEF WebStart, WebCreate, WebLoad
<1>4. pc'[p] = l /\ task'[p] = t
      /\ \A q \in Process \ {p} : task'[q] = task[q] /\ pending'[q] = pending[q]
  BY <1>1, <1>2, <1>3 DEF Goto, TypeOK
<1>5. ProcessesOK'
  BY <1>1, <1>2, Constants DEF TypeOK, ProcessesOK, Goto, WebPC
<1>6. started' \in 0..MaxStarted
  BY <1>1, <1>3, SyncServerAssumption DEF TypeOK
<1>7. TypeOK'
  BY <1>1, <1>3, <1>5, <1>6, TypeSplit, TypeKept
<1>8. pending[p] = Nil
  BY <1>1, <1>3, NothingPending
<1>9. WriteGuarded(p)' /\ WebTaskShaped(p)'
  BY <1>2, <1>3, <1>4, <1>8 DEF WriteGuarded, WebTaskShaped
<1>10. LocksProtectWrites'
  BY <1>1, <1>2, <1>3, <1>4, <1>8, <1>9, StepInTransaction
<1> QED  BY <1>7, <1>10 DEF IInv

\* A web writer gives up before it has written: no lock, nothing uncommitted.
LEMMA WebGivesUp ==
    ASSUME IInv, NEW p \in Web, pc[p] \in {"insert", "loaded"}, Goto(p, "idle"),
           task' = [task EXCEPT ![p] = Nil],
           UNCHANGED <<rows, journal, outcomes, advisory, lock, pending, reply, started>>
    PROVE  IInv'
<1>1. TypeOK /\ p \in Process /\ p \notin Worker
  BY Constants DEF IInv
<1>2. /\ pc'[p] = "idle"
      /\ \A q \in Process \ {p} : task'[q] = task[q] /\ pending'[q] = pending[q]
  BY <1>1 DEF Goto, TypeOK
<1>3. ProcessesOK'
  BY <1>1, WebStops
<1>4. TypeOK'
  BY <1>1, <1>3, TypeSplit, TypeKept
<1>5. pending[p] = Nil
  BY <1>1, NothingPending
<1>6. WriteGuarded(p)' /\ WebTaskShaped(p)'
  BY <1>2, <1>5 DEF WriteGuarded, WebTaskShaped
<1>7. LocksProtectWrites'
  BY <1>1, <1>2, <1>5, <1>6, StepInTransaction
<1> QED  BY <1>4, <1>7 DEF IInv

\* A web writer's flush: it has the lock of the row it writes, if it writes.
LEMMA WebFlushes ==
    ASSUME IInv, NEW p \in Web, pc[p] \in {"insert", "loaded"}, Goto(p, "commit"),
           NEW e \in Entity, lock[e] = Nil, lock' = [lock EXCEPT ![e] = p],
           NEW c \in Change \cup {Nil}, pending' = [pending EXCEPT ![p] = c],
           UNCHANGED <<rows, journal, outcomes, advisory, task, reply, started>>,
           rows[e] = Nil => c # Nil,
           c # Nil =>
             /\ c.ent = e
             /\ c.op = "upsert" => c.val # Nil
             /\ IF rows[e] = Nil
                THEN c.op = "upsert" /\ c.ver = 1
                ELSE c.owner = rows[e].owner /\ c.ver = rows[e].ver + 1
    PROVE  IInv'
<1>1. TypeOK /\ p \in Process /\ p \notin Worker
  BY Constants DEF IInv
<1>2. /\ pc'[p] = "commit" /\ pending'[p] = c /\ lock'[e] = p
      /\ lock' \in [Entity -> Process \cup {Nil}]
      /\ pending' \in [Process -> Change \cup {Nil}]
      /\ \A q \in Process \ {p} : task'[q] = task[q] /\ pending'[q] = pending[q]
      /\ \A f \in Entity : lock'[f] = lock[f] \/ f = e
  BY <1>1 DEF Goto, TypeOK
<1>3. ProcessesOK'
  BY <1>1, WebMoves DEF WebPC
<1>4. TypeOK'
  BY <1>1, <1>2, <1>3, TypeSplit, TypeKept
<1>5. pending[p] = Nil
  BY <1>1, NothingPending
<1>6. WriteGuarded(p)' /\ WebTaskShaped(p)'
  BY <1>2 DEF WriteGuarded, WebTaskShaped
<1>7. LocksProtectWrites'
  BY <1>1, <1>2, <1>5, <1>6, StepInTransaction
<1> QED  BY <1>4, <1>7 DEF IInv

LEMMA WebInsertOK ==
    ASSUME IInv, NEW p \in Web, WebInsert(p)
    PROVE  IInv'
<1> DEFINE t == task[p]
           c == [ent |-> t.ent, op |-> "upsert", owner |-> t.owner, ver |-> 1,
                 val |-> t.val, by |-> Nil]
<1>1. TypeOK /\ pc[p] = "insert" /\ p \in Process
      /\ Nil \notin Change /\ Nil \notin Value
  BY Constants DEF IInv, WebInsert
<1>2. t.ent \in Entity /\ t.owner \in User /\ t.val \in Value \cup {Nil}
  BY <1>1, BusyWeb
<1>3. CASE CommittedRivals(t.ent, t.owner, t.val) # {}
  BY <1>1, <1>3, WebGivesUp DEF WebInsert
<1>4. CASE CommittedRivals(t.ent, t.owner, t.val) = {}
  <2>1. /\ Goto(p, "commit") /\ lock' = [lock EXCEPT ![t.ent] = p]
        /\ pending' = [pending EXCEPT ![p] = c]
        /\ UNCHANGED <<rows, journal, outcomes, advisory, task, reply, started>>
    BY <1>4 DEF WebInsert
  <2>2. rows[t.ent] = Nil
    BY <1>2, <1>4 DEF CommittedRivals
  <2>3. c \in Change
    BY <1>2 DEF Change
  <2>4. lock[t.ent] = Nil
    <3>1. SUFFICES ASSUME lock[t.ent] # Nil PROVE FALSE
      OBVIOUS
    <3>2. lock[t.ent] \in Process /\ pending[lock[t.ent]] # Nil
          /\ pending[lock[t.ent]].ent = t.ent
      BY <1>1, <1>2, <2>2, <3>1 DEF IInv, LocksProtectWrites, TypeOK
    <3>3. pending[p] = Nil
      BY <1>1, NothingPending
    <3>4. lock[t.ent] \in UncommittedRivals(p, t.ent, t.owner, t.val)
      BY <3>2, <3>3 DEF UncommittedRivals
    <3> QED  BY <3>4 DEF WebInsert
  <2>5. t.val # Nil
    BY <1>1 DEF IInv, LocksProtectWrites
  <2> QED  BY <1>1, <1>2, <2>1, <2>2, <2>3, <2>4, <2>5, WebFlushes
<1> QED  BY <1>3, <1>4

LEMMA WebWriteOK ==
    ASSUME IInv, NEW p \in Web, WebWrite(p)
    PROVE  IInv'
<1> DEFINE t == task[p]
           old == rows[t.ent]
           c(v) == IF t.op = "update" /\ v = old.val
                   THEN Nil
                   ELSE [ent |-> t.ent,
                         op |-> IF t.op = "delete" THEN "delete" ELSE "upsert",
                         owner |-> old.owner, ver |-> old.ver + 1,
                         val |-> v, by |-> Nil]
<1>1. TypeOK /\ pc[p] = "loaded" /\ p \in Process
      /\ Nil \notin Change /\ Nil \notin Value
  BY Constants DEF IInv, WebWrite
<1>2. t.ent \in Entity /\ t.val \in Value \cup {Nil}
  BY <1>1, BusyWeb
<1>3. CASE old = Nil
  BY <1>1, <1>3, WebGivesUp DEF WebWrite
<1>4. CASE old # Nil
  <2>1. /\ Goto(p, "commit") /\ lock' = [lock EXCEPT ![t.ent] = p]
        /\ lock[t.ent] = Nil
        /\ UNCHANGED <<rows, journal, outcomes, advisory, task, reply, started>>
    BY <1>4 DEF WebWrite
  <2>2. PICK v \in Written(t, old) : pending' = [pending EXCEPT ![p] = c(v)]
    BY <1>4 DEF WebWrite
  <2>3. v \in Value \cup {Nil} /\ (t.op # "delete" => v # Nil)
    BY <1>1 DEF Written
  <2>4. c(v) \in Change \cup {Nil}
    BY <1>1, <1>2, <1>4, <2>3, NextVersionType
  <2>5. c(v) # Nil =>
          /\ c(v).ent = t.ent
          /\ c(v).op = "upsert" => c(v).val # Nil
          /\ c(v).owner = old.owner /\ c(v).ver = old.ver + 1
    BY <2>3
  <2> HIDE DEF c
  <2> QED  BY <1>1, <1>2, <1>4, <2>1, <2>2, <2>4, <2>5, WebFlushes
<1> QED  BY <1>3, <1>4

LEMMA WebEndOK ==
    ASSUME IInv, NEW p \in Web, WebEnd(p)
    PROVE  IInv'
<1>1. TypeOK /\ p \in Process /\ p \notin Worker
  BY Constants DEF IInv
<1>2. /\ Goto(p, "idle") /\ Release(p) /\ task' = [task EXCEPT ![p] = Nil]
      /\ UNCHANGED <<outcomes, reply, started>>
      /\ Publish(p) \/ UNCHANGED <<rows, journal>>
  BY DEF WebEnd
<1>3. \A q \in Process \ {p} : task'[q] = task[q]
  BY <1>1, <1>2 DEF TypeOK
<1>4. /\ \A e \in Entity : lock[e] # p => rows'[e] = rows[e]
      /\ rows' \in [Entity -> Row \cup {Nil}] /\ journal' \in Seq(Change)
  BY <1>1, <1>2, PublishLocked DEF TypeOK
<1>5. ProcessesOK'
  BY <1>1, <1>2, WebStops
<1>6. /\ advisory' \in [Key -> Worker \cup {Nil}]
      /\ lock' \in [Entity -> Process \cup {Nil}]
      /\ pending' \in [Process -> Change \cup {Nil}]
  BY <1>1, <1>2, ReleaseType
<1>7. TypeOK'
  BY <1>1, <1>2, <1>4, <1>5, <1>6, TypeSplit, TypeKept
<1>8. LocksProtectWrites'
  BY <1>1, <1>2, <1>3, <1>4, EndOfTransaction
<1> QED  BY <1>7, <1>8 DEF IInv

-----------------------------------------------------------------------------
(* The theorems *)

LEMMA StepOK == IInv /\ [Next]_vars => IInv'
<1> SUFFICES ASSUME IInv, [Next]_vars PROVE IInv'
  OBVIOUS
<1>1. CASE UNCHANGED vars
  BY <1>1 DEF vars, IInv, TypeOK, LocksProtectWrites, WriteGuarded,
              AcceptanceStands
<1>2. ASSUME NEW w \in Worker, NEW r \in Request, Receive(w, r) PROVE IInv'
  BY <1>2, ReceiveOK
<1>3. ASSUME NEW w \in Worker, PushStep(w) PROVE IInv'
  BY <1>3, LookOK, SelectOK, RefuseOK, UpdateOK, DeleteOK, InsertOK, EndOK,
     ConstraintOK, StopOK DEF PushStep
<1>4. ASSUME NEW w \in Worker, Fail(w) PROVE IInv'
  BY <1>4, StopOK
<1>5. ASSUME NEW p \in Web, WebStart(p) PROVE IInv'
  BY <1>5, WebStartOK
<1>6. ASSUME NEW p \in Web, WebStep(p) PROVE IInv'
  BY <1>6, WebInsertOK, WebWriteOK, WebEndOK DEF WebStep
<1>7. CASE Rest
  BY <1>1, <1>7 DEF Rest
<1> QED  BY <1>1, <1>2, <1>3, <1>4, <1>5, <1>6, <1>7 DEF Next

LEMMA Inductive == Spec => []IInv
<1>1. IInv /\ [Next]_vars => IInv'
  BY StepOK
<1> QED  BY InitOK, <1>1, PTL DEF Spec

\* Every variable of the push server stays within its type: in particular a
\* published row has version 1 or more and an idle thread keeps no request
\* (sync_service.py, push_sync; models/sync.py).
THEOREM TypeCorrect == Spec => []TypeOK
<1>1. IInv => TypeOK
  BY DEF IInv
<1> QED  BY Inductive, <1>1, PTL

\* SELECT ... FOR UPDATE and the unique indexes suffice: with any number of
\* push workers and web writers, an accepted mutation still finds its row at
\* its base version when it commits, and every uncommitted write is the next
\* version of the row it replaces (_apply_transaction_mutation,
\* _apply_budget_mutation).
THEOREM LocksCorrect == Spec => []LocksProtectWrites
<1>1. IInv => LocksProtectWrites
  BY DEF IInv
<1> QED  BY Inductive, <1>1, PTL

-----------------------------------------------------------------------------
(* The server implements the versioned store *)

\* The outcomes as the store sees them.
Recorded == [k \in Key |->
    IF outcomes[k] = Nil
    THEN Nil
    ELSE [req |-> outcomes[k].req, status |-> outcomes[k].res.status,
          ver |-> outcomes[k].res.ver]]

LEMMA RecordedPlus ==
    ASSUME TypeOK, NEW k \in Key, outcomes[k] = Nil, NEW o \in Outcome,
           outcomes' = [outcomes EXCEPT ![k] = o]
    PROVE  /\ Recorded[k] = Nil
           /\ Recorded' = [Recorded EXCEPT ![k] =
                [req |-> o.req, status |-> o.res.status, ver |-> o.res.ver]]
BY Constants DEF TypeOK, Recorded

\* A worker that commits an accepted mutation applies it.
LEMMA PersistImplements ==
    ASSUME IInv, NEW w \in Worker, Persist(w)
    PROVE  [Store!Next]_(Store!vars)
<1> DEFINE k == task[w].key
           o == [req |-> task[w], res |-> reply[w]]
<1>1. TypeOK /\ pc[w] = "persist" /\ w \in Process /\ AcceptanceStands(w)
      /\ WriteGuarded(w)
  BY Constants DEF IInv, LocksProtectWrites, Persist
<1>2. PICK r \in Request : r = task[w] /\ k \in Key /\ r.ent \in Entity
  BY <1>1, Busy
<1>3. reply[w] \in Result
  BY <1>1 DEF AcceptanceStands, TypeOK
<1>4. CASE outcomes[k] # Nil
  <2>1. UNCHANGED <<rows, outcomes>>
    BY <1>4 DEF Persist
  <2> QED  BY <2>1 DEF Store!vars
<1>5. CASE outcomes[k] = Nil
  <2>1. Publish(w) /\ outcomes' = [outcomes EXCEPT ![k] = o]
    BY <1>5 DEF Persist
  <2>2. o \in Outcome /\ o.req = r /\ o.res = reply[w]
    BY <1>2, <1>3 DEF Outcome
  <2>3. /\ Recorded[k] = Nil
        /\ Recorded' = [Recorded EXCEPT ![k] =
             [req |-> r, status |-> reply[w].status, ver |-> reply[w].ver]]
    BY <1>1, <1>2, <1>5, <2>1, <2>2, RecordedPlus
  <2>4. CASE reply[w].status = "applied"
    <3>1. /\ Store!BaseMatches(r, rows[r.ent])
          /\ reply[w].ver = Store!VersionAfter(r, rows[r.ent])
      BY <1>1, <1>2, <2>4 DEF AcceptanceStands
    <3>2. rows' = [rows EXCEPT ![r.ent] = Store!RowAfter(r, rows[r.ent])]
      BY <1>1, <1>2, <2>1, <2>4 DEF AcceptanceStands, Publish, TypeOK
    <3>3. Store!Apply(r)
      BY <1>2, <2>3, <2>4, <3>1, <3>2 DEF Store!Apply, Recorded
    <3> QED  BY <1>2, <3>3 DEF Store!Next
  <2>5. CASE reply[w].status # "applied"
    <3>1. reply[w].status \in {"conflict", "rejected"} /\ UNCHANGED rows
          /\ reply[w].ver \in Nat
      BY <1>1, <1>3, <2>1, <2>5 DEF AcceptanceStands, Publish, Result
    <3>2. k \in DOMAIN Recorded
      BY <1>2 DEF Recorded
    <3>3. /\ Recorded' = [Recorded EXCEPT ![k] = Recorded'[k]]
          /\ Recorded'[k] \in [req : {r}, status : {"conflict", "rejected"}, ver : Nat]
      BY <2>3, <3>1, <3>2
    <3>4. Store!Refuse(r)
      BY <1>2, <2>3, <3>1, <3>3 DEF Store!Refuse, Recorded
    <3> QED  BY <1>2, <3>4 DEF Store!Next
  <2> QED  BY <2>4, <2>5
<1> QED  BY <1>4, <1>5

\* A constraint violation is recorded as a refusal.
LEMMA ConstraintImplements ==
    ASSUME IInv, NEW w \in Worker, PersistConstraint(w)
    PROVE  [Store!Next]_(Store!vars)
<1> DEFINE k == task[w].key
           a == Answer("rejected", "constraint_conflict", 0)
           o == [req |-> task[w], res |-> a]
<1>1. TypeOK /\ pc[w] = "constraint" /\ UNCHANGED rows
  BY DEF IInv, PersistConstraint
<1>2. PICK r \in Request : r = task[w] /\ k \in Key
  BY <1>1, Busy
<1>3. CASE outcomes[k] # Nil
  <2>1. UNCHANGED <<rows, outcomes>>
    BY <1>3 DEF PersistConstraint
  <2> QED  BY <2>1 DEF Store!vars
<1>4. CASE outcomes[k] = Nil
  <2>1. a \in Result /\ a.status = "rejected" /\ a.ver = 0
    BY AnswerType DEF Reason, Answer
  <2>2. o \in Outcome /\ o.req = r /\ o.res = a
    BY <1>2, <2>1 DEF Outcome
  <2>3. outcomes' = [outcomes EXCEPT ![k] = o]
    BY <1>4 DEF PersistConstraint
  <2>4. /\ Recorded[k] = Nil
        /\ Recorded' = [Recorded EXCEPT ![k] =
             [req |-> r, status |-> "rejected", ver |-> 0]]
    BY <1>1, <1>2, <1>4, <2>1, <2>2, <2>3, RecordedPlus
  <2>5. k \in DOMAIN Recorded
    BY <1>2 DEF Recorded
  <2>6. /\ Recorded' = [Recorded EXCEPT ![k] = Recorded'[k]]
        /\ Recorded'[k] \in [req : {r}, status : {"conflict", "rejected"}, ver : Nat]
    BY <2>4, <2>5
  <2>7. Store!Refuse(r)
    BY <1>1, <1>2, <2>4, <2>6 DEF Store!Refuse, Recorded
  <2> QED  BY <1>2, <2>7 DEF Store!Next
<1> QED  BY <1>3, <1>4

\* A web writer's commit is an external write.
LEMMA WebEndImplements ==
    ASSUME IInv, NEW p \in Web, WebEnd(p)
    PROVE  [Store!Next]_(Store!vars)
<1> DEFINE c == pending[p]
           old == rows[c.ent]
<1>1. TypeOK /\ p \in Process /\ WriteGuarded(p) /\ UNCHANGED outcomes
  BY Constants DEF IInv, LocksProtectWrites, WebEnd
<1>2. CASE UNCHANGED rows
  BY <1>1, <1>2 DEF Store!vars
<1>3. CASE ~ UNCHANGED rows
  <2>1. c # Nil /\ rows' = [rows EXCEPT ![c.ent] = RowOf(c)]
    BY <1>3 DEF WebEnd, Publish
  <2>2. c \in Change /\ c.ent \in Entity /\ c.owner \in User
        /\ (c.op = "upsert" => c.val \in Value)
    BY <1>1, <2>1 DEF TypeOK, WriteGuarded, Change
  <2>3. CASE c.op = "delete"
    <3>1. old # Nil /\ rows' = [rows EXCEPT ![c.ent] = Nil]
      BY <1>1, <2>1, <2>3 DEF WriteGuarded, RowOf
    <3> QED  BY <1>1, <2>2, <3>1 DEF Store!External, Store!Next
  <2>4. CASE c.op = "upsert" /\ old = Nil
    <3>1. rows' = [rows EXCEPT ![c.ent] =
                     [owner |-> c.owner, ver |-> 1, val |-> c.val]]
      BY <1>1, <2>1, <2>4 DEF WriteGuarded, RowOf
    <3> QED  BY <1>1, <2>2, <2>4, <3>1 DEF Store!External, Store!Next
  <2>5. CASE c.op = "upsert" /\ old # Nil
    <3>1. c.owner = old.owner /\ c.ver = old.ver + 1
      BY <1>1, <2>1, <2>5 DEF WriteGuarded
    <3>2. rows' = [rows EXCEPT ![c.ent] =
             [owner |-> old.owner, ver |-> old.ver + 1, val |-> c.val]]
      BY <2>1, <2>5, <3>1 DEF RowOf
    <3> QED  BY <1>1, <2>2, <2>5, <3>2 DEF Store!External, Store!Next
  <2> QED  BY <2>2, <2>3, <2>4, <2>5 DEF Change
<1> QED  BY <1>2, <1>3

\* Every other step leaves the rows and the outcomes as they are.
LEMMA StepImplements == IInv /\ [Next]_vars => [Store!Next]_(Store!vars)
<1> SUFFICES ASSUME IInv, [Next]_vars PROVE [Store!Next]_(Store!vars)
  OBVIOUS
<1>1. CASE UNCHANGED <<rows, outcomes>>
  BY <1>1 DEF Store!vars
<1>2. ASSUME NEW w \in Worker, PushStep(w) PROVE [Store!Next]_(Store!vars)
  <2>1. CASE Persist(w)
    BY <2>1, PersistImplements
  <2>2. CASE PersistConstraint(w)
    BY <2>2, ConstraintImplements
  <2>3. CASE ~ Persist(w) /\ ~ PersistConstraint(w)
    <3>1. UNCHANGED <<rows, outcomes>>
      BY <1>2, <2>3 DEF PushStep, AcquireAdvisory, AnswerStored, LookupMiss,
         SelectForUpdate, RejectCategory, RejectScope, ForeignRow, StaleVersion,
         RejectFixedPart, UpdateRow, DeleteRow, MissingRow, RejectSource,
         CreateRow, Classify, InsertRow, InsertFails, Reread, Respond
    <3> QED  BY <1>1, <3>1
  <2> QED  BY <2>1, <2>2, <2>3
<1>3. ASSUME NEW p \in Web, WebStep(p) PROVE [Store!Next]_(Store!vars)
  <2>1. CASE WebEnd(p)
    BY <2>1, WebEndImplements
  <2>2. CASE WebInsert(p) \/ WebWrite(p)
    BY <1>1, <2>2 DEF WebInsert, WebWrite
  <2> QED  BY <1>3, <2>1, <2>2 DEF WebStep
<1>4. ASSUME NEW w \in Worker, NEW r \in Request, Receive(w, r)
      PROVE  [Store!Next]_(Store!vars)
  BY <1>1, <1>4 DEF Receive
<1>5. ASSUME NEW w \in Worker, Fail(w) PROVE [Store!Next]_(Store!vars)
  BY <1>1, <1>5 DEF Fail
<1>6. ASSUME NEW p \in Web, WebStart(p) PROVE [Store!Next]_(Store!vars)
  BY <1>1, <1>6 DEF WebStart, WebCreate, WebLoad
<1>7. CASE UNCHANGED vars \/ Rest
  BY <1>1, <1>7 DEF vars, Rest
<1> QED  BY <1>2, <1>3, <1>4, <1>5, <1>6, <1>7 DEF Next

\* push_sync, with its locks, retries, rollbacks and rivals, implements the
\* versioned store: a mutation changes its row in one atomic step, at its base
\* version, in the step that records its outcome, and an outcome once
\* recorded never changes (sync_service.py, push_sync and _persist_outcome).
THEOREM ServerImplementsStore == Spec => ImplementsStore
<1>1. Init => Store!Init
  BY Constants DEF Init, Store!Init
<1>2. IInv /\ [Next]_vars => [Store!Next]_(Store!vars)
  BY StepImplements
<1> QED  BY Inductive, <1>1, <1>2, PTL DEF Spec, ImplementsStore, Store!Spec

-----------------------------------------------------------------------------
(* The steps that commit, and the steps that write *)

\* A stored outcome is never replaced.
LEMMA OutcomesStay ==
    ASSUME IInv, [Next]_vars, NEW k \in Key, outcomes[k] # Nil
    PROVE  outcomes'[k] = outcomes[k]
<1>1. CASE UNCHANGED outcomes
  BY <1>1
<1>2. ASSUME NEW w \in Worker, Persist(w) \/ PersistConstraint(w)
      PROVE  outcomes'[k] = outcomes[k]
  BY <1>2 DEF Persist, PersistConstraint, IInv, TypeOK
<1>3. ASSUME NEW w \in Worker, PushStep(w) PROVE outcomes'[k] = outcomes[k]
  <2>1. CASE ~ Persist(w) /\ ~ PersistConstraint(w)
    <3>1. UNCHANGED outcomes
      BY <1>3, <2>1 DEF PushStep, AcquireAdvisory, AnswerStored, LookupMiss,
         SelectForUpdate, RejectCategory, RejectScope, ForeignRow, StaleVersion,
         RejectFixedPart, UpdateRow, DeleteRow, MissingRow, RejectSource,
         CreateRow, Classify, InsertRow, InsertFails, Reread, Respond
    <3> QED  BY <1>1, <3>1
  <2> QED  BY <1>2, <2>1
<1>4. ASSUME NEW w \in Worker, NEW r \in Request, Receive(w, r) \/ Fail(w)
      PROVE  outcomes'[k] = outcomes[k]
  BY <1>1, <1>4 DEF Receive, Fail
<1>5. ASSUME NEW w \in Worker, Fail(w) PROVE outcomes'[k] = outcomes[k]
  BY <1>1, <1>5 DEF Fail
<1>6. ASSUME NEW p \in Web, WebStep(p) \/ WebStart(p)
      PROVE  outcomes'[k] = outcomes[k]
  BY <1>1, <1>6 DEF WebStep, WebInsert, WebWrite, WebEnd, WebStart, WebCreate, WebLoad
<1>7. CASE UNCHANGED vars \/ Rest
  BY <1>1, <1>7 DEF vars, Rest
<1> QED  BY <1>3, <1>4, <1>5, <1>6, <1>7 DEF Next

\* Rows, journal and outcomes change in three places only.
LEMMA CommitSteps ==
    ASSUME IInv, [Next]_vars
    PROVE  \/ UNCHANGED <<rows, journal, outcomes>>
           \/ \E w \in Worker : Persist(w) \/ PersistConstraint(w)
           \/ \E p \in Web : WebEnd(p)
<1> DEFINE Quiet == UNCHANGED <<rows, journal, outcomes>>
<1>1. ASSUME NEW w \in Worker, PushStep(w), ~ Persist(w), ~ PersistConstraint(w)
      PROVE  Quiet
  BY <1>1 DEF PushStep, AcquireAdvisory, AnswerStored, LookupMiss,
     SelectForUpdate, RejectCategory, RejectScope, ForeignRow, StaleVersion,
     RejectFixedPart, UpdateRow, DeleteRow, MissingRow, RejectSource,
     CreateRow, Classify, InsertRow, InsertFails, Reread, Respond
<1>2. ASSUME NEW w \in Worker, NEW r \in Request, Receive(w, r) PROVE Quiet
  BY <1>2 DEF Receive
<1>3. ASSUME NEW w \in Worker, Fail(w) PROVE Quiet
  BY <1>3 DEF Fail
<1>4. ASSUME NEW p \in Web, WebStep(p), ~ WebEnd(p) PROVE Quiet
  BY <1>4 DEF WebStep, WebInsert, WebWrite
<1>5. ASSUME NEW p \in Web, WebStart(p) PROVE Quiet
  BY <1>5 DEF WebStart, WebCreate, WebLoad
<1>6. CASE UNCHANGED vars \/ Rest
  BY <1>6 DEF vars, Rest
<1> QED  BY <1>1, <1>2, <1>3, <1>4, <1>5, <1>6 DEF Next

\* The uncommitted write of a process after a step is the one it had, or one
\* of the five flushes has just made it.
Flushes(p) ==
    \/ p \in Worker /\ (UpdateRow(p) \/ DeleteRow(p) \/ InsertRow(p))
    \/ p \in Web /\ (WebInsert(p) \/ WebWrite(p))

WriteStands(p) ==
    /\ pending'[p] = pending[p]
    /\ task'[p] = task[p]
    /\ p \in Worker => reply'[p] = reply[p]

LEMMA WriteSteps ==
    ASSUME IInv, [Next]_vars, NEW p \in Process, pending'[p] # Nil
    PROVE  WriteStands(p) \/ Flushes(p)
<1> USE DEF WriteStands
<1>0. TypeOK /\ Worker \cap Web = {} /\ Worker \subseteq Process /\ Web \subseteq Process
  BY Constants DEF IInv
<1>1. ASSUME NEW w \in Worker, PushStep(w), p # w PROVE WriteStands(p)
  BY <1>0, <1>1 DEF PushStep, AcquireAdvisory, AnswerStored, LookupMiss,
     SelectForUpdate, RejectCategory, RejectScope, ForeignRow, StaleVersion,
     RejectFixedPart, UpdateRow, DeleteRow, MissingRow, RejectSource,
     CreateRow, Classify, InsertRow, InsertFails, Reread, Respond, Persist,
     PersistConstraint, Release, Decide, TypeOK
<1>2. ASSUME PushStep(p), p \in Worker, ~ Flushes(p) PROVE pending'[p] = Nil
  <2>1. pc[p] \in {"idle", "lock", "lookup", "select", "locked", "absent", "classify",
                   "insert", "constraint", "reread", "done"} => pending[p] = Nil
    BY <1>0, NothingPending
  <2>2. CASE Persist(p)
    BY <1>0, <2>2 DEF Persist, Release, TypeOK
  <2>3. CASE ~ Persist(p)
    BY <1>0, <1>2, <2>1, <2>3 DEF Flushes, PushStep, AcquireAdvisory, AnswerStored,
       LookupMiss, SelectForUpdate, RejectCategory, RejectScope, ForeignRow,
       StaleVersion, RejectFixedPart, MissingRow, RejectSource, CreateRow, Classify,
       InsertFails, Reread, Respond, PersistConstraint, Release, OwnRow, TypeOK
  <2> QED  BY <2>2, <2>3
<1>3. ASSUME NEW w \in Worker, NEW r \in Request, Receive(w, r)
      PROVE  WriteStands(p)
  <2>1. p = w => pending[p] = Nil
    BY <1>0, <1>3, NothingPending DEF Receive
  <2> QED  BY <1>0, <1>3, <2>1 DEF Receive, TypeOK
<1>4. ASSUME NEW w \in Worker, Fail(w) PROVE WriteStands(p)
  BY <1>0, <1>4 DEF Fail, Release, TypeOK
<1>5. ASSUME NEW q \in Web, WebStep(q) PROVE WriteStands(p) \/ Flushes(p)
  BY <1>0, <1>5 DEF WebStep, WebInsert, WebWrite, WebEnd, Release, Flushes, TypeOK
<1>6. ASSUME NEW q \in Web, WebStart(q) PROVE WriteStands(p)
  <2>1. p = q => pending[p] = Nil
    BY <1>0, <1>6, NothingPending DEF WebStart, WebCreate, WebLoad
  <2> QED  BY <1>0, <1>6, <2>1 DEF WebStart, WebCreate, WebLoad, TypeOK
<1>7. CASE UNCHANGED vars \/ Rest
  BY <1>7 DEF vars, Rest
<1> QED  BY <1>1, <1>2, <1>3, <1>4, <1>5, <1>6, <1>7 DEF Next

-----------------------------------------------------------------------------
(* Answers *)

\* ReplyIsRecorded with what it needs of a worker that has lost the race to
\* record its outcome and is about to read the winner's.
RepliesStand ==
    /\ ReplyIsRecorded
    /\ \A w \in Worker :
         pc[w] = "reread" =>
             /\ outcomes[task[w].key] # Nil
             /\ reply[w].reason = "constraint_conflict"

\* The two claims about one worker.
ReplyStands(w) ==
    LET o == outcomes[task[w].key] IN
    /\ pc[w] = "done" =>
         /\ o # Nil
         /\ IF o.req = task[w]
            THEN reply[w] \in {o.res, StoredAnswer(o)}
            ELSE reply[w].reason \in {"mutation_id_reused", "constraint_conflict"}
    /\ pc[w] = "reread" => o # Nil /\ reply[w].reason = "constraint_conflict"

LEMMA RepliesSplit == RepliesStand <=> \A w \in Worker : ReplyStands(w)
BY DEF RepliesStand, ReplyStands, ReplyIsRecorded

\* A worker that does not move, or stops at another label, keeps its claims.
LEMMA ReplyKept ==
    ASSUME IInv, [Next]_vars, RepliesStand, NEW w \in Worker,
           \/ UNCHANGED <<pc[w], task[w], reply[w]>>
           \/ pc'[w] \notin {"done", "reread"}
    PROVE  ReplyStands(w)'
<1>1. CASE pc'[w] \notin {"done", "reread"}
  BY <1>1 DEF ReplyStands
<1>2. CASE UNCHANGED <<pc[w], task[w], reply[w]>> /\ pc[w] \in {"done", "reread"}
  <2>1. task[w].key \in Key
    BY <1>2, Busy DEF IInv
  <2>2. outcomes[task[w].key] # Nil
    BY <1>2, RepliesSplit DEF ReplyStands
  <2>3. outcomes'[task[w].key] = outcomes[task[w].key]
    BY <2>1, <2>2, OutcomesStay
  <2> QED  BY <1>2, <2>3, RepliesSplit DEF ReplyStands
<1> QED  BY <1>1, <1>2

LEMMA ReplyStep ==
    ASSUME IInv, RepliesStand, NEW w \in Worker, PushStep(w)
    PROVE  ReplyStands(w)'
<1> DEFINE k == task[w].key
<1>1. TypeOK /\ w \in Process
  BY Constants DEF IInv
<1>2. pc[w] # "idle" => k \in Key
  BY <1>1, Busy
<1>3. [Next]_vars
  BY DEF Next
<1>4. CASE AnswerStored(w)
  BY <1>1, <1>4 DEF AnswerStored, Goto, ReplyStands, Answer, TypeOK
<1>5. CASE Persist(w)
  <2>1. pc[w] = "persist" /\ task[w] \in Request /\ reply[w] \in Result
    BY <1>1, <1>5, Busy DEF Persist, IInv, LocksProtectWrites, AcceptanceStands, TypeOK
  <2>2. [req |-> task[w], res |-> reply[w]] # Nil
    BY <2>1, Constants DEF Outcome
  <2> QED  BY <1>1, <1>2, <1>5, <2>1, <2>2 DEF Persist, Goto, ReplyStands, TypeOK
<1>6. CASE PersistConstraint(w)
  <2> DEFINE a == Answer("rejected", "constraint_conflict", 0)
  <2>1. task[w] \in Request /\ a \in Result /\ a.reason = "constraint_conflict"
    BY <1>1, <1>6, Busy, AnswerType DEF PersistConstraint, Reason, Answer
  <2>2. [req |-> task[w], res |-> a] # Nil
    BY <2>1, Constants DEF Outcome
  <2>3. reply'[w] = a /\ pc'[w] \in {"done", "reread"} /\ task' = task
    BY <1>1, <1>6 DEF PersistConstraint, Goto, TypeOK
  <2> HIDE DEF a
  <2>4. CASE outcomes[k] = Nil
    <3>1. outcomes' = [outcomes EXCEPT ![k] = [req |-> task[w], res |-> a]]
          /\ pc'[w] = "done"
      BY <1>1, <1>6, <2>4 DEF PersistConstraint, Goto, TypeOK, a
    <3> QED  BY <1>1, <1>2, <1>6, <2>2, <2>3, <3>1 DEF PersistConstraint, ReplyStands, TypeOK
  <2>5. CASE outcomes[k] # Nil
    <3>1. outcomes' = outcomes /\ pc'[w] = "reread"
      BY <1>1, <1>6, <2>5 DEF PersistConstraint, Goto, TypeOK
    <3> QED  BY <2>1, <2>3, <2>5, <3>1 DEF ReplyStands
  <2> QED  BY <2>4, <2>5
<1>7. CASE Reread(w)
  BY <1>1, <1>7, RepliesSplit DEF Reread, Goto, ReplyStands, TypeOK
<1>8. CASE ~ (AnswerStored(w) \/ Persist(w) \/ PersistConstraint(w) \/ Reread(w))
  <2>1. pc'[w] \notin {"done", "reread"}
    BY <1>1, <1>8 DEF PushStep, AcquireAdvisory, LookupMiss,
       SelectForUpdate, RejectCategory, RejectScope, ForeignRow, StaleVersion,
       RejectFixedPart, UpdateRow, DeleteRow, MissingRow, RejectSource,
       CreateRow, Classify, InsertRow, InsertFails, Respond, Decide, Goto, TypeOK
  <2> QED  BY <1>3, <2>1, ReplyKept
<1> QED  BY <1>4, <1>5, <1>6, <1>7, <1>8

LEMMA RepliesInductive == IInv /\ RepliesStand /\ [Next]_vars => RepliesStand'
<1> SUFFICES ASSUME IInv, RepliesStand, [Next]_vars, NEW w \in Worker
             PROVE  ReplyStands(w)'
  BY RepliesSplit DEF RepliesStand, ReplyStands, ReplyIsRecorded
<1>0. TypeOK /\ Worker \cap Web = {} /\ Worker \subseteq Process /\ Web \subseteq Process
  BY Constants DEF IInv
<1> DEFINE Stays == UNCHANGED <<pc[w], task[w], reply[w]>>
<1>1. CASE PushStep(w)
  BY <1>1, ReplyStep
<1>2. ASSUME NEW v \in Worker, PushStep(v), v # w PROVE Stays
  BY <1>0, <1>2 DEF PushStep, AcquireAdvisory, AnswerStored, LookupMiss,
     SelectForUpdate, RejectCategory, RejectScope, ForeignRow, StaleVersion,
     RejectFixedPart, UpdateRow, DeleteRow, MissingRow, RejectSource,
     CreateRow, Classify, InsertRow, InsertFails, Reread, Respond, Persist,
     PersistConstraint, Decide, Goto, TypeOK
<1>3. ASSUME NEW v \in Worker, NEW r \in Request, Receive(v, r)
      PROVE  Stays \/ pc'[w] = "lock"
  BY <1>0, <1>3 DEF Receive, Goto, TypeOK
<1>4. ASSUME NEW v \in Worker, Fail(v) PROVE Stays \/ pc'[w] = "idle"
  BY <1>0, <1>4 DEF Fail, Goto, TypeOK
<1>5. ASSUME NEW p \in Web, WebStep(p) \/ WebStart(p) PROVE Stays
  BY <1>0, <1>5 DEF WebStep, WebInsert, WebWrite, WebEnd, WebStart, WebCreate,
     WebLoad, Goto, TypeOK
<1>6. ASSUME UNCHANGED vars \/ Rest PROVE Stays
  BY <1>6 DEF vars, Rest
<1> QED  BY <1>1, <1>2, <1>3, <1>4, <1>5, <1>6, ReplyKept DEF Next

\* A worker about to answer says what is recorded for its request, whatever
\* race it has won or lost (sync_service.py, push_sync and its two handlers of
\* the IntegrityError).
THEOREM RepliesRecorded == Spec => []ReplyIsRecorded
<1>1. Init => RepliesStand
  BY Constants DEF Init, RepliesStand, ReplyIsRecorded
<1>2. RepliesStand => ReplyIsRecorded
  BY DEF RepliesStand
<1> QED  BY Inductive, RepliesInductive, <1>1, <1>2, PTL DEF Spec

-----------------------------------------------------------------------------
(* Budgets of one scope *)

SameScope(a, b) == a.owner = b.owner /\ FixedOf[a.val] = FixedOf[b.val]

\* An uncommitted write that leaves a budget in the table.
ClaimsScope(c) == c # Nil /\ c.op = "upsert" /\ c.ent \in Budget

ApartFromRows(c) ==
    \A f \in Budget : rows[f] # Nil /\ SameScope(c, rows[f]) => f = c.ent

\* OneBudgetPerScope with the uncommitted writes that may become rows: none of
\* them claims a scope that another row holds or another write claims.
ScopesApart ==
    /\ OneBudgetPerScope
    /\ \A p \in Process : ClaimsScope(pending[p]) => ApartFromRows(pending[p])
    /\ \A p, q \in Process :
         /\ ClaimsScope(pending[p]) /\ ClaimsScope(pending[q])
         /\ SameScope(pending[p], pending[q])
         => p = q

\* A commit makes a row of a write that was apart from rows and writes.
LEMMA ScopesAtCommit ==
    ASSUME IInv, ScopesApart, NEW p \in Process, pending[p] # Nil,
           rows' = [rows EXCEPT ![pending[p].ent] = RowOf(pending[p])],
           pending' = [pending EXCEPT ![p] = Nil]
    PROVE  ScopesApart'
<1> DEFINE c == pending[p]
<1>1. /\ TypeOK /\ c \in Change /\ c.ent \in Entity
      /\ \A f \in Entity : rows'[f] = IF f = c.ent THEN RowOf(c) ELSE rows[f]
      /\ \A q \in Process : pending'[q] = IF q = p THEN Nil ELSE pending[q]
  BY DEF IInv, TypeOK, Change
<1>2. /\ RowOf(c) # Nil => c.op = "upsert"
      /\ RowOf(c) # Nil => RowOf(c).owner = c.owner /\ RowOf(c).val = c.val
  BY <1>1 DEF RowOf, Change
<1>3. Budget \subseteq Entity
  BY DEF Entity
<1>4. OneBudgetPerScope'
  <2>1. SUFFICES ASSUME NEW e \in Budget, NEW f \in Budget, e # f,
                        rows'[e] # Nil, rows'[f] # Nil,
                        SameScope(rows'[e], rows'[f])
                 PROVE  FALSE
    BY DEF OneBudgetPerScope, SameScope
  <2>2. CASE c.ent \notin {e, f}
    BY <1>1, <1>3, <2>1, <2>2 DEF ScopesApart, OneBudgetPerScope, SameScope
  <2>3. CASE c.ent = e
    <3>1. ClaimsScope(c) /\ SameScope(c, rows[f]) /\ rows[f] # Nil
      BY <1>1, <1>2, <1>3, <2>1, <2>3 DEF ClaimsScope, SameScope
    <3> QED  BY <2>1, <2>3, <3>1 DEF ScopesApart, ApartFromRows
  <2>4. CASE c.ent = f
    <3>1. ClaimsScope(c) /\ SameScope(c, rows[e]) /\ rows[e] # Nil
      BY <1>1, <1>2, <1>3, <2>1, <2>4 DEF ClaimsScope, SameScope
    <3> QED  BY <2>1, <2>4, <3>1 DEF ScopesApart, ApartFromRows
  <2> QED  BY <2>2, <2>3, <2>4
<1>5. ASSUME NEW q \in Process, ClaimsScope(pending'[q]), NEW f \in Budget,
             rows'[f] # Nil, SameScope(pending'[q], rows'[f])
      PROVE  f = pending'[q].ent
  <2>1. q # p /\ pending'[q] = pending[q]
    BY <1>1, <1>5 DEF ClaimsScope
  <2>2. CASE f = c.ent
    <3>1. ClaimsScope(c) /\ SameScope(c, pending[q])
      BY <1>1, <1>2, <1>3, <1>5, <2>1, <2>2 DEF ClaimsScope, SameScope
    <3> QED  BY <1>5, <2>1, <3>1 DEF ScopesApart
  <2>3. CASE f # c.ent
    BY <1>1, <1>3, <1>5, <2>1, <2>3 DEF ScopesApart, ApartFromRows
  <2> QED  BY <2>2, <2>3
<1>6. ASSUME NEW q \in Process, NEW r \in Process, ClaimsScope(pending'[q]),
             ClaimsScope(pending'[r]), SameScope(pending'[q], pending'[r])
      PROVE  q = r
  BY <1>1, <1>6 DEF ScopesApart, ClaimsScope
<1> QED  BY <1>4, <1>5, <1>6 DEF ScopesApart, ApartFromRows, ClaimsScope, SameScope

\* A write of a row keeps its scope, of which the row's lock holder is the only
\* writer.
LEMMA UpdateKeepsScope ==
    ASSUME IInv, ScopesApart, NEW e \in Entity, rows[e] # Nil,
           NEW p \in Process, lock[e] \in {p, Nil},
           NEW c, c.ent = e, c.owner = rows[e].owner,
           ClaimsScope(c) => FixedOf[c.val] = FixedOf[rows[e].val]
    PROVE  ClaimsScope(c) =>
             /\ ApartFromRows(c)
             /\ \A q \in Process \ {p} :
                  ClaimsScope(pending[q]) => ~ SameScope(c, pending[q])
<1>1. SUFFICES ASSUME ClaimsScope(c)
               PROVE  /\ ApartFromRows(c)
                      /\ \A q \in Process \ {p} :
                           ClaimsScope(pending[q]) => ~ SameScope(c, pending[q])
  OBVIOUS
<1>2. e \in Budget /\ SameScope(c, rows[e])
  BY <1>1 DEF ClaimsScope, SameScope
<1>3. ApartFromRows(c)
  <2>1. SUFFICES ASSUME NEW f \in Budget, rows[f] # Nil, SameScope(c, rows[f]), f # e
                 PROVE  FALSE
    BY DEF ApartFromRows
  <2>2. OneBudgetPerScope
    BY DEF ScopesApart
  <2>3. rows[f].owner = rows[e].owner /\ FixedOf[rows[f].val] = FixedOf[rows[e].val]
    BY <1>2, <2>1 DEF SameScope
  <2> QED  BY <1>2, <2>1, <2>2, <2>3 DEF OneBudgetPerScope
<1>4. ASSUME NEW q \in Process \ {p}, ClaimsScope(pending[q]), SameScope(c, pending[q])
      PROVE  FALSE
  <2>1. SameScope(pending[q], rows[e])
    BY <1>2, <1>4 DEF SameScope
  <2>2. pending[q].ent = e
    BY <1>2, <1>4, <2>1 DEF ScopesApart, ApartFromRows
  <2>3. lock[e] = q
    BY <1>4, <2>2 DEF IInv, LocksProtectWrites, WriteGuarded, ClaimsScope
  <2> QED  BY <1>4, <2>3, Constants
<1> QED  BY <1>3, <1>4

\* An insert has met no rival, committed or not.
LEMMA InsertIsApart ==
    ASSUME NEW p \in Process, NEW e \in Entity, NEW u, NEW v,
           UncommittedRivals(p, e, u, v) = {}, CommittedRivals(e, u, v) = {},
           NEW c, c.ent = e, c.owner = u, c.val = v
    PROVE  ClaimsScope(c) =>
             /\ ApartFromRows(c)
             /\ \A q \in Process \ {p} :
                  ClaimsScope(pending[q]) => ~ SameScope(c, pending[q])
BY DEF ClaimsScope, ApartFromRows, SameScope, UncommittedRivals, CommittedRivals,
   ScopeHolders

\* A flush leaves rows and the other writes as they are.
LEMMA ScopesAtFlush ==
    ASSUME IInv, ScopesApart, NEW p \in Process, Flushes(p)
    PROVE  ScopesApart'
<1> DEFINE c == pending'[p]
           Apart == ClaimsScope(c) =>
                      /\ ApartFromRows(c)
                      /\ \A q \in Process \ {p} :
                           ClaimsScope(pending[q]) => ~ SameScope(c, pending[q])
<1>1. TypeOK
  BY DEF IInv
<1>2. UNCHANGED rows /\ \A q \in Process \ {p} : pending'[q] = pending[q]
  BY <1>1 DEF Flushes, UpdateRow, DeleteRow, InsertRow, WebInsert, WebWrite, TypeOK
<1>3. Apart
  <2>1. CASE p \in Worker /\ UpdateRow(p)
    <3>1. /\ task[p].ent \in Entity /\ rows[task[p].ent] # Nil
          /\ lock[task[p].ent] = p /\ pending[p] = Nil
      BY <1>1, <2>1, Busy, NothingPending
         DEF UpdateRow, OwnRow, IInv, LocksProtectWrites, AcceptanceStands
    <3>2. c = Nil \/ /\ c.ent = task[p].ent
                     /\ c.owner = rows[task[p].ent].owner
                     /\ FixedOf[c.val] = FixedOf[rows[task[p].ent].val]
      BY <1>1, <2>1, <3>1 DEF UpdateRow, TypeOK
    <3> HIDE DEF c
    <3>3. CASE c = Nil
      BY <3>3 DEF ClaimsScope
    <3>4. CASE c # Nil
      BY <3>1, <3>2, <3>4, UpdateKeepsScope
    <3> QED  BY <3>3, <3>4
  <2>2. CASE p \in Worker /\ DeleteRow(p)
    BY <1>1, <2>2 DEF DeleteRow, ClaimsScope, TypeOK
  <2>3. CASE p \in Worker /\ InsertRow(p)
    <3>1. task[p].ent \in Entity
      BY <1>1, <2>3, Busy DEF InsertRow
    <3>2. c.ent = task[p].ent /\ c.owner = OwnerOf[task[p].key] /\ c.val = task[p].val
      BY <1>1, <2>3 DEF InsertRow, TypeOK
    <3> HIDE DEF c
    <3> QED  BY <2>3, <3>1, <3>2, InsertIsApart DEF InsertRow
  <2>4. CASE p \in Web /\ WebInsert(p)
    <3>1. task[p].ent \in Entity
      BY <1>1, <2>4, BusyWeb DEF WebInsert
    <3>2. CASE CommittedRivals(task[p].ent, task[p].owner, task[p].val) = {}
      <4>1. c.ent = task[p].ent /\ c.owner = task[p].owner /\ c.val = task[p].val
        BY <1>1, <2>4, <3>2 DEF WebInsert, TypeOK
      <4> HIDE DEF c
      <4> QED  BY <2>4, <3>1, <3>2, <4>1, InsertIsApart DEF WebInsert
    <3>3. CASE CommittedRivals(task[p].ent, task[p].owner, task[p].val) # {}
      <4>1. c = Nil
        BY <1>1, <2>4, <3>3, NothingPending DEF WebInsert
      <4> QED  BY <4>1 DEF ClaimsScope
    <3> QED  BY <3>2, <3>3
  <2>5. CASE p \in Web /\ WebWrite(p)
    <3> DEFINE e == task[p].ent
    <3>1. e \in Entity /\ pending[p] = Nil
      BY <1>1, <2>5, BusyWeb, NothingPending DEF WebWrite
    <3>2. CASE rows[e] = Nil
      BY <2>5, <3>1, <3>2 DEF WebWrite, ClaimsScope
    <3>3. CASE rows[e] # Nil
      <4>1. lock[e] = Nil
        BY <2>5, <3>3 DEF WebWrite
      <4>2. c = Nil \/ /\ c.ent = e /\ c.owner = rows[e].owner
                       /\ c.op = "upsert" => FixedOf[c.val] = FixedOf[rows[e].val]
        BY <1>1, <2>5, <3>3 DEF WebWrite, Written, TypeOK
      <4> HIDE DEF c
      <4>3. CASE c = Nil
        BY <4>3 DEF ClaimsScope
      <4>4. CASE c # Nil
        BY <3>1, <3>3, <4>1, <4>2, <4>4, UpdateKeepsScope DEF ClaimsScope
      <4> QED  BY <4>3, <4>4
    <3> QED  BY <3>2, <3>3
  <2> QED  BY <2>1, <2>2, <2>3, <2>4, <2>5 DEF Flushes
<1> QED  BY <1>2, <1>3 DEF ScopesApart, ApartFromRows, OneBudgetPerScope, SameScope, ClaimsScope

\* A step that commits nothing and flushes nothing can only forget writes.
LEMMA ScopesInductive == IInv /\ ScopesApart /\ [Next]_vars => ScopesApart'
<1> SUFFICES ASSUME IInv, ScopesApart, [Next]_vars PROVE ScopesApart'
  OBVIOUS
<1>1. TypeOK /\ Worker \subseteq Process /\ Web \subseteq Process
  BY Constants DEF IInv
<1>2. CASE \E p \in Process : Flushes(p)
  BY <1>2, ScopesAtFlush
<1>3. CASE UNCHANGED rows /\ ~ \E p \in Process : Flushes(p)
  <2>1. \A p \in Process : pending'[p] = Nil \/ pending'[p] = pending[p]
    BY <1>3, WriteSteps DEF WriteStands
  <2> QED  BY <1>3, <2>1 DEF ScopesApart, ApartFromRows, OneBudgetPerScope, SameScope,
              ClaimsScope
<1>4. CASE ~ UNCHANGED rows
  <2>1. PICK p \in Process : /\ pending[p] # Nil
                             /\ rows' = [rows EXCEPT ![pending[p].ent] = RowOf(pending[p])]
                             /\ pending' = [pending EXCEPT ![p] = Nil]
    BY <1>1, <1>4, CommitSteps
       DEF Persist, PersistConstraint, WebEnd, Publish, Release
  <2> QED  BY <2>1, ScopesAtCommit
<1> QED  BY <1>2, <1>3, <1>4

\* Two devices and the web may look for a rival at the same time and insert at
\* the same time; the unique index is what keeps one budget per scope
\* (sync_service.py, _budget_scope_conflict; budget_service.py, create_budget).
THEOREM ScopesHeldOnce == Spec => []OneBudgetPerScope
<1>1. Init => ScopesApart
  BY DEF Init, ScopesApart, OneBudgetPerScope, ClaimsScope, Entity
<1>2. ScopesApart => OneBudgetPerScope
  BY DEF ScopesApart
<1> QED  BY Inductive, ScopesInductive, <1>1, <1>2, PTL DEF Spec

-----------------------------------------------------------------------------
(* The journal *)

Mine(e) == {i \in DOMAIN journal : journal[i].ent = e}

Earlier(e, i) == {j \in Mine(e) : j < i}

Greatest(S, i) == i \in S /\ \A j \in S : j <= i

\* JournalDescribesRows with the greatest elements it speaks of given as
\* witnesses; an entry without a value is a tombstone.
JournalStands ==
    /\ \A e \in Entity :
         /\ Mine(e) = {} => rows[e] = Nil
         /\ Mine(e) # {} =>
              \E i \in Mine(e) : Greatest(Mine(e), i) /\ rows[e] = RowOf(journal[i])
    /\ \A e \in Entity :
         \A i \in Mine(e) :
              \/ Earlier(e, i) = {} /\ journal[i].ver = 1
              \/ \E b \in Earlier(e, i) :
                   /\ Greatest(Earlier(e, i), b)
                   /\ journal[i].ver =
                        IF journal[b].op = "delete" THEN 1 ELSE journal[b].ver + 1
    /\ \A i \in DOMAIN journal : journal[i].op = "upsert" => journal[i].val # Nil

LEMMA JournalStandsSuffices ==
    ASSUME TypeOK, JournalStands
    PROVE  JournalDescribesRows
<1>1. \A S, i, j : Greatest(S, i) /\ Greatest(S, j) /\ S \subseteq Nat => i = j
  BY DEF Greatest
<1>2. DOMAIN journal \subseteq Nat
  BY DEF TypeOK
<1> SUFFICES ASSUME NEW e \in Entity
             PROVE  /\ Mine(e) = {} => rows[e] = Nil
                    /\ \A i \in Mine(e) :
                         LET before == CHOOSE j \in Earlier(e, i) :
                                          \A m \in Earlier(e, i) : m <= j IN
                         /\ (\A j \in Mine(e) : j <= i) => rows[e] = RowOf(journal[i])
                         /\ journal[i].ver =
                              IF Earlier(e, i) = {} \/ journal[before].op = "delete"
                              THEN 1
                              ELSE journal[before].ver + 1
  BY DEF JournalDescribesRows, Mine, Earlier
<1>3. Mine(e) \subseteq Nat
  BY <1>2 DEF Mine
<1>4. ASSUME NEW i \in Mine(e), \A j \in Mine(e) : j <= i
      PROVE  rows[e] = RowOf(journal[i])
  <2>1. Greatest(Mine(e), i)
    BY <1>4 DEF Greatest
  <2>2. PICK j \in Mine(e) : Greatest(Mine(e), j) /\ rows[e] = RowOf(journal[j])
    BY <1>4 DEF JournalStands
  <2> QED  BY <1>1, <1>3, <2>1, <2>2
<1>5. ASSUME NEW i \in Mine(e)
      PROVE  journal[i].ver =
               IF \/ Earlier(e, i) = {}
                  \/ journal[CHOOSE j \in Earlier(e, i) :
                                \A m \in Earlier(e, i) : m <= j].op = "delete"
               THEN 1
               ELSE journal[CHOOSE j \in Earlier(e, i) :
                               \A m \in Earlier(e, i) : m <= j].ver + 1
  <2> DEFINE before == CHOOSE j \in Earlier(e, i) : \A m \in Earlier(e, i) : m <= j
  <2>1. CASE Earlier(e, i) = {}
    BY <1>5, <2>1 DEF JournalStands
  <2>2. CASE Earlier(e, i) # {}
    <3>1. PICK b \in Earlier(e, i) :
             /\ Greatest(Earlier(e, i), b)
             /\ journal[i].ver =
                  IF journal[b].op = "delete" THEN 1 ELSE journal[b].ver + 1
      BY <1>5, <2>2 DEF JournalStands
    <3>2. Greatest(Earlier(e, i), before)
      BY <3>1 DEF Greatest
    <3>3. Earlier(e, i) \subseteq Nat
      BY <1>3 DEF Earlier
    <3>4. before = b
      BY <1>1, <3>1, <3>2, <3>3
    <3> QED  BY <2>2, <3>1, <3>4
  <2> QED  BY <2>1, <2>2
<1> QED  BY <1>4, <1>5 DEF JournalStands

\* A commit appends the next version of the row it replaces.
LEMMA JournalGrows ==
    ASSUME IInv, JournalStands, NEW p \in Process, pending[p] # Nil,
           rows' = [rows EXCEPT ![pending[p].ent] = RowOf(pending[p])],
           journal' = Append(journal, pending[p])
    PROVE  JournalStands'
<1>1. PICK c \in Change : c = pending[p]
  BY DEF IInv, TypeOK
<1>2. TypeOK /\ c.ent \in Entity /\ WriteGuarded(p)
  BY <1>1 DEF IInv, Change, LocksProtectWrites
<1>3. PICK n \in Nat :
        /\ DOMAIN journal' = DOMAIN journal \cup {n}
        /\ \A i \in DOMAIN journal : i \in Nat /\ i < n /\ journal'[i] = journal[i]
        /\ journal'[n] = c
  <2>1. /\ Len(journal) + 1 \in Nat
        /\ DOMAIN journal' = DOMAIN journal \cup {Len(journal) + 1}
        /\ \A i \in DOMAIN journal :
             i \in Nat /\ i < Len(journal) + 1 /\ journal'[i] = journal[i]
        /\ journal'[Len(journal) + 1] = c
    BY <1>1, <1>2 DEF TypeOK
  <2> QED  BY <2>1
<1>4. /\ \A e \in Entity : rows'[e] = IF e = c.ent THEN RowOf(c) ELSE rows[e]
      /\ c.op = "upsert" => c.val # Nil
      /\ IF rows[c.ent] = Nil
         THEN c.op = "upsert" /\ c.ver = 1
         ELSE c.owner = rows[c.ent].owner /\ c.ver = rows[c.ent].ver + 1
  BY <1>1, <1>2 DEF TypeOK, WriteGuarded
<1>5. \A e \in Entity : Mine(e)' = IF e = c.ent THEN Mine(e) \cup {n} ELSE Mine(e)
  BY <1>3 DEF Mine
<1>6. \A e \in Entity : Mine(e) \subseteq DOMAIN journal
  BY DEF Mine
<1>7. \A e \in Entity : \A i \in Mine(e) : Earlier(e, i)' = Earlier(e, i)
  BY <1>3, <1>5, <1>6 DEF Earlier
<1>8. Earlier(c.ent, n)' = Mine(c.ent)
  BY <1>2, <1>3, <1>5, <1>6 DEF Earlier
<1>9. ASSUME NEW e \in Entity, NEW i \in Mine(e)
      PROVE  \/ Earlier(e, i)' = {} /\ journal'[i].ver = 1
             \/ \E b \in Earlier(e, i)' :
                  /\ Greatest(Earlier(e, i)', b)
                  /\ journal'[i].ver =
                       IF journal'[b].op = "delete" THEN 1 ELSE journal'[b].ver + 1
  <2>1. Earlier(e, i) \subseteq DOMAIN journal /\ i \in DOMAIN journal
    BY <1>6, <1>9 DEF Earlier
  <2>2. CASE Earlier(e, i) = {} /\ journal[i].ver = 1
    BY <1>3, <1>7, <1>9, <2>1, <2>2
  <2>3. ASSUME NEW b \in Earlier(e, i), Greatest(Earlier(e, i), b),
               journal[i].ver =
                 IF journal[b].op = "delete" THEN 1 ELSE journal[b].ver + 1
        PROVE  /\ b \in Earlier(e, i)' /\ Greatest(Earlier(e, i)', b)
               /\ journal'[i].ver =
                    IF journal'[b].op = "delete" THEN 1 ELSE journal'[b].ver + 1
    BY <1>3, <1>7, <1>9, <2>1, <2>3
  <2> QED  BY <1>9, <2>2, <2>3 DEF JournalStands
<1>10. \/ Mine(c.ent) = {} /\ c.ver = 1
       \/ \E b \in Mine(c.ent) :
            /\ Greatest(Mine(c.ent), b)
            /\ c.ver = IF journal'[b].op = "delete" THEN 1 ELSE journal'[b].ver + 1
  <2>1. CASE Mine(c.ent) = {}
    <3>1. rows[c.ent] = Nil
      BY <1>2, <2>1 DEF JournalStands
    <3> QED  BY <1>4, <2>1, <3>1
  <2>2. CASE Mine(c.ent) # {}
    <3>1. PICK b \in Mine(c.ent) :
             Greatest(Mine(c.ent), b) /\ rows[c.ent] = RowOf(journal[b])
      BY <1>2, <2>2 DEF JournalStands
    <3>2. b \in DOMAIN journal /\ journal[b] \in Change /\ journal'[b] = journal[b]
          /\ (journal[b].op = "upsert" => journal[b].val # Nil)
      BY <1>2, <1>3, <1>6, <3>1 DEF TypeOK, JournalStands
    <3>3. CASE journal[b].op = "delete"
      <4>1. rows[c.ent] = Nil
        BY <3>1, <3>3 DEF RowOf
      <4> QED  BY <1>4, <3>1, <3>2, <3>3, <4>1
    <3>4. CASE journal[b].op = "upsert"
      <4>1. RowOf(journal[b]) \in Row /\ RowOf(journal[b]).ver = journal[b].ver
        BY <3>2, <3>4 DEF RowOf, Row, Change
      <4>2. rows[c.ent] # Nil /\ rows[c.ent].ver = journal[b].ver
        BY <3>1, <4>1, Constants
      <4>3. c.ver = rows[c.ent].ver + 1
        BY <1>4, <4>2
      <4> QED  BY <3>1, <3>2, <3>4, <4>2, <4>3
    <3> QED  BY <3>2, <3>3, <3>4 DEF Change
  <2> QED  BY <2>1, <2>2
<1>11. \A e \in Entity : e = c.ent => Greatest(Mine(e)', n) /\ n \in Mine(e)'
  BY <1>2, <1>3, <1>5, <1>6 DEF Greatest
<1>12. ASSUME NEW e \in Entity
       PROVE  /\ Mine(e)' = {} => rows'[e] = Nil
              /\ Mine(e)' # {} =>
                   \E i \in Mine(e)' :
                     Greatest(Mine(e)', i) /\ rows'[e] = RowOf(journal'[i])
  <2>1. CASE e = c.ent
    <3>1. rows'[e] = RowOf(journal'[n])
      BY <1>3, <1>4, <2>1
    <3>2. Greatest(Mine(e)', n) /\ n \in Mine(e)'
      BY <1>11, <2>1
    <3> QED  BY <3>1, <3>2
  <2>2. CASE e # c.ent
    <3>1. Mine(e)' = Mine(e) /\ rows'[e] = rows[e]
      BY <1>4, <1>5, <2>2
    <3>2. \A i \in Mine(e) : journal'[i] = journal[i]
      BY <1>3, <1>6
    <3> QED  BY <3>1, <3>2 DEF JournalStands
  <2> QED  BY <2>1, <2>2
<1>13. ASSUME NEW e \in Entity, NEW i, i \in Mine(e)'
       PROVE  \/ Earlier(e, i)' = {} /\ journal'[i].ver = 1
              \/ \E b \in Earlier(e, i)' :
                   /\ Greatest(Earlier(e, i)', b)
                   /\ journal'[i].ver =
                        IF journal'[b].op = "delete" THEN 1 ELSE journal'[b].ver + 1
  <2>1. CASE i \in Mine(e)
    BY <1>9, <2>1
  <2>2. CASE i \notin Mine(e)
    <3>1. e = c.ent /\ i = n
      BY <1>5, <1>13, <2>2
    <3> QED  BY <1>3, <1>8, <1>10, <3>1
  <2> QED  BY <2>1, <2>2
<1>14. ASSUME NEW i \in DOMAIN journal', journal'[i].op = "upsert"
       PROVE  journal'[i].val # Nil
  BY <1>3, <1>4, <1>14 DEF JournalStands
<1>15. \A e \in Entity :
         \A i \in Mine(e)' :
           \/ Earlier(e, i)' = {} /\ journal'[i].ver = 1
           \/ \E b \in Earlier(e, i)' :
                /\ Greatest(Earlier(e, i)', b)
                /\ journal'[i].ver =
                     IF journal'[b].op = "delete" THEN 1 ELSE journal'[b].ver + 1
  BY <1>13
<1> QED  BY <1>12, <1>14, <1>15 DEF JournalStands

LEMMA JournalInductive == IInv /\ JournalStands /\ [Next]_vars => JournalStands'
<1> SUFFICES ASSUME IInv, JournalStands, [Next]_vars PROVE JournalStands'
  OBVIOUS
<1>1. CASE UNCHANGED <<rows, journal>>
  <2>1. \A e \in Entity : Mine(e)' = Mine(e)
    BY <1>1 DEF Mine
  <2>2. \A e \in Entity : \A i : Earlier(e, i)' = Earlier(e, i)
    BY <2>1 DEF Earlier
  <2> QED  BY <1>1, <2>1, <2>2 DEF JournalStands
<1>2. CASE ~ UNCHANGED <<rows, journal>>
  <2>1. PICK p \in Process : /\ pending[p] # Nil
                             /\ rows' = [rows EXCEPT ![pending[p].ent] = RowOf(pending[p])]
                             /\ journal' = Append(journal, pending[p])
    BY <1>2, CommitSteps, Constants DEF Persist, PersistConstraint, WebEnd, Publish
  <2> QED  BY <2>1, JournalGrows
<1> QED  BY <1>1, <1>2

\* Whoever commits, in whatever order, replaying the journal of an entity
\* rebuilds its row, version by version (the row triggers of migration
\* 0011_mobile_sync_v1, read back by pull and bootstrap in sync_service.py).
THEOREM JournalRebuildsRows == Spec => []JournalDescribesRows
<1>1. Init => JournalStands
  BY DEF Init, JournalStands, Mine, Earlier
<1>2. IInv /\ JournalStands => JournalDescribesRows
  BY JournalStandsSuffices DEF IInv
<1> QED  BY Inductive, JournalInductive, <1>1, <1>2, PTL DEF Spec

-----------------------------------------------------------------------------
(* One journal entry for one applied mutation *)

\* An uncommitted write carries the key of the mutation that made it, and its
\* worker is about to record exactly this write.
WritesNamed ==
    /\ \A w \in Worker :
         pending[w] # Nil =>
             /\ pending[w].by = task[w].key
             /\ pending[w].ent = task[w].ent
             /\ reply[w] = Answer("applied", "none", pending[w].ver)
    /\ \A p \in Web : pending[p] # Nil => pending[p].by = Nil

\* AppliedExactlyOnce entry by entry.
EntriesNamed ==
    /\ \A i \in DOMAIN journal :
         LET k == journal[i].by IN
         k # Nil => /\ outcomes[k] # Nil
                    /\ outcomes[k].res = Answer("applied", "none", journal[i].ver)
                    /\ outcomes[k].req.ent = journal[i].ent
    /\ \A i, j \in DOMAIN journal :
         journal[i].by = journal[j].by /\ journal[i].by # Nil => i = j

\* An outcome that must have changed the table has its entry.
AppliedWritten(k) ==
    (/\ outcomes[k] # Nil
     /\ outcomes[k].res.status = "applied"
     /\ outcomes[k].req.op = "delete" \/ outcomes[k].req.base = 0)
    => \E i \in DOMAIN journal : journal[i].by = k

OutcomesWritten == \A k \in Key : AppliedWritten(k)

LEMMA WritesNamedInductive == IInv /\ WritesNamed /\ [Next]_vars => WritesNamed'
<1> SUFFICES ASSUME IInv, WritesNamed, [Next]_vars PROVE WritesNamed'
  OBVIOUS
<1>1. TypeOK /\ Worker \subseteq Process /\ Web \subseteq Process
  BY Constants DEF IInv
<1>2. ASSUME NEW w \in Worker, pending'[w] # Nil
      PROVE  /\ pending'[w].by = task'[w].key
             /\ pending'[w].ent = task'[w].ent
             /\ reply'[w] = Answer("applied", "none", pending'[w].ver)
  <2>1. CASE WriteStands(w)
    BY <1>2, <2>1 DEF WriteStands, WritesNamed
  <2>2. CASE UpdateRow(w)
    <3>1. pending[w] = Nil
      BY <1>1, <2>2, NothingPending DEF UpdateRow, OwnRow
    <3> QED  BY <1>1, <1>2, <2>2, <3>1 DEF UpdateRow, Decide, TypeOK
  <2>3. CASE DeleteRow(w)
    BY <1>1, <2>3 DEF DeleteRow, Decide, TypeOK
  <2>4. CASE InsertRow(w)
    BY <1>1, <2>4 DEF InsertRow, Decide, TypeOK
  <2> QED  BY <1>1, <1>2, <2>1, <2>2, <2>3, <2>4, WriteSteps, Constants DEF Flushes
<1>3. ASSUME NEW p \in Web, pending'[p] # Nil PROVE pending'[p].by = Nil
  <2>1. CASE WriteStands(p)
    BY <1>3, <2>1 DEF WriteStands, WritesNamed
  <2>2. CASE WebInsert(p)
    <3>1. pending[p] = Nil
      BY <1>1, <2>2, NothingPending DEF WebInsert
    <3> QED  BY <1>1, <1>3, <2>2, <3>1 DEF WebInsert, TypeOK
  <2>3. CASE WebWrite(p)
    <3>1. pending[p] = Nil
      BY <1>1, <2>3, NothingPending DEF WebWrite
    <3> QED  BY <1>1, <1>3, <2>3, <3>1 DEF WebWrite, TypeOK
  <2> QED  BY <1>1, <1>3, <2>1, <2>2, <2>3, WriteSteps, Constants DEF Flushes
<1> QED  BY <1>2, <1>3 DEF WritesNamed

\* A commit appends the write of p, and only if p has one.
Appends(p) ==
    IF pending[p] = Nil
    THEN journal' = journal
    ELSE journal' = Append(journal, pending[p])

LEMMA AppendedEntries ==
    ASSUME TypeOK, NEW p \in Process, Appends(p)
    PROVE  /\ DOMAIN journal \subseteq DOMAIN journal'
           /\ \A i \in DOMAIN journal : journal'[i] = journal[i]
           /\ \A i \in DOMAIN journal' \ DOMAIN journal :
                pending[p] # Nil /\ i = Len(journal) + 1 /\ journal'[i] = pending[p]
           /\ pending[p] # Nil =>
                \E i \in DOMAIN journal' : journal'[i] = pending[p]
<1>1. CASE pending[p] = Nil
  BY <1>1 DEF Appends
<1>2. CASE pending[p] # Nil
  <2>1. pending[p] \in Change /\ journal \in Seq(Change)
    BY <1>2 DEF TypeOK
  <2>2. /\ DOMAIN journal' = DOMAIN journal \cup {Len(journal) + 1}
        /\ \A i \in DOMAIN journal : journal'[i] = journal[i]
        /\ journal'[Len(journal) + 1] = pending[p]
    BY <1>2, <2>1 DEF Appends
  <2> QED  BY <1>2, <2>2
<1> QED  BY <1>1, <1>2

LEMMA EntryKeys ==
    ASSUME TypeOK, NEW i \in DOMAIN journal
    PROVE  journal[i].by \in Key \cup {Nil}
<1>1. journal[i] \in Change
  BY DEF TypeOK
<1> QED  BY <1>1 DEF Change

\* A worker that records an outcome for a key without one.
LEMMA EntriesAtPersist ==
    ASSUME IInv, WritesNamed, EntriesNamed, OutcomesWritten,
           NEW w \in Worker, Persist(w)
    PROVE  EntriesNamed' /\ OutcomesWritten'
<1>1. TypeOK /\ pc[w] = "persist" /\ w \in Process /\ AcceptanceStands(w)
  BY Constants DEF IInv, LocksProtectWrites, Persist
<1>2. PICK r \in Request : r = task[w] /\ r.key \in Key /\ r.ent \in Entity
  BY <1>1, Busy
<1>3. CASE outcomes[r.key] # Nil
  <2>1. UNCHANGED <<journal, outcomes>>
    BY <1>2, <1>3 DEF Persist
  <2> QED  BY <2>1 DEF EntriesNamed, OutcomesWritten, AppliedWritten
<1>4. CASE outcomes[r.key] = Nil
  <2>1. PICK a \in Result : a = reply[w]
    BY <1>1 DEF AcceptanceStands, TypeOK
  <2>2. PICK o \in Outcome : o = [req |-> r, res |-> a]
    BY <2>1 DEF Outcome
  <2>3. o # Nil /\ o.req = r /\ o.res = a
    BY <2>2, Constants
  <2>4. \A k \in Key : outcomes'[k] = IF k = r.key THEN o ELSE outcomes[k]
    BY <1>1, <1>2, <1>4, <2>1, <2>2 DEF Persist, TypeOK
  <2>5. Appends(w)
    BY <1>2, <1>4 DEF Persist, Publish, Appends
  <2>6. \A i \in DOMAIN journal : journal[i].by # r.key
    BY <1>2, <1>4, Constants DEF EntriesNamed
  <2>7. pending[w] # Nil =>
          /\ pending[w].by = r.key /\ pending[w].ent = r.ent
          /\ a = Answer("applied", "none", pending[w].ver)
    BY <1>2, <2>1 DEF WritesNamed
  <2>8. \A i \in DOMAIN journal : journal[i].by \in Key \cup {Nil}
    BY <1>1, EntryKeys
  <2>9. EntriesNamed'
    <3>1. ASSUME NEW i \in DOMAIN journal', journal'[i].by # Nil
          PROVE  LET k == journal'[i].by IN
                 /\ outcomes'[k] # Nil
                 /\ outcomes'[k].res = Answer("applied", "none", journal'[i].ver)
                 /\ outcomes'[k].req.ent = journal'[i].ent
      <4>1. CASE i \in DOMAIN journal
        BY <1>1, <2>4, <2>5, <2>6, <2>8, <3>1, <4>1, AppendedEntries DEF EntriesNamed
      <4>2. CASE i \notin DOMAIN journal
        BY <1>1, <1>2, <2>3, <2>4, <2>5, <2>7, <3>1, <4>2, AppendedEntries
      <4> QED  BY <4>1, <4>2
    <3>2. ASSUME NEW i \in DOMAIN journal', NEW j \in DOMAIN journal',
                 journal'[i].by = journal'[j].by, journal'[i].by # Nil
          PROVE  i = j
      BY <1>1, <2>5, <2>6, <2>7, <3>2, AppendedEntries DEF EntriesNamed
    <3> QED  BY <3>1, <3>2 DEF EntriesNamed
  <2>10. ASSUME NEW k \in Key PROVE AppliedWritten(k)'
    <3>1. CASE k # r.key
      BY <1>1, <2>4, <2>5, <3>1, AppendedEntries DEF OutcomesWritten, AppliedWritten
    <3>2. CASE k = r.key
      <4>1. SUFFICES ASSUME a.status = "applied", r.op = "delete" \/ r.base = 0
                     PROVE  pending[w] # Nil
        BY <1>1, <2>3, <2>4, <2>5, <2>7, <3>2, AppendedEntries DEF AppliedWritten
      <4>2. /\ Store!BaseMatches(r, rows[r.ent])
            /\ pending[w] = Nil => Store!RowAfter(r, rows[r.ent]) = rows[r.ent]
        BY <1>1, <1>2, <2>1, <4>1 DEF AcceptanceStands
      <4>3. rows[r.ent] # Nil => rows[r.ent].ver # 0
        BY <1>1, <1>2 DEF TypeOK, Row
      <4>4. CASE r.op = "delete"
        <5>1. rows[r.ent] # Nil /\ Store!RowAfter(r, rows[r.ent]) = Nil
          BY <4>2, <4>4 DEF Store!BaseMatches, Store!RowAfter
        <5> QED  BY <4>2, <5>1
      <4>5. CASE r.op = "upsert" /\ r.base = 0
        <5>1. rows[r.ent] = Nil
          BY <4>2, <4>3, <4>5 DEF Store!BaseMatches
        <5>2. Store!RowAfter(r, rows[r.ent]) =
                [owner |-> OwnerOf[r.key], ver |-> 1, val |-> r.val]
          BY <4>5, <5>1 DEF Store!RowAfter
        <5>3. Store!RowAfter(r, rows[r.ent]) \in Row
          BY <4>5, <5>2, Constants DEF Row
        <5> QED  BY <4>2, <5>1, <5>3, Constants
      <4> QED  BY <4>1, <4>4, <4>5, Constants
    <3> QED  BY <3>1, <3>2
  <2> QED  BY <2>9, <2>10 DEF OutcomesWritten
<1> QED  BY <1>3, <1>4

\* A refusal is recorded only for a key without an entry.
LEMMA EntriesAtConstraint ==
    ASSUME IInv, EntriesNamed, OutcomesWritten,
           NEW w \in Worker, PersistConstraint(w)
    PROVE  EntriesNamed' /\ OutcomesWritten'
<1>1. TypeOK /\ pc[w] = "constraint" /\ UNCHANGED journal
  BY DEF IInv, PersistConstraint
<1>2. PICK r \in Request : r = task[w] /\ r.key \in Key
  BY <1>1, Busy
<1>3. CASE outcomes[r.key] # Nil
  <2>1. UNCHANGED <<journal, outcomes>>
    BY <1>1, <1>2, <1>3 DEF PersistConstraint
  <2> QED  BY <2>1 DEF EntriesNamed, OutcomesWritten, AppliedWritten
<1>4. CASE outcomes[r.key] = Nil
  <2>1. /\ \A k \in Key \ {r.key} : outcomes'[k] = outcomes[k]
        /\ outcomes'[r.key].res.status = "rejected"
    BY <1>1, <1>2, <1>4 DEF PersistConstraint, Answer, TypeOK
  <2>2. \A i \in DOMAIN journal :
          journal[i].by \in Key \cup {Nil} /\ journal[i].by # r.key
    BY <1>1, <1>2, <1>4, EntryKeys, Constants DEF EntriesNamed
  <2>3. EntriesNamed'
    BY <1>1, <2>1, <2>2 DEF EntriesNamed
  <2>4. OutcomesWritten'
    BY <1>1, <2>1 DEF OutcomesWritten, AppliedWritten
  <2> QED  BY <2>3, <2>4
<1> QED  BY <1>3, <1>4

\* The web's entries have no key.
LEMMA EntriesAtWebEnd ==
    ASSUME IInv, WritesNamed, EntriesNamed, OutcomesWritten,
           NEW p \in Web, WebEnd(p)
    PROVE  EntriesNamed' /\ OutcomesWritten'
<1>1. TypeOK /\ p \in Process /\ UNCHANGED outcomes
  BY Constants DEF IInv, WebEnd
<1>2. CASE UNCHANGED journal
  BY <1>1, <1>2 DEF EntriesNamed, OutcomesWritten, AppliedWritten
<1>3. CASE Appends(p)
  <2>1. pending[p] # Nil => pending[p].by = Nil
    BY DEF WritesNamed
  <2>2. EntriesNamed'
    BY <1>1, <1>3, <2>1, AppendedEntries DEF EntriesNamed
  <2>3. OutcomesWritten'
    BY <1>1, <1>3, AppendedEntries DEF OutcomesWritten, AppliedWritten
  <2> QED  BY <2>2, <2>3
<1> QED  BY <1>2, <1>3 DEF WebEnd, Publish, Appends

LEMMA EntriesInductive ==
    IInv /\ WritesNamed /\ EntriesNamed /\ OutcomesWritten /\ [Next]_vars
    => EntriesNamed' /\ OutcomesWritten'
<1>1. ASSUME UNCHANGED <<journal, outcomes>>, EntriesNamed, OutcomesWritten
      PROVE  EntriesNamed' /\ OutcomesWritten'
  BY <1>1 DEF EntriesNamed, OutcomesWritten, AppliedWritten
<1> QED  BY <1>1, CommitSteps, EntriesAtPersist, EntriesAtConstraint, EntriesAtWebEnd

LEMMA EntriesSuffice ==
    ASSUME TypeOK, EntriesNamed, OutcomesWritten
    PROVE  AppliedExactlyOnce
<1> SUFFICES ASSUME NEW k \in Key
             PROVE  LET written == {i \in DOMAIN journal : journal[i].by = k} IN
                    /\ Cardinality(written) <= 1
                    /\ \A i \in written :
                         /\ outcomes[k] # Nil
                         /\ outcomes[k].res = Answer("applied", "none", journal[i].ver)
                         /\ outcomes[k].req.ent = journal[i].ent
                    /\ (outcomes[k] # Nil /\ outcomes[k].res.status = "applied"
                          /\ (outcomes[k].req.op = "delete" \/ outcomes[k].req.base = 0))
                         => written # {}
  BY DEF AppliedExactlyOnce
<1> DEFINE written == {i \in DOMAIN journal : journal[i].by = k}
<1>1. k # Nil
  BY Constants
<1>2. \A i, j \in written : i = j
  BY <1>1 DEF EntriesNamed
<1>3. Cardinality(written) <= 1
  <2>1. CASE written = {}
    BY <2>1, FS_EmptySet
  <2>2. CASE written # {}
    <3>1. PICK i : written = {i}
      BY <1>2, <2>2
    <3> QED  BY <3>1, FS_Singleton
  <2> QED  BY <2>1, <2>2
<1> QED  BY <1>1, <1>3 DEF EntriesNamed, OutcomesWritten, AppliedWritten

\* However often a mutation is received, and whichever of its transactions
\* fail or lose a race, it is journaled at most once, with the outcome that
\* every later attempt is answered from (sync_service.py, push_sync and
\* _persist_outcome).
THEOREM MutationsJournaledOnce == Spec => []AppliedExactlyOnce
<1>1. Init => WritesNamed /\ EntriesNamed /\ OutcomesWritten
  BY Constants DEF Init, WritesNamed, EntriesNamed, OutcomesWritten, AppliedWritten
<1>2. IInv /\ EntriesNamed /\ OutcomesWritten => AppliedExactlyOnce
  BY EntriesSuffice DEF IInv
<1> QED  BY Inductive, WritesNamedInductive, EntriesInductive, <1>1, <1>2, PTL DEF Spec
=============================================================================
