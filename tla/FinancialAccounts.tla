-------------------------- MODULE FinancialAccounts --------------------------
(***************************************************************************)
(* The balance history of one financial account: a phone edits it offline  *)
(* and coalesces its edits into one mutation that carries every dated      *)
(* observation; the server applies the final state in one transaction and  *)
(* writes the observations into the history in a second one; the web edits *)
(* the account too and another device copies the history by its journal.   *)
(* A state is a balance, whether it counts (included and not archived) and *)
(* a name; only the first two make history.                                *)
(***************************************************************************)
EXTENDS Naturals, SequencesExt

CONSTANTS
    State,       \* states of an account: a balance, whether it counts, a name
    Times,       \* readings of the phone's clock, which may step back
    MaxEdits,    \* bound: edits on the phone
    MaxWebEdits, \* bound: edits on the web
    MaxLost,     \* bound: answers lost and processes stopped
    Nil

VARIABLES
    account,   \* the server's row, or Nil
    history,   \* snapshots by id: state and date
    feed,      \* snapshot ids in the order of their journal entries
    outcomes,  \* stored outcomes of mutations: key, body and result
    phone,     \* the phone's row: state, server version, status
    outbox,    \* the phone's mutation, or Nil
    dispute,   \* the phone's unresolved conflict, or Nil
    push,      \* the push under way, or Nil
    reader,    \* the other device: how much of the feed it has, and its copy
    made,      \* history: observations made on the phone and not given up
    accCount   \* edits, web edits and losses so far

accVars == <<account, history, feed, outcomes, phone, outbox, dispute, push,
             reader, made, accCount>>

Now == 0 \* a date taken from the server's clock

HistoryOf(s) == [bal |-> s.bal, counted |-> s.counted]

Differs(s, t) == HistoryOf(s) # HistoryOf(t)

Dated(s, at) == [bal |-> s.bal, counted |-> s.counted, at |-> at]

NewId == accCount.ids + 1 \* a fresh snapshot or mutation id

\* A step of one of the bounded kinds, and the ids it draws.
Count(kind, ids) ==
    accCount' = [accCount EXCEPT ![kind] = @ + 1, !.ids = @ + ids]

Init ==
    /\ account = Nil
    /\ history = <<>>
    /\ feed = <<>>
    /\ outcomes = {}
    /\ phone = Nil
    /\ outbox = Nil
    /\ dispute = Nil
    /\ push = Nil
    /\ reader = [seen |-> 0, copy |-> <<>>]
    /\ made = {}
    /\ accCount = [ids |-> 0, edits |-> 0, web |-> 0, lost |-> 0]

-----------------------------------------------------------------------------
(* The phone *)

\* What the server is told of the final state: the last observation names the
\* snapshot if the state differs from the one before the first edit.
Body(base, hb, obs, fin) ==
    [base |-> base, hb |-> hb, obs |-> obs, fin |-> fin,
     snap |-> IF obs # <<>> /\ (hb = Nil \/ Differs(fin, hb)) THEN Last(obs).id ELSE 0]

\* An edit joins the queued or failed mutation: its base of the history stays
\* and the observations are kept in the order of their dates.
Queue(fin, o, hb) ==
    IF outbox = Nil
    THEN outbox' = [key |-> NewId, status |-> "queued",
                    body |-> Body(IF phone = Nil THEN 0 ELSE phone.ver, hb, o, fin)]
    ELSE LET old == outbox.body
             obs == IF o = <<>> THEN old.obs
                    ELSE InsertAt(old.obs, Cardinality({i \in DOMAIN old.obs :
                           old.obs[i].is.at <= o[1].is.at}) + 1, o[1])
         IN outbox' = [outbox EXCEPT !.status = "queued",
                                     !.body = Body(old.base, old.hb, obs, fin)]

\* Create the account, or change its balance, inclusion or name; a change that
\* makes history leaves a dated observation.
Edit(fin, at) ==
    LET o == [id |-> NewId + 1, is |-> Dated(fin, at)] IN
    /\ accCount.edits < MaxEdits
    /\ phone = Nil => account = Nil /\ fin.counted
    /\ phone # Nil => phone.st # fin /\ phone.status # "conflict"
    /\ outbox # Nil => outbox.status # "sending"
    /\ LET historic == phone = Nil \/ Differs(phone.st, fin) IN
       /\ Queue(fin, IF historic THEN <<o>> ELSE <<>>, IF phone = Nil THEN Nil ELSE phone.st)
       /\ made' = IF historic THEN made \cup {o} ELSE made
    /\ phone' = [st |-> fin, ver |-> IF phone = Nil THEN 0 ELSE phone.ver, status |-> "pending"]
    /\ Count("edits", 2)
    /\ UNCHANGED <<account, history, feed, outcomes, dispute, push, reader>>

Send ==
    /\ outbox # Nil /\ outbox.status = "queued" /\ push = Nil
    /\ outbox' = [outbox EXCEPT !.status = "sending"]
    /\ push' = [key |-> outbox.key, body |-> outbox.body, at |-> "core", result |-> Nil]
    /\ UNCHANGED <<account, history, feed, outcomes, phone, dispute, reader, made, accCount>>

\* The answer is stored: the row takes its status and version.
Persist ==
    LET r == push.result IN
    /\ push # Nil /\ push.at = "answer"
    /\ push' = Nil
    /\ outbox' = IF r.status = "rejected" THEN [outbox EXCEPT !.status = "failed"] ELSE Nil
    /\ dispute' = IF r.status = "conflict"
                  THEN [ver |-> r.ver, server |-> r.st, local |-> push.body] ELSE dispute
    /\ phone' = CASE r.status = "rejected" -> [phone EXCEPT !.status = "failed"]
                  [] r.status = "conflict" -> [phone EXCEPT !.status = "conflict", !.ver = r.ver]
                  [] OTHER -> [phone EXCEPT !.status = "synced", !.ver = r.ver]
    /\ UNCHANGED <<account, history, feed, outcomes, reader, made, accCount>>

\* The request, the process behind it or its answer is lost; the mutation is
\* queued again.
Lose ==
    /\ push # Nil
    /\ accCount.lost < MaxLost
    /\ push' = Nil
    /\ outbox' = [outbox EXCEPT !.status = "queued"]
    /\ Count("lost", 0)
    /\ UNCHANGED <<account, history, feed, outcomes, phone, dispute, reader, made>>

\* The pulled row replaces a row without local intent.
PullAccount ==
    /\ account # Nil /\ push = Nil
    /\ phone # Nil => phone.status = "synced"
    /\ phone' = [st |-> account.st, ver |-> account.ver, status |-> "synced"]
    /\ UNCHANGED <<account, history, feed, outcomes, outbox, dispute, push, reader, made, accCount>>

\* The user takes the server's state; the observations go with the local one.
UseServer ==
    /\ dispute # Nil /\ push = Nil
    /\ phone' = [st |-> dispute.server, ver |-> dispute.ver, status |-> "synced"]
    /\ made' = {o \in made : o \notin Range(dispute.local.obs)}
    /\ dispute' = Nil
    /\ UNCHANGED <<account, history, feed, outcomes, outbox, push, reader, accCount>>

\* The user keeps the local state: a new mutation on the server's version with
\* the same observations.
KeepMine ==
    LET l == dispute.local IN
    /\ dispute # Nil /\ push = Nil /\ dispute.ver # 0
    /\ outbox' = [key |-> NewId, status |-> "queued",
                  body |-> Body(dispute.ver, dispute.server, l.obs, l.fin)]
    /\ phone' = [phone EXCEPT !.status = "pending", !.ver = dispute.ver]
    /\ dispute' = Nil
    /\ accCount' = [accCount EXCEPT !.ids = @ + 1]
    /\ UNCHANGED <<account, history, feed, outcomes, push, reader, made>>

-----------------------------------------------------------------------------
(* The server *)

\* A snapshot row is inserted; its trigger appends it to the journal.
Insert(id, snapshot) ==
    /\ history' = [i \in DOMAIN history \cup {id} |-> IF i = id THEN snapshot ELSE history[i]]
    /\ feed' = Append(feed, id)

\* The trigger numbers a real change of the row.
Stored(st) ==
    IF account = Nil THEN [st |-> st, ver |-> 1]
    ELSE IF account.st = st THEN account ELSE [st |-> st, ver |-> account.ver + 1]

\* The payload's own rules: dated in order, the last observation is the final
\* state, and the snapshot id is given exactly when that state is new.
Valid(b) ==
    b.obs # <<>> =>
        /\ \A i \in 2..Len(b.obs) : b.obs[i - 1].is.at <= b.obs[i].is.at
        /\ Dated(b.fin, Last(b.obs).is.at) = Last(b.obs).is
        /\ b.snap = Body(b.base, b.hb, b.obs, b.fin).snap

Outcome(b) ==
    IF ~ Valid(b) THEN [status |-> "rejected"]
    ELSE IF b.base # (IF account = Nil THEN 0 ELSE account.ver)
    THEN [status |-> "conflict", ver |-> IF account = Nil THEN 0 ELSE account.ver,
          st |-> IF account = Nil THEN Nil ELSE account.st]
    ELSE IF account # Nil /\ ~ Differs(account.st, b.fin) /\ b.snap # 0
    THEN [status |-> "rejected"]
    ELSE [status |-> "applied", ver |-> Stored(b.fin).ver]

\* The first transaction: the stored outcome, or the mutation is applied, with
\* a snapshot if its state is new, and its outcome stored.
PushCore ==
    LET known == {o \in outcomes : o.key = push.key}
        b == push.body
    IN
    /\ push # Nil /\ push.at = "core"
    /\ IF known # {}
       THEN /\ push' = [push EXCEPT !.at = "reconcile", !.result =
                 LET o == CHOOSE o \in known : TRUE IN
                 IF o.body # b THEN [status |-> "rejected"]
                 ELSE IF o.result.status = "applied" THEN [o.result EXCEPT !.status = "duplicate"]
                 ELSE o.result]
            /\ UNCHANGED <<account, history, feed, outcomes, accCount>>
       ELSE LET r == Outcome(b)
                id == IF b.snap = 0 THEN NewId ELSE b.snap
                snapshot == r.status = "applied" /\ (account = Nil \/ Differs(account.st, b.fin))
            IN /\ push' = [push EXCEPT !.at = "reconcile", !.result = r]
               /\ outcomes' = outcomes \cup {[key |-> push.key, body |-> b, result |-> r]}
               /\ account' = IF r.status = "applied" THEN Stored(b.fin) ELSE account
               /\ IF snapshot THEN Insert(id, Dated(b.fin, Now)) ELSE UNCHANGED <<history, feed>>
               /\ accCount' = [accCount EXCEPT !.ids = @ + 1]
    /\ UNCHANGED <<phone, outbox, dispute, reader, made>>

\* Mutant: a duplicate is taken for finished.
ReconcilesOnce(status) == status = "applied"

\* A duplicate is reconciled again: the process may have stopped in between.
Reconciles(status) == status \in {"applied", "duplicate"}

\* The ids of observations that the history lacks, in their order.
Unrecorded(obs) ==
    LET lacking == {n \in DOMAIN obs : obs[n].id \notin DOMAIN history}
        nth(k) == CHOOSE n \in lacking : Cardinality({m \in lacking : m <= n}) = k
    IN [k \in 1..Cardinality(lacking) |-> obs[nth(k)].id]

\* The second transaction: every observation of an applied mutation is inserted
\* or, the one the first transaction dated, rewritten with its journal entry.
PushReconcile ==
    LET told == [i \in {o.id : o \in Range(push.body.obs)} |->
                   (CHOOSE o \in Range(push.body.obs) : o.id = i).is]
    IN
    /\ push # Nil /\ push.at = "reconcile"
    /\ push' = [push EXCEPT !.at = "answer"]
    /\ IF Reconciles(push.result.status)
       THEN /\ history' = [i \in DOMAIN history \cup DOMAIN told |->
                             IF i \in DOMAIN told THEN told[i] ELSE history[i]]
            /\ feed' = feed \o Unrecorded(push.body.obs)
       ELSE UNCHANGED <<history, feed>>
    /\ UNCHANGED <<account, outcomes, phone, outbox, dispute, reader, made, accCount>>

\* create_financial_account and update_financial_account.
WebWrite(fin) ==
    /\ accCount.web < MaxWebEdits
    /\ account = Nil => phone = Nil /\ fin.counted
    /\ account # Nil => account.st # fin
    /\ account' = Stored(fin)
    /\ IF account = Nil \/ Differs(account.st, fin)
       THEN Insert(NewId, Dated(fin, Now)) ELSE UNCHANGED <<history, feed>>
    /\ Count("web", 1)
    /\ UNCHANGED <<outcomes, phone, outbox, dispute, push, reader, made>>

\* record_financial_account_balance: a snapshot and a version even for the same
\* balance, whose date is new.
WebRecord(bal) ==
    LET st == [account.st EXCEPT !.bal = bal] IN
    /\ accCount.web < MaxWebEdits
    /\ account # Nil /\ account.st.counted
    /\ st \in State
    /\ account' = [st |-> st, ver |-> account.ver + 1]
    /\ Insert(NewId, Dated(st, Now))
    /\ Count("web", 1)
    /\ UNCHANGED <<outcomes, phone, outbox, dispute, push, reader, made>>

\* The other device pulls the journal to its end.
ReaderPull ==
    /\ reader.seen < Len(feed)
    /\ LET new == Range(SubSeq(feed, reader.seen + 1, Len(feed))) IN
       reader' = [seen |-> Len(feed),
                  copy |-> [i \in DOMAIN reader.copy \cup new |->
                              IF i \in new THEN history[i] ELSE reader.copy[i]]]
    /\ UNCHANGED <<account, history, feed, outcomes, phone, outbox, dispute, push, made, accCount>>

Next ==
    \/ \E fin \in State : (\E at \in Times : Edit(fin, at)) \/ WebWrite(fin)
    \/ \E st \in State : WebRecord(st.bal)
    \/ Send \/ PushCore \/ PushReconcile \/ Persist \/ Lose
    \/ PullAccount \/ UseServer \/ KeepMine \/ ReaderPull

Spec == Init /\ [][Next]_accVars

-----------------------------------------------------------------------------
(* Properties *)

Snapshot == {Dated(s, at) : s \in State, at \in Times \cup {Now}}

Observation == [id : Nat, is : Snapshot]

Mutation == [base : Nat, hb : State \cup {Nil}, obs : Seq(Observation), fin : State, snap : Nat]

Row == [st : State, ver : Nat]

PhoneRow == [st : State, ver : Nat, status : {"pending", "synced", "failed", "conflict"}]

OutboxRow == [key : Nat, status : {"queued", "sending", "failed"}, body : Mutation]

Result ==
    [status : {"rejected"}] \cup [status : {"applied", "duplicate"}, ver : Nat]
      \cup [status : {"conflict"}, ver : Nat, st : State]

Stage == {"core", "reconcile", "answer"}

Push == [key : Nat, body : Mutation, at : Stage, result : Result \cup {Nil}]

Dispute == [ver : Nat, server : State, local : Mutation]

TypeOK ==
    /\ account \in Row \cup {Nil}
    /\ history \in [DOMAIN history -> Snapshot]
    /\ feed \in Seq(DOMAIN history) /\ IsInjective(feed)
    /\ outcomes \subseteq [key : Nat, body : Mutation, result : Result]
    /\ phone \in PhoneRow \cup {Nil}
    /\ outbox \in OutboxRow \cup {Nil}
    /\ dispute \in Dispute \cup {Nil}
    /\ push \in Push \cup {Nil}
    /\ reader.seen \in 0..Len(feed) /\ DOMAIN reader.copy = {feed[n] : n \in 1..reader.seen}
    /\ made \subseteq Observation
    /\ accCount \in [ids : Nat, edits : Nat, web : Nat, lost : Nat]

\* Once the phone has nothing to send and nothing to resolve, every observation
\* it made is in the history with its own date, whichever answers and processes
\* were lost between the two transactions of its push; and the state the
\* server holds is always in the history.
HistoryComplete ==
    /\ outbox = Nil /\ dispute = Nil =>
         \A o \in made : o.id \in DOMAIN history /\ history[o.id] = o.is
    /\ account # Nil => \E i \in DOMAIN history : Dated(account.st, history[i].at) = history[i]

\* The server refuses a mutation only if the phone's clock stepped back between
\* its observations, or the mutation was edited after the server had stored its
\* outcome: the base of the history that coalesced edits keep agrees with the
\* row the server holds.
RefusalHasCause ==
    outbox # Nil /\ outbox.status = "failed" =>
        \/ ~ Valid(outbox.body)
        \/ \E o \in outcomes : o.key = outbox.key /\ (o.body # outbox.body \/ ~ Valid(o.body))

\* The journal tells a device every state of the history up to its cursor.  The
\* second transaction of a push dates an entry that the first has published: a
\* device that pulled in between keeps the server's date, and nothing else.
ReaderFollows ==
    \A i \in {feed[n] : n \in 1..reader.seen} :
        reader.copy[i] \in {history[i], [history[i] EXCEPT !.at = Now]}

\* The balance history through lost answers, retries and resolved conflicts: it is
\* complete, refuses only what it must, and other devices read it.
AccountsSafe == TypeOK /\ HistoryComplete /\ RefusalHasCause /\ ReaderFollows

=============================================================================
