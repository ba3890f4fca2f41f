----------------------------- MODULE Categories -----------------------------
(***************************************************************************)
(* One account's categories: the web creates, renames, archives, reassigns *)
(* and restores them, phones push upserts and deletes, and transactions    *)
(* are written into them.  The web and the writers of transactions read    *)
(* without locks (READ COMMITTED) and write later; a push worker locks the *)
(* category's row from its read to its commit.                             *)
(***************************************************************************)
EXTENDS Naturals, FiniteSets

CONSTANTS
    Category,     \* ids of the account's own categories
    SystemName,   \* names of seeded categories: always visible and active
    CatWorker,    \* request handlers
    CatRequest,   \* requests they may get
    Spending,     \* ids of transactions
    MaxCatRequests, \* bound: requests served
    Nil

VARIABLES
    catRows,   \* committed row of each category, or Nil
    catUse,    \* category and type of each transaction, or Nil
    catTask,   \* what each worker is doing, or Nil
    catServed  \* requests begun

catVars == <<catRows, catUse, catTask, catServed>>

Kind == {"expense", "income"}

Init ==
    /\ catRows = [c \in Category |-> Nil]
    /\ catUse = [t \in Spending |-> Nil]
    /\ catTask = [w \in CatWorker |-> Nil]
    /\ catServed = 0

Doing(w, at) == catTask[w] # Nil /\ catTask[w].at = at

Pushes == {"push", "pushDelete"}

-----------------------------------------------------------------------------
(* Locks *)

\* Mutant: a web write does not wait for a row lock.
UnlockedAlways(c) == c \in Category

\* The push worker whose transaction holds the row; a web write waits for it.
Unlocked(c) == \A w \in CatWorker : Doing(w, "holding") => catTask[w].req.cat # c

\* A reassignment has written references to its target and not committed:
\* SELECT FOR UPDATE of the target waits.
KeyShared(c) == \E w \in CatWorker : Doing(w, "moved") /\ catTask[w].req.to = c

\* Transactions an uncommitted reassignment has updated.
RowFree(t) == \A w \in CatWorker : Doing(w, "moved") => t \notin catTask[w].moved

UsersOf(c) == {t \in Spending : catUse[t] # Nil /\ catUse[t].cat = c}

SameName(row, name, kind) == row # Nil /\ row.name = name /\ row.type = kind

\* The unique index waits while another transaction adds or removes a rival.
IndexSettled(c, name, kind) ==
    \A w \in CatWorker : Doing(w, "holding") /\ catTask[w].req.cat # c =>
        \A row \in {catTask[w].row, catRows[catTask[w].req.cat]} :
            ~ SameName(row, name, kind)

IndexFree(c, name, kind) ==
    \A o \in Category \ {c} : ~ SameName(catRows[o], name, kind)

-----------------------------------------------------------------------------
(* The web and the writers of transactions *)

Begin(w) ==
    /\ catTask[w] = Nil
    /\ catServed < MaxCatRequests
    /\ \E r \in CatRequest : catTask' = [catTask EXCEPT ![w] = [at |-> "read", req |-> r]]
    /\ catServed' = catServed + 1
    /\ UNCHANGED <<catRows, catUse>>

\* A name the user sees, archived or not, other than c's.
NameTaken(c, name, kind) == name \in SystemName \/ ~ IndexFree(c, name, kind)

Active(c) == catRows[c] # Nil /\ ~ catRows[c].archived

\* What the handler checks before it writes; the name a category has already
\* is not written.
Accepts(r) ==
    LET row == catRows[r.cat] IN
    CASE r.op = "create"   -> row = Nil /\ ~ NameTaken(r.cat, r.name, r.type)
      [] r.op = "rename"   -> /\ row # Nil /\ row.name # r.name
                              /\ ~ NameTaken(r.cat, r.name, row.type)
      [] r.op = "archive"  -> Active(r.cat)
      [] r.op = "reassign" -> /\ Active(r.cat) /\ Active(r.to) /\ r.to # r.cat
                              /\ catRows[r.to].type = row.type
      [] r.op = "restore"  -> /\ row # Nil /\ row.archived
                              /\ ~ NameTaken(r.cat, row.name, row.type)
      [] r.op = "use"      -> Active(r.cat) /\ row.type = r.type

Refuse(w) ==
    /\ Doing(w, "read") /\ catTask[w].req.op \notin Pushes
    /\ ~ Accepts(catTask[w].req)
    /\ catTask' = [catTask EXCEPT ![w] = Nil]
    /\ UNCHANGED <<catRows, catUse, catServed>>

Check(w) ==
    /\ Doing(w, "read") /\ catTask[w].req.op \notin Pushes \cup {"reassign"}
    /\ Accepts(catTask[w].req)
    /\ catTask' = [catTask EXCEPT ![w].at = "checked"]
    /\ UNCHANGED <<catRows, catUse, catServed>>

\* The checks of a reassignment and its bulk update, which locks what it moves
\* and key-shares its target until the commit.
Move(w) ==
    LET r == catTask[w].req IN
    /\ Doing(w, "read") /\ r.op = "reassign"
    /\ Accepts(r)
    /\ Unlocked(r.to)
    /\ \A t \in UsersOf(r.cat) : RowFree(t)
    /\ catTask' = [catTask EXCEPT ![w] =
         [at |-> "moved", req |-> r, moved |-> UsersOf(r.cat)]]
    /\ UNCHANGED <<catRows, catUse, catServed>>

\* The trigger numbers a real change of the row.
Changed(row, new) == IF row = new THEN row ELSE [new EXCEPT !.ver = @ + 1]

NewRow(r) == [name |-> r.name, type |-> r.type, archived |-> FALSE, ver |-> 1]

\* The row a web handler writes; the columns it does not set stay as they are now.
WebRow(r) ==
    CASE r.op = "create" -> NewRow(r)
      [] r.op = "rename" -> Changed(catRows[r.cat], [catRows[r.cat] EXCEPT !.name = r.name])
      [] r.op = "restore" -> Changed(catRows[r.cat], [catRows[r.cat] EXCEPT !.archived = FALSE])
      [] OTHER -> Changed(catRows[r.cat], [catRows[r.cat] EXCEPT !.archived = TRUE])

\* The write and its commit.  A vanished row (StaleDataError) or a name taken
\* meanwhile (IntegrityError) rolls it back.
WriteCategory(w) ==
    LET r == catTask[w].req IN
    /\ Doing(w, "checked") \/ Doing(w, "moved")
    /\ r.op # "use"
    /\ Unlocked(r.cat)
    /\ LET gone == (catRows[r.cat] = Nil) # (r.op = "create")
           new  == WebRow(r)
       IN IF gone THEN UNCHANGED <<catRows, catUse>>
          ELSE /\ IndexSettled(r.cat, new.name, new.type)
               /\ IF IndexFree(r.cat, new.name, new.type)
                  THEN /\ catRows' = [catRows EXCEPT ![r.cat] = new]
                       /\ catUse' = [t \in Spending |->
                            IF Doing(w, "moved") /\ t \in catTask[w].moved
                            THEN [catUse[t] EXCEPT !.cat = r.to] ELSE catUse[t]]
                  ELSE UNCHANGED <<catRows, catUse>>
    /\ catTask' = [catTask EXCEPT ![w] = Nil]
    /\ UNCHANGED catServed

\* A transaction is created, or moved to the category, and committed: the
\* foreign key key-shares the category's row.
WriteUse(w) ==
    LET r == catTask[w].req IN
    /\ Doing(w, "checked") /\ r.op = "use"
    /\ Unlocked(r.cat) /\ RowFree(r.tx)
    /\ catUse' = IF catRows[r.cat] = Nil THEN catUse
                 ELSE [catUse EXCEPT ![r.tx] = [cat |-> r.cat, type |-> r.type]]
    /\ catTask' = [catTask EXCEPT ![w] = Nil]
    /\ UNCHANGED <<catRows, catServed>>

-----------------------------------------------------------------------------
(* sync-v1 *)

\* Rejected and conflicting pushes.
PushRefused(r) ==
    LET row  == catRows[r.cat]
        used == UsersOf(r.cat) # {}
    IN IF r.op = "pushDelete" THEN row = Nil \/ row.ver # r.base \/ used
       ELSE \/ r.name \in SystemName
            \/ \E o \in Category \ {r.cat} : Active(o) /\ SameName(catRows[o], r.name, r.type)
            \/ row = Nil /\ r.base # 0
            \/ row # Nil /\ \/ row.ver # r.base
                            \/ used /\ row.type # r.type
                            \/ used /\ r.archived /\ ~ row.archived
            \/ ~ IndexFree(r.cat, r.name, r.type)

PushedRow(r) ==
    LET fresh == [name |-> r.name, type |-> r.type, archived |-> r.archived, ver |-> 1]
    IN IF r.op = "pushDelete" THEN Nil
       ELSE IF catRows[r.cat] = Nil THEN fresh
       ELSE Changed(catRows[r.cat], [fresh EXCEPT !.ver = catRows[r.cat].ver])

\* SELECT FOR UPDATE, the decision and the flush of one mutation.
Push(w) ==
    LET r == catTask[w].req IN
    /\ Doing(w, "read") /\ r.op \in Pushes
    /\ Unlocked(r.cat) /\ ~ KeyShared(r.cat)
    /\ r.op = "push" => IndexSettled(r.cat, r.name, r.type)
    /\ catTask' = [catTask EXCEPT ![w] =
         IF PushRefused(r) THEN Nil
         ELSE [at |-> "holding", req |-> r, row |-> PushedRow(r)]]
    /\ UNCHANGED <<catRows, catUse, catServed>>

PushCommit(w) ==
    /\ Doing(w, "holding")
    /\ catRows' = [catRows EXCEPT ![catTask[w].req.cat] = catTask[w].row]
    /\ catTask' = [catTask EXCEPT ![w] = Nil]
    /\ UNCHANGED <<catUse, catServed>>

\* The database or the process fails; nothing of the transaction remains.
Fail(w) ==
    /\ Doing(w, "moved") \/ Doing(w, "holding")
    /\ catTask' = [catTask EXCEPT ![w] = Nil]
    /\ UNCHANGED <<catRows, catUse, catServed>>

Next ==
    \E w \in CatWorker :
        \/ Begin(w) \/ Refuse(w) \/ Check(w) \/ Move(w)
        \/ WriteCategory(w) \/ WriteUse(w)
        \/ Push(w) \/ PushCommit(w) \/ Fail(w)

Spec == Init /\ [][Next]_catVars

-----------------------------------------------------------------------------
(* Properties *)

Row == [name : STRING, type : Kind, archived : BOOLEAN, ver : Nat \ {0}]

Use == [cat : Category, type : Kind]

\* What a request carries.
Request ==
    [op : {"create"}, cat : Category, name : STRING, type : Kind]
      \cup [op : {"archive", "restore"}, cat : Category]
      \cup [op : {"rename"}, cat : Category, name : STRING]
      \cup [op : {"reassign"}, cat : Category, to : Category]
      \cup [op : {"use"}, cat : Category, tx : Spending, type : Kind]
      \cup [op : {"push"}, cat : Category, name : STRING, type : Kind, archived : BOOLEAN, base : Nat]
      \cup [op : {"pushDelete"}, cat : Category, base : Nat]

Task ==
    [at : {"read", "checked"}, req : CatRequest]
      \cup [at : {"moved"}, req : CatRequest, moved : SUBSET Spending]
      \cup [at : {"holding"}, req : CatRequest, row : Row \cup {Nil}]

TypeOK ==
    /\ catRows \in [Category -> Row \cup {Nil}]
    /\ catUse \in [Spending -> Use \cup {Nil}]
    /\ catTask \in [CatWorker -> Task \cup {Nil}]
    /\ catServed \in 0..MaxCatRequests

\* Two categories never have one name and type, however the checks of the web
\* and of the push workers and their commits interleave.
NameHeldOnce ==
    \A c, d \in Category : c # d /\ catRows[c] # Nil =>
        ~ SameName(catRows[d], catRows[c].name, catRows[c].type)

\* No transaction is left in a category that a push deleted while another
\* request was writing the transaction.
NoOrphanedUse ==
    \A t \in Spending : catUse[t] # Nil => catRows[catUse[t].cat] # Nil

\* A push replaces the version the phone declared and no other: a rename or an
\* archive of the web cannot slip between its read and its commit.
PushReplacesDeclared ==
    [][\A w \in CatWorker : PushCommit(w) =>
         LET r == catTask[w].req IN
         catRows[r.cat] # Nil => catRows[r.cat].ver = r.base]_catVars

\* A push deletes, archives or changes the type of a category only when no
\* transaction uses it at the commit, also when a reassignment is bringing
\* transactions to it.
PushSparesUsed ==
    [][\A w \in CatWorker : PushCommit(w) =>
         LET r == catTask[w].req  new == catTask[w].row IN
         catRows[r.cat] # Nil /\ (\/ new = Nil
                                  \/ new.type # catRows[r.cat].type
                                  \/ new.archived /\ ~ catRows[r.cat].archived)
         => UsersOf(r.cat) = {}]_catVars

\* Categories under concurrent web requests and push workers: names, rows in use
\* and the versions a phone declared all survive every interleaving.
CategoriesSafe ==
    /\ [](TypeOK /\ NameHeldOnce /\ NoOrphanedUse)
    /\ PushReplacesDeclared
    /\ PushSparesUsed

=============================================================================
