------------------------------ MODULE CsvImport ------------------------------
(***************************************************************************)
(* The import of a bank statement: a request parses the whole file again,  *)
(* reads the active categories, then the transactions of the file's dates, *)
(* and inserts the rows it takes for new under one batch, while other      *)
(* requests import, edit and delete, and categories are archived or, by a  *)
(* push, deleted.  A row is a day, the rest of what makes its fingerprint, *)
(* a type and a category, which is named for good.                         *)
(***************************************************************************)
EXTENDS Naturals, FiniteSets, Sequences

CONSTANTS
    Importer,    \* requests being served
    File,        \* statements a user may upload: sequences of rows
    Day,         \* dates
    What,        \* the other fields of a fingerprint
    CategoryOf,  \* categories by type; the default's first, a system category
    MaxImports,  \* bound: requests begun
    MaxEdits,    \* bound: other writes
    Nil

VARIABLES
    txs,       \* transactions by id: day, what, category, stored fingerprint, batch
    batches,   \* committed batches by id: counts, and the request that made it
    closed,    \* categories that are not active: archived or deleted
    gone,      \* categories deleted
    task,      \* worker -> the request it serves, or Nil
    replies,   \* replies: request, outcome, the rows counted
    impCount   \* requests and edits so far, and the next id

impVars == <<txs, batches, closed, gone, task, replies, impCount>>

Fingerprint(r) == <<r.day, r.what>>

Default(type) == CategoryOf[type][1]

Named(r) == IF r.cat = Nil THEN Default(r.type) ELSE r.cat

Init ==
    /\ txs = <<>>
    /\ batches = <<>>
    /\ closed = {}
    /\ gone = {}
    /\ task = [w \in Importer |-> Nil]
    /\ replies = {}
    /\ impCount = [imports |-> 0, edits |-> 0, id |-> 1]

-----------------------------------------------------------------------------
(* Parsing and preparation *)

\* A row is a candidate if it parses and its category is active for its type.
Candidate(r) ==
    /\ r.ok
    /\ \E n \in DOMAIN CategoryOf[r.type] : CategoryOf[r.type][n] = Named(r)
    /\ Named(r) \notin closed

\* Mutant: only what an import stored is compared.
ExistingStored(rows) == {txs[i].stored : i \in DOMAIN txs}

\* The fingerprints of the transactions in the range of the candidates' dates:
\* the one stored at import, and the one of today's fields.
Existing(rows) ==
    LET days == {r.day : r \in rows}
        near == {i \in DOMAIN txs : \E first, last \in days : txs[i].day \in first..last}
    IN {txs[i].stored : i \in near} \cup {Fingerprint(txs[i]) : i \in near}

\* The candidates to import: the first of each fingerprint not seen before.
Fresh(file, kept, seen) ==
    {n \in kept : /\ Fingerprint(file[n]) \notin seen
                  /\ \A k \in kept : k < n => Fingerprint(file[k]) # Fingerprint(file[n])}

\* A request arrives; the file is parsed and the categories are read.
ReadCategories(w, op, file) ==
    /\ task[w] = Nil
    /\ impCount.imports < MaxImports
    /\ task' = [task EXCEPT ![w] =
         [id |-> impCount.id, op |-> op, file |-> file, at |-> "candidates",
          bad |-> {n \in DOMAIN file : ~ Candidate(file[n])}, fresh |-> {}, overtaken |-> FALSE]]
    /\ impCount' = [impCount EXCEPT !.imports = @ + 1, !.id = @ + 1]
    /\ UNCHANGED <<txs, batches, closed, gone, replies>>

\* The candidates' numbers in the file.
Kept(t) == DOMAIN t.file \ t.bad

\* The duplicates are told from the new rows; an invalid row is neither.
ReadTransactions(w) ==
    LET file == task[w].file
        kept == Kept(task[w])
    IN
    /\ task[w] # Nil /\ task[w].at = "candidates"
    /\ task' = [task EXCEPT ![w].at = "prepared",
                            ![w].fresh = Fresh(file, kept, Existing({file[n] : n \in kept}))]
    /\ UNCHANGED <<txs, batches, closed, gone, replies, impCount>>

-----------------------------------------------------------------------------
(* Answers *)

\* What a request is told: how many rows are new, duplicate and invalid.
Counts(t) ==
    [total |-> Len(t.file), new |-> Cardinality(t.fresh), bad |-> Cardinality(t.bad),
     dup |-> Len(t.file) - Cardinality(t.fresh) - Cardinality(t.bad)]

\* History: these requests under way do not know of a change.
Overtaken(ws) ==
    [w \in Importer |-> IF task[w] # Nil /\ w \in ws THEN [task[w] EXCEPT !.overtaken = TRUE]
                      ELSE task[w]]

\* History: since the request arrived an import was committed, an imported
\* transaction edited or a category of its rows deleted, or there is a transaction
\* edited since its import.
Caused(t) ==
    \/ t.overtaken
    \/ \E i \in DOMAIN txs : txs[i].stored # Nil /\ txs[i].stored # Fingerprint(txs[i])

Reply(w, outcome) ==
    /\ replies' = replies \cup {[id |-> task[w].id, op |-> task[w].op, outcome |-> outcome,
                                 counts |-> Counts(task[w]), caused |-> Caused(task[w])]}
    /\ task' = [Overtaken(IF outcome = "committed" THEN Importer ELSE {}) EXCEPT ![w] = Nil]

Preview(w) ==
    /\ task[w] # Nil /\ task[w].at = "prepared" /\ task[w].op = "preview"
    /\ Reply(w, "previewed")
    /\ UNCHANGED <<txs, batches, closed, gone, impCount>>

\* One invalid row blocks the whole commit.
Block(w) ==
    /\ task[w] # Nil /\ task[w].at = "prepared" /\ task[w].op = "commit"
    /\ task[w].bad # {}
    /\ Reply(w, "blocked")
    /\ UNCHANGED <<txs, batches, closed, gone, impCount>>

\* The unique index on the fingerprint stored at import.
IndexHolds(fps) == \A i \in DOMAIN txs : txs[i].stored \notin fps

\* The foreign key on the category, which the request read when it began.
CategoriesHold(rows) == \A r \in rows : Named(r) \notin gone

BatchOf(t) == Counts(t)

\* The batch and its rows are inserted and committed together, or one of the
\* two constraints is violated, nothing is, and the answer is a conflict.
Commit(w) ==
    LET t == task[w]
        row(n) == [day |-> t.file[n].day, what |-> t.file[n].what, cat |-> Named(t.file[n]),
                   stored |-> Fingerprint(t.file[n]), batch |-> t.id]
        ids == {impCount.id + n : n \in t.fresh}
    IN
    /\ t # Nil /\ t.at = "prepared" /\ t.op = "commit" /\ t.bad = {}
    /\ IF /\ IndexHolds({Fingerprint(t.file[n]) : n \in t.fresh})
          /\ CategoriesHold({t.file[n] : n \in t.fresh})
       THEN /\ batches' = [b \in DOMAIN batches \cup {t.id} |->
                             IF b = t.id THEN BatchOf(t) ELSE batches[b]]
            /\ txs' = [i \in DOMAIN txs \cup ids |->
                         IF i \in DOMAIN txs THEN txs[i] ELSE row(i - impCount.id)]
            /\ impCount' = [impCount EXCEPT !.id = @ + Len(t.file) + 1]
            /\ Reply(w, "committed")
       ELSE /\ Reply(w, "conflict")
            /\ UNCHANGED <<txs, batches, impCount>>
    /\ UNCHANGED <<closed, gone>>

-----------------------------------------------------------------------------
(* Everything else the user does *)

Edited == impCount.edits < MaxEdits /\ impCount' = [impCount EXCEPT !.edits = @ + 1, !.id = @ + 1]

\* update_transaction changes the fields; what import stored stays.
Edit(i, day) ==
    /\ Edited
    /\ i \in DOMAIN txs /\ txs[i].day # day
    /\ txs' = [txs EXCEPT ![i].day = day]
    /\ task' = Overtaken(IF txs[i].stored # Nil THEN Importer ELSE {})
    /\ UNCHANGED <<batches, closed, gone, replies>>

Delete(i) ==
    /\ Edited
    /\ i \in DOMAIN txs
    /\ txs' = [k \in DOMAIN txs \ {i} |-> txs[k]]
    /\ UNCHANGED <<batches, closed, gone, task, replies>>

\* create_transaction, into an active category: no fingerprint is stored.
Enter(r) ==
    /\ Edited
    /\ Named(r) \notin closed
    /\ txs' = [i \in DOMAIN txs \cup {impCount.id} |->
                 IF i \in DOMAIN txs THEN txs[i]
                 ELSE [day |-> r.day, what |-> r.what, cat |-> Named(r),
                       stored |-> Nil, batch |-> Nil]]
    /\ UNCHANGED <<batches, closed, gone, task, replies>>

\* Nobody archives or deletes the system categories.
Own(c) == \A type \in DOMAIN CategoryOf : c # Default(type)

Archive(c) ==
    /\ Edited
    /\ Own(c)
    /\ closed' = closed \cup {c}
    /\ UNCHANGED <<txs, batches, gone, task, replies>>

\* A push deletes a category that no transaction uses.
DeleteCategory(c) ==
    /\ Edited
    /\ Own(c) /\ c \notin gone
    /\ \A i \in DOMAIN txs : txs[i].cat # c
    /\ closed' = closed \cup {c}
    /\ gone' = gone \cup {c}
    /\ task' = Overtaken({w \in Importer : task[w] # Nil
                            /\ \E n \in Kept(task[w]) : Named(task[w].file[n]) = c})
    /\ UNCHANGED <<txs, batches, replies>>

Next ==
    \/ \E w \in Importer :
         \/ \E op \in {"preview", "commit"}, f \in File : ReadCategories(w, op, f)
         \/ ReadTransactions(w) \/ Preview(w) \/ Block(w) \/ Commit(w)
    \/ \E i \in DOMAIN txs : Delete(i) \/ \E day \in Day : Edit(i, day)
    \/ \E f \in File : \/ Enter(f[1])
                      \/ Archive(Named(f[1])) \/ DeleteCategory(Named(f[1]))

Spec == Init /\ [][Next]_impVars

-----------------------------------------------------------------------------
(* Properties *)

Row == [ok : BOOLEAN, day : Day, what : What, type : DOMAIN CategoryOf, cat : STRING \cup {Nil}]

Tx == [day : Day, what : What, cat : STRING, stored : (Day \X What) \cup {Nil}, batch : Nat \cup {Nil}]

Count == [total : Nat, new : Nat, bad : Nat, dup : Nat]

Task == [id : Nat, op : {"preview", "commit"}, file : File, at : {"candidates", "prepared"},
         bad : SUBSET Nat, fresh : SUBSET Nat, overtaken : BOOLEAN]

Answer == [id : Nat, op : {"preview", "commit"},
           outcome : {"previewed", "blocked", "committed", "conflict"},
           counts : Count, caused : BOOLEAN]

TypeOK ==
    /\ txs \in [DOMAIN txs -> Tx] /\ DOMAIN txs \subseteq Nat
    /\ batches \in [DOMAIN batches -> Count] /\ DOMAIN batches \subseteq Nat
    /\ \A i \in DOMAIN txs : txs[i].batch \in DOMAIN batches \cup {Nil}
    /\ closed \subseteq STRING /\ gone \subseteq closed
    /\ task \in [Importer -> Task \cup {Nil}]
    /\ \A w \in Importer : task[w] # Nil =>
         /\ task[w].bad \cup task[w].fresh \subseteq DOMAIN task[w].file
         /\ task[w].bad \cap task[w].fresh = {}
    /\ replies \subseteq Answer
    /\ impCount \in [imports : 0..MaxImports, edits : 0..MaxEdits, id : Nat]

\* No two transactions were imported from the same movement, whatever two
\* imports of the same file read before either committed.
ImportedOnce ==
    \A i, k \in DOMAIN txs :
        txs[i].stored # Nil /\ txs[i].stored = txs[k].stored => i = k

\* A batch accounts for its file: every row was inserted or was a duplicate,
\* and the rows that name the batch are never more than it counts, fewer only
\* after a deletion.
BatchAccounts ==
    \A b \in DOMAIN batches :
        LET own == Cardinality({i \in DOMAIN txs : txs[i].batch = b}) IN
        /\ batches[b].total = batches[b].new + batches[b].dup
        /\ own <= batches[b].new
        /\ batches[b].new - own <= impCount.edits

\* A row is taken for new only if the account holds no transaction with the same
\* fields, imported, entered by hand or edited into them, whichever dates the
\* query was limited to.
NewRowsAreUnknown ==
    [][\A w \in Importer :
         task[w] # Nil /\ task[w].at = "candidates" /\ task'[w].at = "prepared" =>
           \A n \in task'[w].fresh, i \in DOMAIN txs :
              Fingerprint(txs[i]) # Fingerprint(task[w].file[n])]_impVars

\* The category of every transaction exists, although the rows of an import
\* are inserted into categories read earlier and without a lock.
CategoriesExist == \A i \in DOMAIN txs : txs[i].cat \notin gone

\* A commit is refused as a conflict only if, while it was prepared, another one
\* was committed, which is what the refusal says, an imported transaction was
\* edited or a push deleted a category that its rows name; or if an imported
\* transaction was edited before: then its file can never be imported again.
ConflictHasCause ==
    \A r \in replies : r.outcome = "conflict" => r.caused

\* Imports that overlap each other, the user's edits and pushes: nothing twice,
\* nothing uncounted or without a category, no duplicate taken for new and no
\* refusal without a cause.
ImportsSafe ==
    /\ [](TypeOK /\ ImportedOnce /\ BatchAccounts /\ CategoriesExist /\ ConflictHasCause)
    /\ NewRowsAreUnknown

=============================================================================
