------------------------------ MODULE Suggestions ------------------------------
(***************************************************************************)
(* The category suggested for a transaction: the user's latest choice for  *)
(* the merchant, or the global model's; and the feedback that a manual     *)
(* write leaves with the choice made.  The classifier is a constant.       *)
(***************************************************************************)
EXTENDS Naturals, FiniteSets

CONSTANTS
    Txn,        \* transaction ids
    Purchase,   \* a canonical merchant and a transaction type
    Category,   \* names; each of one type
    Fitting,     \* the categories that fit a purchase
    Global,     \* the best system category the classifier ranks for a purchase
    Recent,     \* decisions looked at
    MaxWrites,  \* bound: writes of transactions and categories
    Nil

VARIABLES
    feedback,   \* by transaction: the suggestion and the choice
    archived,   \* categories that are archived or not there
    suggClock,  \* writes so far; the database's clock
    chosen      \* history: the latest choice written for a purchase, while it stands

suggVars == <<feedback, archived, suggClock, chosen>>

Decision == [purchase : Purchase, source : {"user_history", "global_model"},
             suggested : Category \cup {Nil}, selected : Category \cup {Nil}, updated : Nat, created : Nat]

Choice == [cat : Category, by : Txn]

Init ==
    /\ feedback = [t \in Txn |-> Nil]
    /\ archived = {}
    /\ suggClock = 0
    /\ chosen = [p \in Purchase |-> Nil]

-----------------------------------------------------------------------------

Newer(f, g) ==
    \/ f.updated > g.updated
    \/ f.updated = g.updated /\ f.created > g.created

\* Mutant: the transaction that is written counts too.
OthersAll(t) == Txn

Others(t) == Txn \ {t}

\* The decisions of the user for the purchase.
Decisions(p, ids) ==
    {feedback[u] : u \in {t \in ids : feedback[t] # Nil /\ feedback[t].purchase = p}}

Ahead(p, ids, f) == {g \in Decisions(p, ids) : Newer(g, f)}

\* The recent ones whose category is active.
Usable(p, ids) ==
    {f \in Decisions(p, ids) :
        /\ Cardinality(Ahead(p, ids, f)) < Recent
        /\ f.selected \in Fitting[p] \ archived}

\* _history_candidate: the latest of them, the transaction itself left out.
History(p, ids) ==
    IF Usable(p, ids) = {} THEN Nil
    ELSE (CHOOSE f \in Usable(p, ids) : \A g \in Usable(p, ids) : ~ Newer(g, f)).selected

\* build_category_suggestion
Candidate(p, ids) ==
    IF History(p, ids) # Nil THEN [category |-> History(p, ids), source |-> "user_history"]
    ELSE [category |-> Global[p], source |-> "global_model"]

\* record_category_feedback: the row of the transaction is made or replaced; a
\* correction is dated, and a row that does not change keeps its date.
Feedback(t, p, candidate, cat) ==
    LET new == [purchase |-> p, source |-> candidate.source, suggested |-> candidate.category,
                selected |-> cat, updated |-> suggClock + 1,
                created |-> IF feedback[t] = Nil THEN suggClock + 1 ELSE feedback[t].created]
    IN IF /\ feedback[t] # Nil /\ cat = candidate.category
          /\ [new EXCEPT !.updated = feedback[t].updated] = feedback[t]
       THEN feedback[t] ELSE new

\* What a purchase whose latest choice is gone or moved no longer promises.
Without(t) == [p \in Purchase |-> IF chosen[p] # Nil /\ chosen[p].by = t THEN Nil ELSE chosen[p]]

Tick == suggClock < MaxWrites /\ suggClock' = suggClock + 1

\* create_transaction_with_feedback and update_transaction_with_feedback: the
\* row, its suggestion and the choice in one transaction.  Other writes of a
\* transaction leave its feedback as it is.  A suggestion that is accepted again
\* changes no row: the choice it repeats stays the latest.
Save(t, p, cat) ==
    /\ Tick
    /\ cat \in Fitting[p] \ archived
    /\ feedback' = [feedback EXCEPT ![t] = Feedback(t, p, Candidate(p, Others(t)), cat)]
    /\ chosen' = IF feedback' = feedback THEN chosen
                 ELSE [Without(t) EXCEPT ![p] = [cat |-> cat, by |-> t]]
    /\ UNCHANGED archived

\* The feedback goes with its transaction.
Delete(t) ==
    /\ Tick
    /\ feedback[t] # Nil
    /\ feedback' = [feedback EXCEPT ![t] = Nil]
    /\ chosen' = Without(t)
    /\ UNCHANGED archived

\* A category of the user is archived, its transactions moved or not; the
\* feedback stays and the category can be restored.
Archive(cat) ==
    /\ Tick
    /\ cat \notin archived /\ \A p \in Purchase : Global[p] # cat
    /\ archived' = archived \cup {cat}
    /\ chosen' = [p \in Purchase |-> IF chosen[p] # Nil /\ chosen[p].cat = cat THEN Nil ELSE chosen[p]]
    /\ UNCHANGED feedback

\* A push deletes a category that no transaction uses any more: the decisions that
\* name it lose the name and keep their dates.  If none does, it is as archived.
Remove(cat) ==
    LET freed(c) == IF c = cat THEN Nil ELSE c
    IN /\ Tick
       /\ \A p \in Purchase : Global[p] # cat
       /\ \E t \in Txn : feedback[t] # Nil /\ cat \in {feedback[t].suggested, feedback[t].selected}
       /\ feedback' = [t \in Txn |->
             IF feedback[t] = Nil THEN Nil
             ELSE [feedback[t] EXCEPT !.suggested = freed(@), !.selected = freed(@)]]
       /\ archived' = archived \cup {cat}
       /\ chosen' = [p \in Purchase |-> IF chosen[p] # Nil /\ chosen[p].cat = cat THEN Nil ELSE chosen[p]]

\* An archived category is restored, or one that was deleted is made anew.
Restore(cat) ==
    /\ Tick
    /\ cat \in archived
    /\ archived' = archived \ {cat}
    /\ chosen' = [p \in Purchase |-> IF cat \in Fitting[p] THEN Nil ELSE chosen[p]]
    /\ UNCHANGED feedback

Next ==
    \/ \E t \in Txn : (\E p \in Purchase, cat \in Category : Save(t, p, cat)) \/ Delete(t)
    \/ \E cat \in Category : Archive(cat) \/ Remove(cat) \/ Restore(cat)

Spec == Init /\ [][Next]_suggVars

-----------------------------------------------------------------------------
(* Properties *)

\* What the user last chose for a merchant is what the preview suggests next,
\* whichever transactions, corrections, deletions and archivals came between, as
\* long as the transaction that taught it stands and no category of the type is
\* restored.
LatestChoiceOffered ==
    \A p \in Purchase : chosen[p] # Nil => Candidate(p, Txn).category = chosen[p].cat

Decided(t) ==
    feedback'[t] # Nil /\ (feedback[t] # Nil => feedback'[t].updated # feedback[t].updated)

\* A decision is credited to the user's history only if another transaction
\* had taught it: re-saving a transaction does not confirm itself.
HistoryIsOthers ==
    [][\A t \in Txn :
        Decided(t) /\ feedback'[t].source = "user_history" =>
            \E u \in Txn \ {t} : feedback[u] # Nil /\ feedback[u].selected = feedback'[t].suggested]_suggVars

\* What the user teaches is what the preview repeats, and only that.
SuggestionsSafe == []LatestChoiceOffered /\ HistoryIsOthers

=============================================================================
