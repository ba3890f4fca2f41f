------------------------------ MODULE Findings ------------------------------
(***************************************************************************)
(* The findings of one user: scans, one at a time under an advisory lock,  *)
(* load the transactions, compute what they give evidence of, read the     *)
(* stored findings and reconcile them; meanwhile transactions change and   *)
(* the user reviews findings without taking the lock.  Only the columns a  *)
(* writer changed are written back.                                        *)
(***************************************************************************)
EXTENDS Naturals, FiniteSets

CONSTANTS
    Fp,        \* fingerprints
    Scanner,   \* scan requests being served
    Reviewer,  \* review requests being served
    MaxScans,  \* bound: scans begun
    MaxWrites, \* bound: changes of the transactions
    MaxReviews,\* bound: reviews begun
    Nil

VARIABLES
    evidence,  \* fingerprints the transactions give evidence of
    findings,  \* fingerprint -> status and whether it is dated resolved, or Nil
    lock,      \* the scan that holds the advisory lock, or Nil
    scan,      \* scanner -> the scan it runs, or Nil
    review,    \* reviewer -> the review it runs, or Nil
    latest,    \* history: the newest evidence a committed scan loaded, and its age
    reviewed,  \* history: findings reviewed since that scan read them
    collided,  \* history: a scan failed on the unique constraint
    fndCount   \* scans, writes and reviews so far

fndVars == <<evidence, findings, lock, scan, review, latest, reviewed, collided, fndCount>>

Status == {"open", "dismissed", "resolved"}

Finding == [status : Status, dated : BOOLEAN]

Scan == [at : {"load", "read", "commit"}, loaded : SUBSET Fp, age : Nat,
         seen : [Fp -> Finding \cup {Nil}], since : SUBSET Fp]

Review == [of : Fp, old : Finding, new : Finding]

Init ==
    /\ evidence = {}
    /\ findings = [f \in Fp |-> Nil]
    /\ lock = Nil
    /\ scan = [s \in Scanner |-> Nil]
    /\ review = [r \in Reviewer |-> Nil]
    /\ latest = [of |-> {}, at |-> 0]
    /\ reviewed = {}
    /\ collided = FALSE
    /\ fndCount = [scans |-> 0, writes |-> 0, reviews |-> 0]

\* A row read as old and changed to new is written over the row that is there.
Written(row, old, new) ==
    [status |-> IF new.status = old.status THEN row.status ELSE new.status,
     dated |-> IF new.dated = old.dated THEN row.dated ELSE new.dated]

-----------------------------------------------------------------------------
(* Scans *)

Request(s) ==
    /\ scan[s] = Nil /\ fndCount.scans < MaxScans
    /\ scan' = [scan EXCEPT ![s] = [at |-> "load", loaded |-> {}, age |-> 0,
                                     seen |-> findings, since |-> {}]]
    /\ fndCount' = [fndCount EXCEPT !.scans = @ + 1]
    /\ UNCHANGED <<evidence, findings, lock, review, latest, reviewed, collided>>

Holds(s) == lock = s

MayLoad(s) == Holds(s)

Lock(s) ==
    /\ scan[s] # Nil /\ scan[s].at \in {"load", "read"} /\ lock = Nil
    /\ lock' = s
    /\ UNCHANGED <<evidence, findings, scan, review, latest, reviewed, collided, fndCount>>

\* The transactions are loaded and the rules applied.
Load(s) ==
    /\ scan[s] # Nil /\ scan[s].at = "load" /\ MayLoad(s)
    /\ scan' = [scan EXCEPT ![s].at = "read", ![s].loaded = evidence,
                            ![s].age = fndCount.writes]
    /\ UNCHANGED <<evidence, findings, lock, review, latest, reviewed, collided, fndCount>>

ReadFindings(s) ==
    /\ scan[s] # Nil /\ scan[s].at = "read" /\ Holds(s)
    /\ scan' = [scan EXCEPT ![s].at = "commit", ![s].seen = findings, ![s].since = {}]
    /\ UNCHANGED <<evidence, findings, lock, review, latest, reviewed, collided, fndCount>>

\* Mutant: a finding that still matches is opened whatever the user decided.
ApplyOpening(old) == [status |-> "open", dated |-> FALSE]

\* A finding that still matches: reopened if it was resolved.
Apply(old) ==
    IF old.status = "resolved" THEN [status |-> "open", dated |-> FALSE] ELSE old

\* What the scan makes of a finding it read.
Reconciled(f, t) ==
    LET old == t.seen[f] IN
    IF f \in t.loaded
    THEN IF old = Nil THEN [status |-> "open", dated |-> FALSE]
         ELSE Written(findings[f], old, Apply(old))
    ELSE IF old # Nil /\ old.status = "open"
         THEN Written(findings[f], old, [status |-> "resolved", dated |-> TRUE])
    ELSE findings[f]

\* The advisory lock ends with the transaction.
Released(s) == IF lock = s THEN Nil ELSE lock

\* All changes commit together, unless a finding to insert is there by now.
CommitScan(s) ==
    LET t == scan[s]
        clash == \E f \in t.loaded : t.seen[f] = Nil /\ findings[f] # Nil
    IN
    /\ t # Nil /\ t.at = "commit"
    /\ scan' = [scan EXCEPT ![s] = Nil]
    /\ lock' = Released(s)
    /\ IF clash
       THEN /\ collided' = TRUE
            /\ UNCHANGED <<findings, latest, reviewed>>
       ELSE /\ findings' = [f \in Fp |-> Reconciled(f, t)]
            /\ latest' = IF t.age < latest.at THEN latest ELSE [of |-> t.loaded, at |-> t.age]
            /\ reviewed' = t.since
            /\ UNCHANGED collided
    /\ UNCHANGED <<evidence, review, fndCount>>

-----------------------------------------------------------------------------
(* The user *)

\* A transaction is written: the evidence for one fingerprint comes or goes.
Transact(f) ==
    /\ fndCount.writes < MaxWrites
    /\ evidence' = IF f \in evidence THEN evidence \ {f} ELSE evidence \cup {f}
    /\ fndCount' = [fndCount EXCEPT !.writes = @ + 1]
    /\ UNCHANGED <<findings, lock, scan, review, latest, reviewed, collided>>

\* update_finding_status reads the finding,
Open(r, f, status) ==
    /\ review[r] = Nil /\ fndCount.reviews < MaxReviews
    /\ findings[f] # Nil
    /\ review' = [review EXCEPT ![r] = [of |-> f, old |-> findings[f],
                    new |-> [status |-> status, dated |-> status = "resolved"]]]
    /\ fndCount' = [fndCount EXCEPT !.reviews = @ + 1]
    /\ UNCHANGED <<evidence, findings, lock, scan, latest, reviewed, collided>>

\* and commits what changed.
CommitReview(r) ==
    LET v == review[r] IN
    /\ v # Nil
    /\ findings' = [findings EXCEPT ![v.of] = Written(@, v.old, v.new)]
    /\ review' = [review EXCEPT ![r] = Nil]
    /\ reviewed' = reviewed \cup {v.of}
    /\ scan' = [s \in Scanner |-> IF scan[s] = Nil THEN Nil
                                  ELSE [scan[s] EXCEPT !.since = @ \cup {v.of}]]
    /\ UNCHANGED <<evidence, lock, latest, collided, fndCount>>

Next ==
    \/ \E s \in Scanner : Request(s) \/ Lock(s) \/ Load(s) \/ ReadFindings(s) \/ CommitScan(s)
    \/ \E f \in Fp : Transact(f) \/ \E r \in Reviewer, status \in Status : Open(r, f, status)
    \/ \E r \in Reviewer : CommitReview(r)

Spec == Init /\ [][Next]_fndVars

-----------------------------------------------------------------------------
(* Properties *)

TypeOK ==
    /\ findings \in [Fp -> Finding \cup {Nil}]
    /\ evidence \subseteq Fp /\ reviewed \subseteq Fp
    /\ latest.of \subseteq Fp /\ latest.at \in Nat
    /\ lock \in Scanner \cup {Nil}
    /\ scan \in [Scanner -> Scan \cup {Nil}]
    /\ review \in [Reviewer -> Review \cup {Nil}]
    /\ fndCount \in [scans : Nat, writes : Nat, reviews : Nat]

\* Two scans at once both succeed: none inserts a finding the other inserted.
ScansNeverCollide == ~ collided

\* Except for what the user reviewed since, the findings say what the newest
\* evidence does that a committed scan loaded: no scan brings older evidence
\* back over newer.
LatestEvidenceStands ==
    \A f \in Fp \ reviewed :
        /\ f \in latest.of => findings[f] # Nil /\ findings[f].status # "resolved"
        /\ f \notin latest.of => findings[f] = Nil \/ findings[f].status # "open"

\* A dismissed finding stays dismissed until the user reviews it again, unless
\* a scan had read it before the dismissal was committed.
DismissalStands ==
    [][\A f \in Fp :
         findings[f] # Nil /\ findings[f].status = "dismissed" /\ findings'[f] # findings[f] =>
           \/ \E r \in Reviewer : review[r] # Nil /\ review[r].of = f /\ review'[r] = Nil
           \/ \E s \in Scanner : scan[s] # Nil /\ scan'[s] = Nil /\ f \in scan[s].since]_fndVars

\* Scans that overlap each other and the user's reviews: the newest evidence and
\* the user's dismissals stand, and no scan fails on another's finding.
FindingsSafe ==
    /\ [](TypeOK /\ ScansNeverCollide /\ LatestEvidenceStands)
    /\ DismissalStands

=============================================================================
