----------------------------- MODULE Evaluation -----------------------------
(***************************************************************************)
(* The offline evaluation of the classifier, the rules and the recurrence  *)
(* analysis on a private data set, split in calibration, validation and    *)
(* holdout months.  A development run scores calibration and validation,   *)
(* and freezes the parameters a holdout run is given.  The evidence that   *)
(* completes a report reads the files of the data set a second time; the   *)
(* files are edited between runs and between the two readings.             *)
(***************************************************************************)
EXTENDS Integers, FiniteSets

LOCAL INSTANCE FiniteSetsExt

CONSTANTS
    Nil,
    Row,       \* transactions: [month, stream, expense, known, seen, odd]
    RecurringLabel, \* recurrence labels: [stream, from, until], of different streams
    Due,       \* the charges they list: [month, stream, priced]
    Split,     \* of calibration, validation, holdout: [first, last]
    DueMonths, \* the months occurrenceEvaluationMonths lists at first
    MaxEdits,  \* bound
    MaxRuns    \* bound

VARIABLES
    data,     \* the files: [rows, labelled, labels, due, months, provenance, feedback]
    run,      \* what a run has computed from its first reading, or Nil
    frozen,   \* the parameter file: [values, stamp, by], where by tells who stamped it, or Nil
    reports,  \* what runs have printed
    evalCount \* edits and runs made, capped by the bounds

evalVars == <<data, run, frozen, reports, evalCount>>

In(month, split) == split.first <= month /\ month <= split.last

Within(rows, split) == {r \in rows : In(r.month, split)}

Expenses(d) == {r \in d.rows : r.expense}

Months(rows) == {r.month : r \in rows}

\* Stands for what the analyses find: the streams charged in two months or more.
Repeated(rows) ==
    {r.stream : r \in {x \in rows : \E y \in rows : y.stream = x.stream /\ y.month # x.month}}

Outliers(rows) == {r \in rows : r.stream \notin Repeated(rows)}

-----------------------------------------------------------------------------
(* The recurrence analysis, evaluated month by month *)

\* Mutant: the rows after the split stay.
ScopedOpen(d, split) ==
    [rows |-> Expenses(d),
     skip |-> Cardinality({m \in Months(Expenses(d)) : m < split.first}),
     labels |-> d.labels,
     due |-> d.due,
     months |-> d.months \cap (split.first..split.last)]

\* The data set up to the end of a split, the months before it as history; the
\* labels stay as they are.
Scoped(d, split) ==
    [rows |-> {r \in Expenses(d) : r.month <= split.last},
     skip |-> Cardinality({m \in Months(Expenses(d)) : m < split.first}),
     labels |-> d.labels,
     due |-> d.due,
     months |-> d.months \cap (split.first..split.last)]

EvaluatedMonths(s) ==
    {m \in Months(s.rows) : Cardinality({k \in Months(s.rows) : k < m}) >= s.skip}

Baseline(s, m) == {r \in s.rows : r.month < m}

\* The charges due in a month, and which of them the months before foretell.
Occurrences(s, m) ==
    LET targets == {x \in s.due : x.month = m}
        matched == {x \in targets : x.stream \in Repeated(Baseline(s, m))}
    IN [expected |-> Cardinality(targets), matched |-> Cardinality(matched),
        extra |-> Cardinality(Repeated(Baseline(s, m)) \ {x.stream : x \in targets}),
        priced |-> Cardinality({x \in matched : x.priced})]

\* The charges a label lists, and whether the label is known in a month.
Listing(d, l) == {x \in d.due : x.stream = l.stream}

Relevant(d, l, m) ==
    LET known == ({l.from} \ {Nil}) \cup Months(Listing(d, l))
    IN known = {} \/ \E k \in known : k <= m

\* Whether a monthly label, posted in the months it is for, is active in a month
\* (Continuity!LabelActive has the boundary of months).
ActiveIn(d, l, m) ==
    LET visible == {x \in Listing(d, l) : x.month <= m}
    IN IF Listing(d, l) # {} THEN Cardinality(visible) >= 3 /\ m \in Months(visible)
       ELSE (l.from # Nil => l.from <= m) /\ (l.until # Nil => m <= l.until)

Outcomes == {"tp", "fp", "fn", "tn"}

Counts(observations) ==
    LET of(actual, predicted) ==
            Cardinality({o \in observations : o.actual = actual /\ o.predicted = predicted})
    IN [tp |-> of(TRUE, TRUE), fp |-> of(FALSE, TRUE), fn |-> of(TRUE, FALSE), tn |-> of(FALSE, FALSE)]

\* Every known label, found or not, and what is found besides (Matching decides which
\* profile is which label's).
Recurrence(s, m) ==
    LET found == Repeated({r \in s.rows : r.month <= m})
        known == {l \in s.labels : Relevant(s, l, m)}
    IN Counts({[of |-> l.stream, actual |-> ActiveIn(s, l, m), predicted |-> l.stream \in found] : l \in known}
              \cup {[of |-> stream, actual |-> FALSE, predicted |-> TRUE] :
                        stream \in found \ {l.stream : l \in known}})

Anomalies(s, m) ==
    LET available == {r \in s.rows : r.month <= m}
    IN Counts({[of |-> r, actual |-> r.odd, predicted |-> r \in Outliers(available)] :
                  r \in {x \in available : x.month = m}})

Fold(s, m) ==
    [month |-> m,
     recurrence |-> Recurrence(s, m),
     anomalies |-> Anomalies(s, m),
     occurrences |-> IF m \in s.months THEN Occurrences(s, m) ELSE Nil]

Reliability(blocks) ==
    CASE blocks < 5 -> "very_low" [] blocks \in 5..9 -> "limited" [] OTHER -> "standard"

\* The intervals resample whole months.
Confidence(blocks, support) ==
    [blocks |-> blocks, support |-> support, reliability |-> Reliability(blocks)]

Pooled(kind, folds) ==
    LET counts == [n \in Outcomes |-> MapThenSumSet(LAMBDA f : f[kind][n], folds)]
    IN [counts |-> counts,
        confidence |-> Confidence(Cardinality(folds), MapThenSumSet(LAMBDA n : counts[n], Outcomes))]

\* Only months with an occurrence count.
Forecast(folds) == {f \in folds : f.occurrences # Nil}

PooledOccurrences(folds) ==
    LET total(kind) == MapThenSumSet(LAMBDA f : f.occurrences[kind], Forecast(folds))
    IN [expected |-> total("expected"), matched |-> total("matched"), priced |-> total("priced"),
        confidence |-> Confidence(Cardinality(Forecast(folds)), total("expected"))]

Aggregate(folds) ==
    [recurrence |-> Pooled("recurrence", folds),
     anomalies |-> Pooled("anomalies", folds),
     occurrences |-> PooledOccurrences(folds)]

RunSplit(s) == LET folds == {Fold(s, m) : m \in EvaluatedMonths(s)}
               IN [folds |-> folds, aggregate |-> Aggregate(folds)]

-----------------------------------------------------------------------------
(* The other parts of a report *)

\* Transactions whose category the classifier knows.
Examples(d, split) == {r \in Within(d.rows, split) : r.known}

Category(d, split) ==
    [support |-> Cardinality(Examples(d, split)),
     unseen |-> Cardinality({r \in Examples(d, split) : ~ r.seen}),
     calibration |-> Cardinality(Examples(d, Split["calibration"]))]

\* The rules see the months before; the transactions of the split are scored.
Rules(d, split) ==
    [support |-> Cardinality(Within(Expenses(d), split)),
     findings |-> Repeated({r \in Expenses(d) : r.month <= split.last})]

\* How much there is in all, and in the holdout.
Support(d) ==
    [rows |-> Cardinality(d.rows), expenses |-> Cardinality(Expenses(d)),
     labels |-> Cardinality(d.labels), held |-> Cardinality(Within(d.rows, Split["holdout"]))]

\* Months left out in the manifest are none.
Listed(d) == [d EXCEPT !.months = IF @ = Nil THEN {} ELSE @]

Target(mode) == IF mode = "development" THEN "validation" ELSE "holdout"

\* What a run computes from the first reading of the files.
Evaluated(d, mode) ==
    LET split == Split[Target(mode)]
        scored == IF mode = "development" THEN {"calibration", "validation"} ELSE {"holdout"}
    IN [mode |-> mode, support |-> Support(d), category |-> Category(d, split), rules |-> Rules(d, split),
        historical |-> [name \in scored |-> RunSplit(Scoped(Listed(d), Split[name]))]]

\* The user's decisions on suggestions of the split, by the model that runs.
Feedback(d, split) == {r \in d.feedback : In(r.month, split)}

Checks(report, d) ==
    LET split == Split[Target(report.mode)]
        occurrences == report.historical[Target(report.mode)].aggregate.occurrences
    IN {d.provenance = "real_independent", report.category.support > 0,
        report.category.unseen > 0, report.category.calibration > 0,
        Feedback(d, split) # {}, Cardinality(Within(Expenses(d), split)) > 0,
        occurrences.expected > 0, occurrences.priced > 0}

\* The second reading completes the report.
Augmented(report, d) ==
    [report |-> report, feedback |-> Cardinality(Feedback(d, Split[Target(report.mode)])),
     anomalies |-> Rules(d, Split[Target(report.mode)]).support,
     ready |-> Checks(report, d) = {TRUE},
     final |-> Checks(report, d) = {TRUE} /\ report.mode = "holdout"]

-----------------------------------------------------------------------------
(* Runs and edits *)

DefaultParameters == [set |-> "default", threshold |-> 55]

Parameters == [set : {"default", "tuned"}, threshold : {55, 60}]

\* Every row has a category label, every expense an anomaly label, and no label is left over.
Loads(d) == d.labelled = d.rows

\* No decision is left over either: only the second reading opens that file.
LoadsFeedback(d) == d.feedback \subseteq d.rows

Init ==
    /\ data = [rows |-> Row, labelled |-> Row, labels |-> RecurringLabel, due |-> Due, months |-> DueMonths,
               provenance |-> "other", feedback |-> {}]
    /\ run = Nil /\ frozen = Nil /\ reports = {}
    /\ evalCount = [edits |-> 0, runs |-> 0]

\* What a holdout run takes: a file whose stamp, a hash of its values, is right, with
\* the threshold that is executed.
Accepted(p) == p.stamp = p.values /\ p.values.threshold = 55

Start(mode) ==
    /\ run = Nil /\ evalCount.runs < MaxRuns
    /\ mode = "holdout" => frozen # Nil /\ Accepted(frozen)
    /\ Loads(data)
    /\ run' = [report |-> Evaluated(data, mode), with |-> IF mode = "holdout" THEN frozen ELSE Nil,
               reading |-> data]
    /\ evalCount' = [evalCount EXCEPT !.runs = @ + 1]
    /\ UNCHANGED <<data, frozen, reports>>

\* The second reading, the parameter file of a development run, the report.
Finish ==
    /\ run # Nil /\ Loads(data) /\ LoadsFeedback(data)
    /\ reports' = reports \cup {[out |-> Augmented(run.report, data), with |-> run.with,
                                 first |-> run.reading, second |-> data]}
    /\ frozen' = IF run.report.mode # "development" THEN frozen
                 ELSE [values |-> DefaultParameters, stamp |-> DefaultParameters, by |-> "run"]
    /\ run' = Nil
    /\ UNCHANGED <<data, evalCount>>

\* The files do not load a second time: no report.
Fail ==
    /\ run # Nil /\ ~ (Loads(data) /\ LoadsFeedback(data))
    /\ run' = Nil
    /\ UNCHANGED <<data, frozen, reports, evalCount>>

Edit(d) ==
    /\ evalCount.edits < MaxEdits
    /\ d # data /\ data' = d
    /\ evalCount' = [evalCount EXCEPT !.edits = @ + 1]
    /\ UNCHANGED <<run, frozen, reports>>

RemoveRow(r) == r \in data.rows /\ Edit([data EXCEPT !.rows = @ \ {r}])

RemoveLabel(r) == r \notin data.rows /\ Edit([data EXCEPT !.labelled = @ \ {r}])

RemoveDue(x) == x \in data.due /\ Edit([data EXCEPT !.due = @ \ {x}])

Decide(r) == r \in data.rows /\ Edit([data EXCEPT !.feedback = @ \cup {r}])

DeclareProvenance == Edit([data EXCEPT !.provenance = "real_independent"])

LeaveMonthsOut == Edit([data EXCEPT !.months = Nil])

\* A label is dated, from a month on.
DateLabel(l, m) ==
    l \in data.labels /\ Edit([data EXCEPT !.labels = (@ \ {l}) \cup {[l EXCEPT !.from = m]}])

\* The parameter file is written or changed by hand, its stamp left as it is or
\* computed anew.
EditFrozen(values, by) ==
    /\ evalCount.edits < MaxEdits
    /\ by = "run" => frozen # Nil /\ frozen.by = "run"
    /\ frozen' = [values |-> values, by |-> by, stamp |-> IF by = "hand" THEN values ELSE frozen.stamp]
    /\ evalCount' = [evalCount EXCEPT !.edits = @ + 1]
    /\ UNCHANGED <<data, run, reports>>

Next ==
    \/ \E mode \in {"development", "holdout"} : Start(mode)
    \/ Finish \/ Fail
    \/ \E r \in Row : RemoveRow(r) \/ RemoveLabel(r) \/ Decide(r)
    \/ \E x \in Due : RemoveDue(x)
    \/ DeclareProvenance \/ LeaveMonthsOut
    \/ \E l \in RecurringLabel, m \in Months(Row) : DateLabel(l, m)
    \/ \E values \in Parameters, by \in {"run", "hand"} : EditFrozen(values, by)

Spec == Init /\ [][Next]_evalVars

-----------------------------------------------------------------------------
(* Properties *)

BeforeHoldout(x) == x.month < Split["holdout"].first

\* The files without the holdout months, and without the labels first known in them.
WithoutHoldout(d) ==
    LET before(s) == {x \in s : BeforeHoldout(x)}
        known(l) == Relevant(d, l, Split["holdout"].first - 1)
    IN [d EXCEPT !.rows = before(@), !.labels = {l \in @ : known(l)}, !.due = before(@)]

\* A label that is dated before the holdout while all the charges it lists are the
\* holdout's: they make it inactive in the months before, where its date alone would
\* have it active.
JudgedByHoldout(d, l) ==
    /\ l.from # Nil /\ l.from < Split["holdout"].first
    /\ Listing(d, l) # {} /\ \A x \in Listing(d, l) : ~ BeforeHoldout(x)

Measures(report) == [report EXCEPT !.support = Nil]

\* What a development run measures is the same whatever the holdout months hold: of
\* their transactions it prints the number, and their labelled charges reach a
\* measure only through a label that no earlier charge bears out.
HoldoutSealed ==
    (\A l \in data.labels : ~ JudgedByHoldout(data, l))
    => Measures(Evaluated(data, "development")) = Measures(Evaluated(WithoutHoldout(data), "development"))

\* Every month of a split that has an expense is evaluated, and no other month is.
FoldsCoverSplit ==
    \A r \in reports : \A name \in DOMAIN r.out.report.historical :
        {f.month : f \in r.out.report.historical[name].folds}
            = Months(Within(Expenses(r.first), Split[name]))

\* What a month's charges are forecast from does not hold the month itself.
ForecastsLookBack ==
    \A name \in DOMAIN Split : LET s == Scoped(Listed(data), Split[name]) IN
        \A m \in EvaluatedMonths(s) :
            Occurrences(s, m) = Occurrences([s EXCEPT !.rows = {r \in @ : r.month < m}], m)

\* A holdout report names the threshold that was executed and, unless the file was
\* stamped by hand (the stamp is a hash anyone can compute), the parameters an earlier
\* development run froze, as it froze them.
HoldoutRunsFrozen ==
    \A r \in reports : r.out.report.mode = "holdout" =>
        /\ r.with.values.threshold = 55
        /\ r.with.by = "run" =>
              /\ r.with.values = DefaultParameters
              /\ \E e \in reports : e.out.report.mode = "development"

\* A report that claims to be final evidence has, in the holdout months, an unseen
\* merchant of a known category, a decision of the user, and a charge that was
\* expected, with its amount, and foretold.
FinalIsSupported ==
    \A r \in reports : r.out.final =>
        /\ r.second.provenance = "real_independent"
        /\ \E x \in Within(r.first.rows, Split["holdout"]) : x.known /\ ~ x.seen
        /\ \E x \in Within(r.second.rows, Split["holdout"]) : x \in r.second.feedback
        /\ \E x \in r.first.due : In(x.month, Split["holdout"]) /\ x.priced
              /\ x.month \in Months(Expenses(r.first))
              /\ x.stream \in Repeated({y \in Expenses(r.first) : y.month < x.month})

\* The private evaluation measures what it says: no holdout month reaches what is
\* measured for tuning, no month the forecast of itself, and a final report has its
\* support.
EvaluationRight ==
    /\ HoldoutSealed
    /\ FoldsCoverSplit
    /\ ForecastsLookBack
    /\ HoldoutRunsFrozen
    /\ FinalIsSupported

=============================================================================
