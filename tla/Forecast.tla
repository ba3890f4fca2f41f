------------------------------ MODULE Forecast ------------------------------
(***************************************************************************)
(* The forecast of a month's spending and its backtest.  A payee's charges *)
(* have one amount and are one stream; rows are added in the order of      *)
(* their dates, and a forecast is made as of any day.                      *)
(***************************************************************************)
EXTENDS Schedules

LOCAL INSTANCE FiniteSetsExt

CONSTANTS
    Payee,
    AmountOf,  \* the amount of a payee's charges
    Payday,    \* days of the month on which a payee charges
    Skip,      \* months between charges
    Cutoff,    \* days of the month as of which forecasts are looked at
    MaxRows,   \* bound
    Nil

VARIABLE rows  \* charges: a date and a payee

-----------------------------------------------------------------------------
\* Mutant: every charge on record is evidence.
EligibleAll(rs, asOf) == rs

Eligible(rs, asOf) == {r \in rs : NotAfter(r.t, asOf)}

MonthTotal(rs, m) == MapThenSumSet(LAMBDA r : AmountOf[r.by], {r \in rs : r.t.m = m})

\* The month of the first charge is the first that can be observed.
CoversMonth(rs, m) == \E r \in rs : r.t.m <= m

MeanMonths(asOf) == (asOf.m - 3)..(asOf.m - 1)

\* Three times the mean of the three months before, or Nil.
MeanTimes3(rs, asOf) ==
    IF CoversMonth(rs, asOf.m - 3)
    THEN MapThenSumSet(LAMBDA m : MonthTotal(rs, m), MeanMonths(asOf)) ELSE Nil

DatesPaid(rs, by) == InOrder({r.t : r \in {q \in rs : q.by = by}})

\* The streams whose schedule qualifies.
Recurring(rs) ==
    {s \in {[by |-> by, dates |-> DatesPaid(rs, by)] : by \in Payee} : Qualified(s.dates)}

WindowStart(asOf) == Later(asOf, 1)

MonthEnd(asOf) == [asOf EXCEPT !.d = DaysIn(asOf.m)]

\* What these streams are still to be paid this month.
StillDue(streams, asOf) ==
    LET due(s) == Projected(s.dates, Cadence(s.dates), asOf, WindowStart(asOf), MonthEnd(asOf))
    IN IF asOf = MonthEnd(asOf) THEN 0
       ELSE MapThenSumSet(LAMBDA s : AmountOf[s.by] * Cardinality(due(s)), streams)

Variable(rs, streams, m) ==
    Larger(0, MonthTotal(rs, m)
              - MonthTotal({r \in rs : \E s \in streams : s.by = r.by}, m))

\* The forecast that knows of recurrence, times the days elapsed.
Aware(rs, streams, asOf) ==
    (MonthTotal(rs, asOf.m) + StillDue(streams, asOf)) * asOf.d
    + Variable(rs, streams, asOf.m) * (DaysIn(asOf.m) - asOf.d)

\* The three projections: the mean times 3, the others times the days elapsed.
Baselines(rs, asOf) ==
    [mean |-> MeanTimes3(rs, asOf),
     runRate |-> MonthTotal(rs, asOf.m) * DaysIn(asOf.m),
     aware |-> Aware(rs, Recurring(rs), asOf)]

BaselinesAt(rs, asOf) == Baselines(Eligible(rs, asOf), asOf)

FirstMonth(rs) == Min({r.t.m : r \in rs})

FirstTarget(rs) == FirstMonth(rs) + 3

\* The complete months whose projections, as of the 15th, are scored.
FoldMonths(rs, asOf) ==
    {m \in FirstTarget(rs)..(asOf.m - 1) : MeanTimes3(Eligible(rs, [m |-> m, d |-> 15]), [m |-> m, d |-> 15]) # Nil}

\* The folds of the backtest: what was projected, and what was spent.
Folds(rs, asOf) ==
    {[projected |-> BaselinesAt(rs, [m |-> m, d |-> 15]), actual |-> MonthTotal(rs, m)] :
        m \in FoldMonths(rs, asOf)}

-----------------------------------------------------------------------------
Init == rows = {}

LastRow == CHOOSE t \in {r.t : r \in rows} : \A r \in rows : NotAfter(r.t, t)

\* A charge not before the others: the first, one of the month of the last, or of
\* a month soon after.
Pay(by, skip, day) ==
    LET t == Scheduled((IF rows = {} THEN 0 ELSE LastRow.m) + skip, day, FALSE)
    IN /\ Cardinality(rows) < MaxRows
       /\ rows # {} => NotAfter(LastRow, t)
       /\ rows' = rows \cup {[t |-> t, by |-> by]}

Next == \E by \in Payee, skip \in Skip : \E day \in Payday[by] : Pay(by, skip, day)

Spec == Init /\ [][Next]_rows

-----------------------------------------------------------------------------
(* Properties *)

AsOf == {[m |-> LastRow.m + k, d |-> d] : k \in {0, 1}, d \in Cutoff}

\* Every charge of a payee since its first came on one day of the month, one
\* a month, up to the last charge that was due by the day.
Punctual(rs, by, day, asOf) ==
    LET paid == DatesPaid(rs, by)
        due == IF day <= asOf.d THEN asOf.m ELSE asOf.m - 1
    IN /\ Len(paid) >= 3
       /\ \A n \in DOMAIN paid : paid[n] = [m |-> due - Len(paid) + n, d |-> day]

\* Where all spending is bills paid each month on their day, the forecast that
\* knows of recurrence is the sum of the bills, on every day of the month:
\* before a bill is paid it is expected, afterwards it is spent, never both.
\* (Two charges of a bill in one calendar month are never due here: days from
\* 29 on, which some months lack, are left out.)
BillsCountOnce ==
    rows # {} =>
        \A asOf \in AsOf :
            LET seen == Eligible(rows, asOf)
                payers == {r.by : r \in seen}
            IN (\A by \in payers : \E day \in Payday[by] \cap 1..28 : Punctual(seen, by, day, asOf))
               => BaselinesAt(rows, asOf).aware = asOf.d * MapThenSumSet(LAMBDA by : AmountOf[by], payers)

\* A fold of the backtest is available for every complete month from the fourth
\* on: the three projections are always scored on the same months.
BacktestIsComplete ==
    rows # {} => \A asOf \in AsOf :
        FoldMonths(rows, asOf) = (FirstMonth(rows) + 3)..(asOf.m - 1)

\* A charge changes no forecast made as of an earlier day, and none of the folds
\* before its month.
ForecastsAreCausal ==
    [][rows # {} => \A r \in rows' \ rows :
         /\ \A asOf \in AsOf : Before(asOf, r.t) => BaselinesAt(rows', asOf) = BaselinesAt(rows, asOf)
         /\ Folds(rows', r.t) = Folds(rows, r.t)]_rows

\* Forecasts count every bill once, look back only and are scored on every month.
ForecastRight ==
    /\ [](BillsCountOnce /\ BacktestIsComplete)
    /\ ForecastsAreCausal

=============================================================================
