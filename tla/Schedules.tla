----------------------------- MODULE Schedules -----------------------------
(***************************************************************************)
(* The schedule of a recurring payment, read from the dates of its charges *)
(* (a sequence without repetition, in order): its cadence, the date it is  *)
(* next expected, the expected charges that were missed.                   *)
(***************************************************************************)
EXTENDS Integers, Sequences, FiniteSets, Samples, Calendar

LOCAL INSTANCE FiniteSetsExt

LOCAL INSTANCE SequencesExt

NoCadence == [unit |-> "none", step |-> 0, hits |-> 0, of |-> 1]

Hits(gaps, step) == Cardinality({n \in DOMAIN gaps : gaps[n] = step})

\* Monthly, quarterly or yearly: the step most gaps have, the shortest of those.
BestStep(gaps) ==
    CHOOSE s \in {1, 3, 12} :
        \A t \in {1, 3, 12} \ {s} :
            Hits(gaps, s) > Hits(gaps, t) \/ (Hits(gaps, s) = Hits(gaps, t) /\ s < t)

Around(days, step) == Cardinality({n \in DOMAIN days : Apart(days[n], step) <= 2})

\* A step that 60 in 100 of the gaps have; else weeks, or fortnights, give or
\* take two days.
Cadence(s) ==
    LET gaps == MonthGaps(s)
        days == Intervals(s)
        months == BestStep(gaps)
        dayStep == {w \in {7, 14} : /\ Apart(Median2(days), 2 * w) <= 4
                                    /\ AtLeast(Around(days, w), Len(days), 60)}
    IN CASE Len(s) < 2 -> NoCadence
         [] Len(s) >= 2 /\ AtLeast(Hits(gaps, months), Len(gaps), 60) ->
              [unit |-> "month", step |-> months, hits |-> Hits(gaps, months), of |-> Len(gaps)]
         [] OTHER ->
              IF dayStep = {} THEN NoCadence
              ELSE [unit |-> "day", step |-> Min(dayStep), hits |-> Around(days, Min(dayStep)),
                    of |-> Len(days)]

\* The most consecutive charges one step apart.
Consecutive(s, c) ==
    LET onStep(n) == IF c.unit = "month" THEN s[n].m - s[n - 1].m = c.step
                     ELSE Apart(DaysFrom(s[n - 1], s[n]), c.step) <= (IF c.step = 7 THEN 2 ELSE 3)
        run[n \in 0..Len(s)] ==
          IF n = 0 THEN 0 ELSE IF n > 1 /\ onStep(n) THEN run[n - 1] + 1 ELSE 1
    IN Max({run[n] : n \in 0..Len(s)})

\* The usual day of the month, and whether 60 in 100 charges fell on its last day.
Target(s) == HalfUp(Median2Of(LAMBDA t : t.d, s))

MonthEnds(s) == Cardinality({n \in DOMAIN s : IsMonthEnd(s[n])})

MonthEndPattern(s) == AtLeast(MonthEnds(s), Len(s), 60)

\* A share <<n, m>>: month ends, or 14 less twice the median deviation, in 14.
DayStability(s) ==
    IF MonthEndPattern(s) THEN <<MonthEnds(s), Len(s)>>
    ELSE <<Larger(0, 14 - Median2Of(LAMBDA t : Apart(t.d, Target(s)), s)), 14>>

WeekdayStability(s) ==
    <<Max({Cardinality({n \in DOMAIN s : Weekday(s[n]) = w}) : w \in 0..6}), Len(s)>>

Grace(c) == IF c.unit = "month" THEN 5 ELSE 3

NextExpected(s, c) ==
    IF c.unit = "month" THEN Scheduled(Last(s).m + c.step, Target(s), MonthEndPattern(s))
    ELSE Later(Last(s), c.step)

Overdue(expected, c, end) == NotAfter(Later(expected, Grace(c)), end)

PaymentMissing(s, c, end) == Overdue(NextExpected(s, c), c, end)

\* A charge of the month stands for the expected one.
OnSchedule(t, expected, monthEnd) ==
    IF monthEnd THEN IsMonthEnd(t) ELSE Apart(t.d, expected.d) <= 4

MonthsToCheck(s, c, end) == {m \in (s[1].m + c.step)..end.m : (m - s[1].m) % c.step = 0}

Missed(s, c, end) ==
    LET expected(m) == Scheduled(m, Target(s), MonthEndPattern(s))
        paid(m) == \E n \in DOMAIN s :
                       s[n].m = m /\ OnSchedule(s[n], expected(m), MonthEndPattern(s))
    IN IF c.unit = "month"
       THEN Cardinality({m \in MonthsToCheck(s, c, end) : Overdue(expected(m), c, end) /\ ~ paid(m)})
       ELSE IF PaymentMissing(s, c, end)
            THEN DaysFrom(NextExpected(s, c), end) \div c.step + 1 ELSE 0

\* The period a charge counts for: month, quarter, year, week or fortnight.
Period(t, c) ==
    IF c.unit = "month" THEN t.m \div c.step ELSE (Week(t) - 1) \div (c.step \div 7)

\* How many charges the latest charge's period has besides one.
LatestExtra(s, c) ==
    Cardinality({n \in DOMAIN s : Period(s[n], c) = Period(Last(s), c)}) - 1

\* A second charge in the latest period makes what is missing ambiguous.
MissedUnlessAmbiguous(s, c, end) ==
    IF LatestExtra(s, c) = 0 THEN Missed(s, c, end) ELSE 0

MissingUnlessAmbiguous(s, c, end) ==
    LatestExtra(s, c) = 0 /\ PaymentMissing(s, c, end)

CalendarStability(s, c) == IF c.unit = "day" THEN WeekdayStability(s) ELSE DayStability(s)

\* A stream whose only evidence is its amount needs five periods in a row on
\* stable days, or four on the same day.
EnoughForAmount(s, c) ==
    LET stable(hundredths) ==
            AtLeast(CalendarStability(s, c)[1], CalendarStability(s, c)[2], hundredths)
    IN \/ Consecutive(s, c) >= 5 /\ stable(75)
       \/ Consecutive(s, c) >= 4 /\ stable(95)

-----------------------------------------------------------------------------
(* What a profile says of a stream's dates *)

\* A profile needs three dates and a cadence.
Qualified(s) == Len(s) >= 3 /\ Cadence(s) # NoCadence

-----------------------------------------------------------------------------
(* The payments a stream is projected to make *)

Advanced(t, c, monthEnd) ==
    IF c.unit = "month" THEN Scheduled(t.m + c.step, t.d, monthEnd) ELSE Later(t, c.step)

\* Mutant: projected from the last payment.
FirstProjectedLast(s, c) == Last(s)

FirstProjected(s, c) == NextExpected(s, c)

\* The next payments of a stream, from the expected one on; enough for 90 days of weeks.
NextPayments(first, c, monthEnd) ==
    LET payment[k \in 0..13] == IF k = 0 THEN first ELSE Advanced(payment[k - 1], c, monthEnd)
    IN payment

\* The payments of a window, as of a day; none when the expected one is past.
Projected(s, c, asOf, start, end) ==
    IF Before(FirstProjected(s, c), asOf) THEN {}
    ELSE {t \in Range(NextPayments(FirstProjected(s, c), c, MonthEndPattern(s))) :
             NotAfter(start, t) /\ NotAfter(t, end)}

=============================================================================
