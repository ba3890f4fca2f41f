------------------------------ MODULE Calendar ------------------------------
(***************************************************************************)
(* Dates as the recurrence analyses use them.  A date has a month m,       *)
(* counted from January 2023, and a day d.  The leap year rule is that of  *)
(* 1901 to 2099, the numbering of ISO weeks that of 2023 to 2026.          *)
(***************************************************************************)
EXTENDS Integers, Sequences, Samples

Leap(m) == (m \div 12) % 4 = 1

DaysIn(m) == IF (m % 12) = 1 /\ Leap(m) THEN 29
             ELSE <<31, 28, 31, 30, 31, 30, 31, 31, 30, 31, 30, 31>>[1 + (m % 12)]

\* Days since the first of January of 2023, which was a Sunday.
Ordinal(t) ==
    365 * (t.m \div 12) + (t.m \div 12 + 2) \div 4
    + <<0, 31, 59, 90, 120, 151, 181, 212, 243, 273, 304, 334>>[1 + (t.m % 12)]
    + (IF (t.m % 12) > 1 /\ Leap(t.m) THEN 1 ELSE 0) + t.d - 1

Before(a, b) == a.m < b.m \/ (a.m = b.m /\ a.d < b.d)

NotAfter(a, b) == a = b \/ Before(a, b)

DaysFrom(a, b) == Ordinal(b) - Ordinal(a)

\* The date n days later, n at most a month.
Later(t, n) == IF t.d + n <= DaysIn(t.m) THEN [t EXCEPT !.d = @ + n]
               ELSE [m |-> t.m + 1, d |-> t.d + n - DaysIn(t.m)]

Weekday(t) == (Ordinal(t) + 6) % 7

Week(t) == (Ordinal(t) + 6) \div 7

IsMonthEnd(t) == t.d = DaysIn(t.m)

InOrder(dates) == Ranked(dates, Before)

\* Consecutive dates: how many months, how many days lie between them.
MonthGaps(s) == [n \in 1..Len(s) - 1 |-> s[n + 1].m - s[n].m]

Intervals(s) == [n \in 1..Len(s) - 1 |-> DaysFrom(s[n], s[n + 1])]

Scheduled(m, target, monthEnd) ==
    [m |-> m, d |-> IF monthEnd THEN DaysIn(m) ELSE Smaller(target, DaysIn(m))]

-----------------------------------------------------------------------------
(* Charges of the first days of a month that a bank posts in the month before *)

\* The usual day of dates, when it is one of the first four of the month, or 0.
EarlyDay(s, day) == IF Len(s) < 2 \/ day > 4 THEN 0 ELSE day

StartTarget(s) == EarlyDay(s, HalfUp(Median2Of(LAMBDA t : t.d, s)))

\* A date at most four days before that day of the next month stands for it.
Nominal(t, target) ==
    LET due == Scheduled(t.m + 1, target, FALSE)
    IN IF target # 0 /\ t.d >= 27 /\ DaysFrom(t, due) \in 1..4 THEN due ELSE t

=============================================================================
