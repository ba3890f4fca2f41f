-------------------------- MODULE RecurringStreams --------------------------
(***************************************************************************)
(* How a merchant's charges are told apart into streams, and what the      *)
(* schedule read from a stream's dates says is missing.  Two histories     *)
(* grow here, one at a time: charges of one merchant (an amount and a      *)
(* descriptor, which may be blank), and the dates of one stream.           *)
(***************************************************************************)
EXTENDS Schedules, StreamClusters

LOCAL INSTANCE SequencesExt

LOCAL INSTANCE FiniteSetsExt

CONSTANTS
    Price,       \* amounts of charges
    Descriptor,  \* what a charge may say it is for, unless it is blank: Nil
    MaxCharges,  \* bound
    FirstMonth,  \* months a history may start in
    MonthStep,   \* months between dates of a monthly history
    Payday,      \* days of the month of a monthly history
    DayStep,     \* days between dates of a history of days
    MaxDates     \* bound

VARIABLES
    charges,  \* sequence of charges, in order
    dates     \* sequence of dates, in order

streamVars == <<charges, dates>>

OverduePayment(s, c, asOf) ==
    Before(FirstProjected(s, c), asOf) /\ MissingUnlessAmbiguous(s, c, asOf)

-----------------------------------------------------------------------------
Init == charges = <<>> /\ dates = <<>>

AddCharge(amount, desc) ==
    /\ dates = <<>> /\ Len(charges) < MaxCharges
    /\ charges' = Append(charges, [amt |-> amount, desc |-> desc])
    /\ UNCHANGED dates

FirstDate(m, day) ==
    /\ charges = <<>> /\ dates = <<>>
    /\ dates' = <<Scheduled(m, day, FALSE)>>
    /\ UNCHANGED charges

NextMonthly(step, day) ==
    /\ dates # <<>> /\ Len(dates) < MaxDates
    /\ dates' = Append(dates, Scheduled(Last(dates).m + step, day, FALSE))
    /\ UNCHANGED charges

NextDaily(days) ==
    /\ dates # <<>> /\ Len(dates) < MaxDates
    /\ dates' = Append(dates, Later(Last(dates), days))
    /\ UNCHANGED charges

Next ==
    \/ \E amount \in Price, desc \in Descriptor \cup {Nil} : AddCharge(amount, desc)
    \/ \E m \in FirstMonth, day \in Payday : FirstDate(m, day)
    \/ \E step \in MonthStep, day \in Payday : NextMonthly(step, day)
    \/ \E days \in DayStep : NextDaily(days)

Spec == Init /\ [][Next]_streamVars

-----------------------------------------------------------------------------
(* Properties *)

\* Charges whose descriptors differ never share a stream, though a blank one may
\* have joined first and the stream may have taken its descriptor from another.
DescriptorsKeptApart ==
    \A k \in DOMAIN Clusters(charges) :
        \A c, d \in Range(Clusters(charges)[k].members) :
            Nil \in {c.desc, d.desc} \/ c.desc = d.desc

\* A price that stays within 1 keeps one stream, whatever the order of its steps.
SteadyPriceIsOneStream ==
    (charges # <<>> /\ \A n, j \in DOMAIN charges :
        charges[n].desc = Nil /\ Apart(charges[n].amt, charges[j].amt) <= 1)
    => Len(Clusters(charges)) = 1

\* Days on which an analysis may look at the dates: the last one, and then until
\* a period later and a month on.
Looks(s, c) ==
    {Last(s)} \cup
    {t \in {[m |-> Last(s).m + k, d |-> day] : k \in {0, 1, c.step, c.step + 1}, day \in {4, 15, 28}} :
        Before(Last(s), t)}

\* A payment reported as missing is counted as missed too: the schedule's own
\* loop, from the first date on, and the next date after the last agree.
MissingIsCounted ==
    Qualified(dates) =>
        LET c == Cadence(dates) IN
        \A end \in Looks(dates, c) :
            PaymentMissing(dates, c, end) => Missed(dates, c, end) >= 1

\* A charge paid every month, quarter or year on one day, or on month ends, is
\* never missed before the next one is due.  (A 30th can look like a month end:
\* from April to June it is one in two months of three.)
PaidIsNotMissed ==
    LET c == Cadence(dates)
        punctual == \/ \A n \in DOMAIN dates : IsMonthEnd(dates[n])
                    \/ \E day \in 1..29 : \A n \in DOMAIN dates :
                           dates[n] = Scheduled(dates[n].m, day, FALSE)
    IN (Qualified(dates) /\ c.unit = "month" /\ c.hits = c.of /\ punctual) =>
        /\ NextExpected(dates, c).m = Last(dates).m + c.step
        /\ \A end \in Looks(dates, c) :
               ~ PaymentMissing(dates, c, end) => Missed(dates, c, end) = 0

\* Weekly and fortnightly charges that keep their day never look like two charges
\* of one period, and a monthly one never does.
PunctualIsUnambiguous ==
    LET c == Cadence(dates)
        gaps == IF c.unit = "month" THEN MonthGaps(dates) ELSE Intervals(dates)
    IN (Qualified(dates) /\ \A n \in DOMAIN gaps : gaps[n] >= c.step)
       => LatestExtra(dates, c) = 0

NextWeeks(t) == Later(Later(t, 28), 28)

\* Once a payment is made on the day it is expected, or up to four days late, it is
\* not projected again, nor overdue, and the next one is a period later.
PaidMovesOn ==
    [][\A c \in {Cadence(dates)} :
         (/\ Qualified(dates) /\ Qualified(dates') /\ c = [Cadence(dates') EXCEPT !.hits = c.hits, !.of = c.of]
          /\ \E late \in 0..4 : Last(dates') = Later(NextExpected(dates, c), late)
          /\ c.unit = "month" => Last(dates').m = NextExpected(dates, c).m)
         => \A asOf \in {Last(dates')} :
              /\ ~ OverduePayment(dates', c, asOf)
              /\ \A t \in Projected(dates', c, asOf, asOf, NextWeeks(asOf)) :
                   IF c.unit = "month" THEN t.m >= asOf.m + c.step ELSE DaysFrom(asOf, t) >= c.step]_streamVars

\* The payments a monthly or longer stream is projected to make keep the day its
\* schedule expects, until a month too short for that day comes: from then on
\* the day of the short month is kept.
ProjectionKeepsDay ==
    \A c \in {Cadence(dates)} :
        (Qualified(dates) /\ c.unit = "month") =>
            LET end == Later(NextWeeks(Last(dates)), 28)
                due == Projected(dates, c, Last(dates), Last(dates), end)
            IN \A t \in due :
                 \/ t = Scheduled(t.m, Target(dates), MonthEndPattern(dates))
                 \/ \E u \in due : u.m < t.m /\ u.d = DaysIn(u.m) /\ t.d = u.d

\* Streams: how charges group into them, what counts as missed, what is projected,
\* and that the three agree with one another.
StreamsRight ==
    /\ [](/\ DescriptorsKeptApart
         /\ SteadyPriceIsOneStream
         /\ MissingIsCounted
         /\ PaidIsNotMissed
         /\ PunctualIsUnambiguous
         /\ ProjectionKeepsDay)
    /\ PaidMovesOn

=============================================================================
