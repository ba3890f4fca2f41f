--------------------------- MODULE TemporalLanes ---------------------------
(***************************************************************************)
(* Charges of one amount at one merchant may belong to several plans, each *)
(* with its own day of the month or of the week.  The analysis splits them *)
(* into lanes by their dates alone.  Here one plan or two bill their       *)
(* charges in the order of time, now and then a little late.               *)
(***************************************************************************)
EXTENDS Schedules

LOCAL INSTANCE SequencesExt

LOCAL INSTANCE FiniteSetsExt

CONSTANTS
    Payday,    \* days of the month of monthly plans
    Start,     \* days of January on which plans of weeks may start
    MaxLate,   \* bound on charges posted late
    Delay,     \* days a late charge may take
    MaxBilled  \* bound

VARIABLES
    plans,   \* sequence of plans: the next due date, and months or days between dues
    billed   \* set of charges: the date, the plan, and the order of arrival

laneVars == <<plans, billed>>

-----------------------------------------------------------------------------
(* Lanes *)

Dates(charges) == InOrder({c.t : c \in charges})

\* Weeks or fortnights that a stable weekday supports.
ShortCadence(s, days) ==
    /\ Len(s) >= 4
    /\ AtLeast(WeekdayStability(s)[1], Len(s), 60)
    /\ \E w \in {7, 14} : AtLeast(Around(days, w), Len(days), 60) /\ Apart(Median2(days), 2 * w) <= 4

\* The day of the month; 32 for its end.
Phase(t) == IF IsMonthEnd(t) THEN 32 ELSE t.d

UsualPhase(charges) == HalfEven(Median2([n \in DOMAIN charges |-> Phase(charges[n].t)]))

\* How far a phase is from a cluster's; too far when one of them is a month end.
Distance(phase, centre) ==
    IF 32 \in {phase, centre} THEN (IF phase = centre THEN 0 ELSE 99) ELSE Apart(phase, centre)

Closest(distance) ==
    CHOOSE k \in DOMAIN distance :
        \A j \in DOMAIN distance \ {k} : distance[k] < distance[j] \/ (distance[k] = distance[j] /\ k < j)

\* Mutant: a fortnight away.
JoinedAtFortnight(charge, clusters, distance) ==
    IF \A k \in DOMAIN distance : distance[k] > 14 THEN Append(clusters, <<charge>>)
    ELSE [clusters EXCEPT ![Closest(distance)] = Append(@, charge)]

\* A charge joins the closest cluster, at most four days away, or starts one.
JoinedAt(charge, clusters, distance) ==
    IF \A k \in DOMAIN distance : distance[k] > 4 THEN Append(clusters, <<charge>>)
    ELSE [clusters EXCEPT ![Closest(distance)] = Append(@, charge)]

Joined(charge, clusters) ==
    JoinedAt(charge, clusters,
             [k \in DOMAIN clusters |-> Distance(Phase(charge.t), UsualPhase(clusters[k]))])

ByPhase(charges) ==
    Ranked(charges, LAMBDA c, d :
        \/ Phase(c.t) < Phase(d.t)
        \/ Phase(c.t) = Phase(d.t) /\ (Before(c.t, d.t) \/ (c.t = d.t /\ c.id < d.id)))

PhaseClusters(o) ==
    LET found[n \in 0..Len(o)] == IF n = 0 THEN <<>> ELSE Joined(o[n], found[n - 1])
    IN found[Len(o)]

Months(charges) == {c.t.m : c \in charges}

\* Three charges of three months, of which 75 in 100 gaps are one step.
Regular(s, gaps) ==
    /\ Len(s) >= 3 /\ Cardinality({s[n].m : n \in DOMAIN s}) >= 3
    /\ AtLeast(Hits(gaps, BestStep(gaps)), Len(gaps), 75)

MonthlyGroups(charges) ==
    {[phase |-> UsualPhase([n \in DOMAIN Dates(group) |-> [t |-> Dates(group)[n]]]), members |-> group] :
        group \in {g \in {Range(c) : c \in Range(PhaseClusters(ByPhase(charges)))} :
                     Regular(Dates(g), MonthGaps(Dates(g)))}}

\* Days at least a week apart, and two months with a charge of each.
MonthlyConcurrent(groups) ==
    /\ Cardinality(groups) >= 2
    /\ \A g, h \in groups : g # h =>
         /\ 32 \in {g.phase, h.phase} \/ Apart(g.phase, h.phase) >= 7
         /\ Cardinality(Months(g.members) \cap Months(h.members)) >= 2

WeekdayGroups(charges) ==
    {g \in {{c \in charges : Weekday(c.t) = w} : w \in 0..6} :
        /\ Len(Dates(g)) >= 4
        /\ \E days \in {Intervals(Dates(g))} :
             /\ AtLeast(Cardinality({n \in DOMAIN days : days[n] <= 21}), Len(days), 75)
             /\ Median2(days) <= 28}

WeeklyConcurrent(groups) ==
    /\ Cardinality(groups) >= 2
    /\ \A g, h \in groups : g # h =>
         Cardinality({Week(c.t) : c \in g} \cap {Week(c.t) : c \in h}) >= 3

\* The groups, and what is left of the charges.
WithResidual(groups, charges) == groups \cup ({charges \ UNION groups} \ {{}})

\* Days of the month, unless the charges as a whole are weekly; days of the week;
\* or no lanes.
Preferred(short, monthly, weekly, charges) ==
    IF ~ short /\ MonthlyConcurrent(monthly) THEN WithResidual({g.members : g \in monthly}, charges)
    ELSE IF WeeklyConcurrent(weekly) THEN WithResidual(weekly, charges) ELSE {}

Lanes(charges) ==
    IF Cardinality(charges) < 6 THEN {}
    ELSE Preferred(ShortCadence(Dates(charges), Intervals(Dates(charges))),
                   MonthlyGroups(charges), WeekdayGroups(charges), charges)

-----------------------------------------------------------------------------
Monthly(day) == [next |-> [m |-> 0, d |-> day], unit |-> "month", step |-> 1, day |-> day, moved |-> FALSE]

Weekly(day, step) == [next |-> [m |-> 0, d |-> day], unit |-> "day", step |-> step, day |-> day, moved |-> FALSE]

Init == plans = <<>> /\ billed = {}

Subscribe(plan) ==
    /\ billed = {} /\ Len(plans) < 2
    /\ plans' = Append(plans, plan)
    /\ UNCHANGED billed

Due(p) ==
    /\ Cardinality(billed) < MaxBilled
    /\ \A q \in DOMAIN plans : NotAfter(plans[p].next, plans[q].next)

Renewed(plan) ==
    [plan EXCEPT !.next = IF plan.unit = "month" THEN Scheduled(@.m + 1, plan.day, FALSE)
                          ELSE Later(@, plan.step)]

Of(p) == {c \in billed : c.plan = p}

LateOnes == {c \in billed : c.late}

Bill(p, days) ==
    /\ Due(p)
    /\ days > 0 => Cardinality(LateOnes) < MaxLate
    /\ billed' = billed \cup {[t |-> Later(plans[p].next, days), plan |-> p, late |-> days > 0,
                               id |-> Cardinality(billed)]}
    /\ plans' = [plans EXCEPT ![p] = Renewed(@)]

\* The provider moves the only plan, a monthly one, to another day, once.
Move(p, day) ==
    /\ Len(plans) = 1
    /\ plans[p].unit = "month" /\ ~ plans[p].moved /\ plans[p].day # day
    /\ Of(p) # {}
    /\ plans' = [plans EXCEPT ![p].day = day, ![p].moved = TRUE,
                              ![p].next = Scheduled(@.m, day, FALSE)]
    /\ UNCHANGED billed

Next ==
    \/ \E day \in Payday : Subscribe(Monthly(day))
    \/ \E day \in Start, step \in {7, 14} : Subscribe(Weekly(day, step))
    \/ \E p \in DOMAIN plans, days \in {0} \cup Delay : Bill(p, days)
    \/ \E p \in DOMAIN plans, day \in Payday : Move(p, day)

Spec == Init /\ [][Next]_laneVars

-----------------------------------------------------------------------------
(* Properties *)

\* One plan is never taken for two: not a weekly or fortnightly one, which visits
\* some days of the month again and again, and not a monthly one that moved to
\* another day.
OnePlanIsNotSplit == Len(plans) = 1 => Lanes(billed) = {}

FarApart(a, b) == ~ a.moved /\ ~ b.moved /\ Apart(a.day, b.day) \in 12..18

\* Two monthly plans a dozen days apart, billed side by side, are split into just
\* those two, unless together they pass for one plan of weeks.
TwoPlansTwoLanes ==
    (/\ Len(plans) = 2 /\ LateOnes = {}
     /\ \A p \in {1, 2} : plans[p].unit = "month" /\ Cardinality(Of(p)) >= 3
     /\ FarApart(plans[1], plans[2])
     /\ ~ ShortCadence(Dates(billed), Intervals(Dates(billed))))
    => Lanes(billed) = {Of(1), Of(2)}

\* A lane takes nothing from another monthly plan, though charges come late, and
\* nothing is in two lanes.
LanesDoNotMix ==
    /\ \A g, h \in Lanes(billed) : g # h => g \cap h = {}
    /\ (Len(plans) = 2 /\ (\A p \in {1, 2} : plans[p].unit = "month") /\ FarApart(plans[1], plans[2]))
       => \A g \in {m.members : m \in MonthlyGroups(billed)} : \E p \in {1, 2} : g \subseteq Of(p)

\* Plans of one merchant become as many lanes as there are plans.
LanesRight == OnePlanIsNotSplit /\ TwoPlansTwoLanes /\ LanesDoNotMix

=============================================================================
