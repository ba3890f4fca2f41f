----------------------------- MODULE Continuity -----------------------------
(***************************************************************************)
(* The streams of one merchant as the analysis of a given day reports      *)
(* them: streams of one price first, then an episode that follows a long   *)
(* silence on its own, or the prices of one schedule linked together.      *)
(*                                                                         *)
(* A charge has a date t and an amount amt; due is the month it is for,    *)
(* which the program is not told: a charge for the first of a month may be *)
(* posted in the last days of the month before.                            *)
(***************************************************************************)
EXTENDS Schedules, StreamClusters

LOCAL INSTANCE SequencesExt

LOCAL INSTANCE FiniteSetsExt

CONSTANTS
    Price,       \* amounts of charges
    Silence,     \* months without a charge of a silence
    MaxCharges,  \* bound
    MaxEarly,    \* bound on charges posted early
    MaxChanges,  \* bound on changes of price
    MaxOdd,      \* bound on early postings and changes of price together
    Wait,        \* days that may pass without a charge
    MaxWaits     \* bound on how often they do

VARIABLES
    charges,  \* sequence of charges, in order
    today,    \* the day of the analysis
    report    \* the streams it finds

contVars == <<charges, today, report>>

DatesOf(members) == InOrder({c.t : c \in Range(members)})

\* The dates the charges stand for, given the usual day of the first of a month.
NominalDates(members, target) == InOrder({Nominal(c.t, target) : c \in Range(members)})

-----------------------------------------------------------------------------
(* Episodes *)

Opens(members, target, step) ==
    {n \in DOMAIN members :
        n > 1 => Nominal(members[n].t, target).m - Nominal(members[n - 1].t, target).m > 2 * step}

\* A silence of more than two steps ends an episode.
Episodes(members, target, step) ==
    LET opens == Ranked(Opens(members, target, step), <)
    IN [k \in DOMAIN opens |->
          SubSeq(members, opens[k], IF k = Len(opens) THEN Len(members) ELSE opens[k + 1] - 1)]

\* Amounts, doubled, of which the larger is at most half more.
Bounded(a2, b2) == Smaller(a2, b2) > 0 /\ 2 * Apart(a2, b2) <= Smaller(a2, b2)

-----------------------------------------------------------------------------
(* An episode after a long silence *)

\* Of the steps that fit the gaps of up to two steps, the one that most gaps have.
EpisodeCadence(s) ==
    LET gaps == MonthGaps(s)
        local(step) == Cardinality({n \in DOMAIN gaps : gaps[n] \in 1..(2 * step)})
        fits == {step \in {1, 3, 12} : Hits(gaps, step) >= 3 /\ AtLeast(Hits(gaps, step), local(step), 80)}
        best == CHOOSE step \in fits : \A other \in fits \ {step} :
                    LET a == Hits(gaps, step)  b == Hits(gaps, other)
                        al == local(step)      bl == local(other)
                    IN \/ a > b
                       \/ a = b /\ (a * bl > b * al \/ (a * bl = b * al /\ step < other))
    IN IF Len(s) < 5 \/ fits = {} THEN NoCadence
       ELSE [unit |-> "month", step |-> best, hits |-> Hits(gaps, best), of |-> local(best)]

EveryStep(s, step) == \A n \in DOMAIN MonthGaps(s) : MonthGaps(s)[n] = step

\* The new charges fall on the days of the earlier episode.
MatchesPrior(prior, current, step) ==
    /\ EveryStep(current, step)
    /\ \A n \in DOMAIN current :
         IF MonthEndPattern(prior) THEN IsMonthEnd(current[n])
         ELSE Apart(current[n].d, Target(prior)) <= 4

\* Mutant: the grace is forgotten.
ActiveStrictly(prior, current, step, end) ==
    Before(end, Scheduled(Last(current).m + step, Target(prior), MonthEndPattern(prior)))

Active(prior, current, step, end) ==
    Before(end, Later(Scheduled(Last(current).m + step, Target(prior), MonthEndPattern(prior)), 5))

\* An episode follows an earlier one: it is as that one was, and is not over.
Follows(prior, current, step, end) ==
    /\ NotAfter(Last(current), end)
    /\ EveryStep(prior, step)
    /\ MatchesPrior(prior, current, step)
    /\ Active(prior, current, step, end)

LastEpisode(episodes, target, c, end) ==
    LET k == Len(episodes)
        dates == NominalDates(episodes[k], target)
    IN IF /\ k >= 2
          /\ Len(DatesOf(episodes[k - 1])) >= 4
          /\ Follows(NominalDates(episodes[k - 1], target), dates, c.step, end)
          /\ Bounded(Centre2(episodes[k - 1]), Centre2(episodes[k]))
       THEN {[basis |-> "reactivation", members |-> episodes[k], dates |-> dates, cadence |-> c]}
       ELSE {}

ReactivationsAt(members, target, c, end) ==
    IF c = NoCadence THEN {} ELSE LastEpisode(Episodes(members, target, c.step), target, c, end)

ReactivationsFor(members, target, end) ==
    ReactivationsAt(members, target, EpisodeCadence(NominalDates(members, target)), end)

\* The last episode of five charges or more.
Reactivations(members, end) ==
    IF Len(DatesOf(members)) < 5 THEN {} ELSE ReactivationsFor(members, StartTarget(DatesOf(members)), end)

-----------------------------------------------------------------------------
(* Streams of one schedule whose price changed.  A group is a sequence of    *)
(* streams, each the sequence of its charges.                                *)

WithPrice(centre2, regimes) ==
    IF \E k \in DOMAIN regimes : AmountMatches(centre2, regimes[k], FALSE) THEN regimes
    ELSE Append(regimes, centre2)

\* The prices of a group, from low to high: streams near an earlier price share it.
Regimes(group) ==
    LET order == SortSeq([k \in DOMAIN group |-> Centre2(group[k])], <)
        found[n \in 0..Len(order)] == IF n = 0 THEN <<>> ELSE WithPrice(order[n], found[n - 1])
    IN found[Len(order)]

RegimeOf(stream, regimes) ==
    Min({k \in DOMAIN regimes : AmountMatches(Centre2(stream), regimes[k], FALSE)})

\* At most three prices follow one another, none comes back, none is far from the
\* one before.
InSequence(price, regimes) ==
    LET turns == {n \in DOMAIN price : n > 1 /\ price[n] # price[n - 1]}
    IN /\ Len(regimes) <= 3
       /\ Cardinality(turns) + 1 = Cardinality(Range(price))
       /\ \A n \in turns : Bounded(regimes[price[n]], regimes[price[n - 1]])

\* The price of every charge, in the order of the charges.
Prices(group, all, regimes) ==
    [n \in DOMAIN all |->
        RegimeOf(CHOOSE stream \in Range(group) : all[n] \in Range(stream), regimes)]

SequentialIn(group, all, regimes) == InSequence(Prices(group, all, regimes), regimes)

Sequential(group, all) == SequentialIn(group, all, Regimes(group))

\* The nominal dates of charges, and the cadence, monthly or longer, that 80 in 100
\* gaps of enough dates have.
GroupDates(members) == NominalDates(members, StartTarget(DatesOf(members)))

Lasting(c) == IF c.unit = "month" /\ AtLeast(c.hits, c.of, 80) THEN c ELSE NoCadence

GroupCadence(members, enough) ==
    IF Len(DatesOf(members)) >= enough THEN Lasting(Cadence(GroupDates(members))) ELSE NoCadence

\* One schedule, with one charge a period, and up to date.
UpToDate(s, c, end) ==
    /\ c # NoCadence
    /\ \A n \in DOMAIN MonthGaps(s) : MonthGaps(s)[n] <= 2 * c.step
    /\ Cardinality({Period(s[n], c) : n \in DOMAIN s}) = Len(s)
    /\ ~ PaymentMissing(s, c, end)
    /\ Missed(s, c, end) = 0
    /\ AtLeast(DayStability(s)[1], DayStability(s)[2], 70)

SingleSchedule(members, end, enough) ==
    UpToDate(GroupDates(members), GroupCadence(members, enough), end)

Restricted(group, members) ==
    LET kept == [k \in DOMAIN group |-> SelectSeq(group[k], LAMBDA c : c \in Range(members))]
    IN SelectSeq(kept, LAMBDA stream : stream # <<>>)

\* A later episode of a group whose price may have changed over the silence.
Resumes(group, prior, current, end) ==
    /\ Len(DatesOf(prior)) >= 4 /\ Len(DatesOf(current)) >= 2
    /\ GroupCadence(prior, 4).step = GroupCadence(current, 2).step
    /\ SingleSchedule(prior, Last(prior).t, 4)
    /\ SingleSchedule(current, end, 2)
    /\ Bounded(Centre2(prior), Centre2(current))
    /\ Sequential(Restricted(group, current), current)

LastResumed(group, episodes, end) ==
    LET k == Len(episodes)
    IN IF k >= 2 /\ Resumes(group, episodes[k - 1], episodes[k], end) THEN {episodes[k]} ELSE {}

EpisodeOfGroup(group, all, c, end) ==
    IF c = NoCadence THEN {}
    ELSE LastResumed(group, Episodes(all, StartTarget(DatesOf(all)), c.step), end)

-----------------------------------------------------------------------------
Stream(basis, members) ==
    [basis |-> basis, members |-> members, dates |-> DatesOf(members),
     cadence |-> Cadence(DatesOf(members))]

\* All the streams as one; an episode of theirs.
Linked(group, all, episodes, end) ==
    CASE Len(group) > 1 /\ SingleSchedule(all, end, 4) /\ Sequential(group, all) -> {Stream("linked", all)}
      [] OTHER -> {Stream("episode", m) : m \in episodes}

\* Lanes of one amount (TemporalLanes) take more charges than are made here.
OnePrice(clusters) ==
    {Stream(IF StreamKey(c, clusters) = <<Nil, Nil>> THEN "default" ELSE "amount", c.members) :
        c \in Range(clusters)}

WithoutReactivation(group, all, clusters, end) ==
    LET linked == IF Len(group) = 1 THEN {}
                  ELSE Linked(group, all, EpisodeOfGroup(group, all, GroupCadence(all, 4), end), end)
    IN IF linked = {} THEN OnePrice(clusters) ELSE linked

Chosen(reactivations, others) == IF reactivations # {} THEN reactivations ELSE others

StreamsOf(clusters, members, end) ==
    Chosen(Reactivations(members, end),
           WithoutReactivation([k \in DOMAIN clusters |-> clusters[k].members], members, clusters, end))

Streams(members, end) == StreamsOf(Clusters(members), members, end)

\* The streams that get a profile (their score aside), and what it says is missed.
Profiled(stream) ==
    /\ stream.basis # "reactivation" => Len(stream.dates) >= 3 /\ stream.cadence # NoCadence
    /\ stream.basis = "amount" => EnoughForAmount(stream.dates, stream.cadence)

Reported == {stream \in report : Profiled(stream)}

MissedBy(stream, end) == MissedUnlessAmbiguous(stream.dates, stream.cadence, end)

NothingMissed == \A stream \in Reported : MissedBy(stream, today) = 0

-----------------------------------------------------------------------------
(* Whether the evaluation counts a monthly stream as active in a month       *)

LabelTarget(s) == EarlyDay(s, HalfEven(Median2Of(LAMBDA t : t.d, s)))

\* Of the charges posted by the end of the month, the nominal dates up to it.
LabelDates(visible, target, m) ==
    {t \in {Nominal(visible[n], target) : n \in DOMAIN visible} : t.m <= m}

ActiveSince(nominal, step, m) ==
    Cardinality(nominal) >= 3 /\ \E t \in nominal : m - t.m < step

LabelActive(s, step, m) ==
    Len(s) >= 3 /\ ActiveSince(LabelDates(s, LabelTarget(s), m), step, m)

PostedBy(m) == DatesOf(SelectSeq(charges, LAMBDA c : c.t.m <= m))

-----------------------------------------------------------------------------
Init == charges = <<>> /\ today = [m |-> 0, d |-> 1] /\ report = {}

Early == Cardinality({n \in DOMAIN charges : charges[n].t.m # charges[n].due})

Changes == Cardinality({n \in DOMAIN charges : n > 1 /\ charges[n].amt # charges[n - 1].amt})

Silences == Cardinality({n \in DOMAIN charges : n > 1 /\ charges[n].due # charges[n - 1].due + 1})

\* A charge for the first of a month, posted then or two days before, in the
\* month after the last or after a silence.
Charge(months, early, amount) ==
    LET due == IF charges = <<>> THEN 2 ELSE Last(charges).due + months
        t == IF early THEN [m |-> due - 1, d |-> DaysIn(due - 1) - 1] ELSE [m |-> due, d |-> 1]
    IN /\ Len(charges) < MaxCharges
       /\ months > 1 => charges # <<>> /\ Silences = 0
       /\ NotAfter(today, t)
       /\ charges' = Append(charges, [id |-> Len(charges), t |-> t, due |-> due, amt |-> amount, desc |-> Nil])
       /\ Early' <= MaxEarly /\ Changes' <= MaxChanges /\ (Early + Changes)' <= MaxOdd
       /\ today' = t

Pass(days) ==
    /\ charges # <<>>
    /\ Ordinal(today) < Ordinal(Last(charges).t) + MaxWaits
    /\ today' = Later(today, days)
    /\ UNCHANGED charges

Next ==
    /\ \/ \E months \in {1} \cup {n + 1 : n \in Silence}, early \in BOOLEAN, amount \in Price :
             Charge(months, early, amount)
       \/ \E days \in Wait : Pass(days)
    /\ report' = Streams(charges', today')

Spec == Init /\ [][Next]_contVars

-----------------------------------------------------------------------------
(* Properties *)

\* A charge counts in one stream at most, and the charges that count in none are
\* those of the episodes before the one reported.
NothingCountedTwice ==
    /\ \A c \in Range(charges) : Cardinality({s \in report : c \in Range(s.members)}) <= 1
    /\ \A s \in report, c \in Range(charges) :
          (\A other \in report : c \notin Range(other.members)) => Before(c.t, s.members[1].t)

InTurn(s) == \A n \in DOMAIN s : n > 1 => s[n].due = s[n - 1].due + 1

\* A monthly charge, posted on its day, whose price rises by at most half, once or
\* twice, stays one stream, and has missed nothing, through the day before the
\* next one's grace ends.
PriceChangeFollowed ==
    (/\ Len(charges) >= 4 /\ InTurn(charges)
     /\ \A n \in DOMAIN charges : n > 1 =>
          charges[n].amt >= charges[n - 1].amt /\ 2 * charges[n].amt <= 3 * charges[n - 1].amt
     /\ \A n \in DOMAIN charges : charges[n].t.m = charges[n].due
     /\ Before(today, [m |-> Last(charges).due + 1, d |-> 6]))
    => /\ \E s \in Reported : s.members = charges
       /\ NothingMissed

\* The first charge after a silence, at a price near the old one, starts a stream
\* of its own, of which nothing is missed: the months of silence are no missed
\* payments.  One charge is enough (MIN_REACTIVATION_OCCURRENCES is 1), though
\* docs/historical-analysis.md:337 has reactivation wait for more.
SilenceIsNotMissed ==
    \A n \in DOMAIN charges :
        (/\ n >= 5 /\ charges[n].due > charges[n - 1].due + 2
         /\ InTurn(SubSeq(charges, 1, n - 1)) /\ InTurn(SubSeq(charges, n, Len(charges)))
         /\ \A k \in DOMAIN charges : charges[k].t.m = charges[k].due
         /\ Bounded(Centre2(SubSeq(charges, 1, n - 1)), Centre2(SubSeq(charges, n, Len(charges))))
         /\ Before(today, [m |-> Last(charges).due + 1, d |-> 6]))
        => /\ \A s \in Reported : s.members = SubSeq(charges, n, Len(charges))
           /\ NothingMissed

\* As long as most charges are posted in the month they are for, the evaluation
\* counts the stream as active in just the months with a charge due, from the third
\* on, whichever month the charge was posted in.
LabelsFollowDue ==
    \A m \in {n \in 0..today.m : \E c \in Range(charges) : c.due > n} :
        LET posted == {c \in Range(charges) : c.t.m <= m}
        IN (2 * Cardinality({c \in posted : c.t.m # c.due}) < Cardinality(posted))
           => (LabelActive(PostedBy(m), 1, m)
                 <=> /\ \E c \in posted : c.due = m
                     /\ Cardinality({c \in posted : c.due <= m}) >= 3)

\* A stream goes on through changes of price, early postings and silences, with
\* each charge counted once.
ContinuityRight ==
    /\ NothingCountedTwice
    /\ PriceChangeFollowed
    /\ SilenceIsNotMissed
    /\ LabelsFollowDue

=============================================================================
