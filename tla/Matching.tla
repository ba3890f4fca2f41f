------------------------------ MODULE Matching ------------------------------
(***************************************************************************)
(* How the evaluation of the recurrence analysis pairs labels (the streams *)
(* a data set says there are, or the charges it says are due) with the     *)
(* profiles the analysis predicted: a one to one assignment of the highest *)
(* utility, found row by row with potentials.  Every label has a column of *)
(* its own of utility 0, besides the columns of the profiles.              *)
(***************************************************************************)
EXTENDS Integers, Sequences, FiniteSets, Samples

LOCAL INSTANCE FiniteSetsExt

LOCAL INSTANCE SequencesExt

CONSTANTS
    Nil,
    LabelOf,     \* sequence of labels, in the order of their sort keys
    ProfileOf,   \* sequence of profiles, in the order of theirs
    MaxLabels,   \* bound
    MaxProfiles  \* bound

VARIABLES
    labels,    \* sequence of labels to match, by their place in LabelOf
    profiles,  \* sequence of predictions, by their place in ProfileOf
    kind,      \* "streams" or "occurrences" once the matching runs, or Nil
    utility,   \* of every label and column
    solver,    \* the state of the assignment
    pairs      \* the pairs it found, or Nil

matchVars == <<labels, profiles, kind, utility, solver, pairs>>

Infinite == 1000000000

Invalid == -1000000

-----------------------------------------------------------------------------
(* The utility of a pair, or Invalid *)

\* The same merchant, or two names of two words or more one of which begins the other.
Merchant(a, b) ==
    LET n == Smaller(Len(a), Len(b))
    IN CASE a = b -> 10000
         [] a # b /\ n >= 2 /\ SubSeq(a, 1, n) = SubSeq(b, 1, n) -> 9000
         [] OTHER -> Invalid

\* n / d to the nearest whole number, a half to the even one.
Nearest(n, d) ==
    n \div d + (IF 2 * (n % d) > d \/ (2 * (n % d) = d /\ (n \div d) % 2 = 1) THEN 1 ELSE 0)

\* An amount in the range of the label, the more the closer to its middle.
AmountUtility(lo, hi, amount) ==
    CASE (lo # Nil /\ amount < lo) \/ (hi # Nil /\ amount > hi) -> Invalid
      [] lo = Nil /\ hi = Nil -> 0
      [] Nil \in {lo, hi} /\ lo # hi -> 1000
      [] OTHER -> IF lo = hi THEN 2000
                  ELSE 1000 + Nearest(1000 * (hi - lo - Apart(2 * amount, lo + hi)), hi - lo)

\* A field the label leaves open adds nothing; one it states must be the profile's.
Field(stated, found, worth) ==
    IF stated = Nil THEN 0 ELSE IF stated = found THEN worth ELSE Invalid

\* A profile whose calendar is unknown contradicts no calendar.
Calendar(stated, found) == IF found = Nil THEN 0 ELSE Field(stated, found, 5000)

Evidence(label, profile) ==
    <<Merchant(label.merchant, profile.merchant), Calendar(label.calendar, profile.calendar),
      Field(label.desc, profile.desc, 3500), Field(label.cadence, profile.cadence, 2500),
      AmountUtility(label.lo, label.hi, profile.amt)>>

Total(e, more) ==
    IF \E n \in DOMAIN e : e[n] = Invalid THEN Invalid ELSE e[1] + e[2] + e[3] + e[4] + e[5] + more

StreamUtility(label, profile, active) ==
    Total(Evidence(label, profile), IF active THEN 100000 ELSE 0)

\* A charge predicted within a week of the expected date.
DateUtility(days) == IF days > 7 THEN Invalid ELSE 1250 * (8 - days)

ExpectedAmountUtility(expected, amount) ==
    IF expected = Nil THEN 0
    ELSE (2000 * Larger(0, expected - Apart(amount, expected))) \div expected

OccurrenceUtility(label, profile) ==
    IF DateUtility(Apart(label.date, profile.date)) = Invalid THEN Invalid
    ELSE Total(Evidence(label, profile),
               100000 + DateUtility(Apart(label.date, profile.date))
                      + ExpectedAmountUtility(label.expected, profile.amt))

Utility(label, profile, of) ==
    IF of = "streams" THEN StreamUtility(label, profile, label.active)
    ELSE OccurrenceUtility(label, profile)

-----------------------------------------------------------------------------
(* The assignment.  p names the row of a column (0: none), column 0 stands   *)
(* for the row being placed.                                                 *)

Rows == 1..Len(labels)

Columns == 1..(Len(labels) + Len(profiles))

Highest == Max(UNION {{utility[r][c] : c \in Columns} : r \in Rows})

Cost(r, c) == Highest - utility[r][c]

Init ==
    /\ labels = <<>> /\ profiles = <<>> /\ kind = Nil /\ utility = <<>>
    /\ solver = Nil /\ pairs = Nil

AddLabel(l) ==
    /\ kind = Nil /\ Len(labels) < MaxLabels
    /\ \A n \in DOMAIN labels : labels[n] # l
    /\ labels' = Append(labels, l)
    /\ UNCHANGED <<profiles, kind, utility, solver, pairs>>

AddProfile(k) ==
    /\ kind = Nil /\ Len(profiles) < MaxProfiles
    /\ \A n \in DOMAIN profiles : profiles[n] # k
    /\ profiles' = Append(profiles, k)
    /\ UNCHANGED <<labels, kind, utility, solver, pairs>>

Unscanned == [c \in 0..Cardinality(Columns) |-> 0]

\* The inputs are sorted, the utilities computed.
Begin(of) ==
    /\ kind = Nil /\ labels # <<>>
    /\ kind' = of
    /\ labels' = SortSeq(labels, <) /\ profiles' = SortSeq(profiles, <)
    /\ utility' = [r \in Rows |-> [c \in Columns |->
           IF c > Len(profiles) THEN 0
           ELSE Utility(LabelOf[labels'[r]], ProfileOf[profiles'[c]], of)]]
    /\ solver' = [at |-> "row", row |-> 0, col |-> 0, u |-> [r \in {0} \cup Rows |-> 0],
                  v |-> Unscanned, p |-> Unscanned, way |-> Unscanned, minv |-> Unscanned, used |-> {}]
    /\ UNCHANGED pairs

StartRow ==
    /\ solver # Nil /\ solver.at = "row" /\ solver.row < Len(labels)
    /\ solver' = [solver EXCEPT !.at = "scan", !.row = @ + 1, !.p[0] = solver.row + 1, !.col = 0,
                                !.minv = [c \in DOMAIN @ |-> Infinite], !.used = {}]
    /\ UNCHANGED <<labels, profiles, kind, utility, pairs>>

\* Mutant: the potentials of the columns are forgotten.
LeftOfRow(s, c) == Cost(s.p[s.col], c) - s.u[s.p[s.col]]

\* What is left of a column's cost for the row of the current column.
Left(s, c) == Cost(s.p[s.col], c) - s.u[s.p[s.col]] - s.v[c]

\* The potentials of the columns used so far, and of their rows, move by delta.
Shifted(s, minv, delta) ==
    [s EXCEPT !.u = [r \in DOMAIN @ |-> IF \E c \in s.used : s.p[c] = r THEN @[r] + delta ELSE @[r]],
              !.v = [c \in DOMAIN @ |-> IF c \in s.used THEN @[c] - delta ELSE @[c]],
              !.minv = [c \in DOMAIN @ |-> IF c \in s.used THEN minv[c] ELSE minv[c] - delta]]

Moved(s, minv, next) ==
    [Shifted(s, minv, minv[next]) EXCEPT
        !.way = [c \in DOMAIN @ |-> IF c # 0 /\ c \notin s.used /\ Left(s, c) < s.minv[c] THEN s.col ELSE @[c]],
        !.col = next,
        !.at = IF s.p[next] = 0 THEN "augment" ELSE "scan"]

\* From the current column to the unused one that costs least.
Scanned(s) ==
    LET minv == [c \in DOMAIN s.minv |-> IF c = 0 \/ c \in s.used THEN s.minv[c]
                                         ELSE Smaller(s.minv[c], Left(s, c))]
        open == Columns \ s.used
        next == CHOOSE c \in open : \A d \in open \ {c} : minv[c] < minv[d] \/ (minv[c] = minv[d] /\ c < d)
    IN Moved(s, minv, next)

Scan ==
    /\ solver # Nil /\ solver.at = "scan"
    /\ solver' = Scanned([solver EXCEPT !.used = @ \cup {solver.col}])
    /\ UNCHANGED <<labels, profiles, kind, utility, pairs>>

\* The columns on the way back take over one another's rows.
Augment ==
    /\ solver # Nil /\ solver.at = "augment"
    /\ solver' = [solver EXCEPT !.p[solver.col] = solver.p[solver.way[solver.col]],
                                !.col = solver.way[solver.col],
                                !.at = IF solver.way[solver.col] = 0 THEN "row" ELSE "augment"]
    /\ UNCHANGED <<labels, profiles, kind, utility, pairs>>

Found(p) == {<<r, c>> \in Rows \X DOMAIN profiles : p[c] = r /\ utility[r][c] > 0}

Finish ==
    /\ solver # Nil /\ solver.at = "row" /\ solver.row = Len(labels)
    /\ pairs' = Found(solver.p)
    /\ solver' = [solver EXCEPT !.at = "done"]
    /\ UNCHANGED <<labels, profiles, kind, utility>>

Next ==
    \/ \E l \in DOMAIN LabelOf : AddLabel(l)
    \/ \E k \in DOMAIN ProfileOf : AddProfile(k)
    \/ \E of \in {"streams", "occurrences"} : Begin(of)
    \/ StartRow \/ Scan \/ Augment \/ Finish

Spec == Init /\ [][Next]_matchVars

-----------------------------------------------------------------------------
(* What the evaluation counts *)

Matched(r) == \E c \in DOMAIN profiles : <<r, c>> \in pairs

Extra == {c \in DOMAIN profiles : \A r \in Rows : <<r, c>> \notin pairs}

\* An observation per label, and one for every profile no label took; for
\* occurrences, every label is of a charge that is due.
Actual(r) == kind = "occurrences" \/ LabelOf[labels[r]].active

TruePositives == Cardinality({r \in Rows : Actual(r) /\ Matched(r)})

FalsePositives == Cardinality({r \in Rows : ~ Actual(r) /\ Matched(r)}) + Cardinality(Extra)

FalseNegatives == Cardinality({r \in Rows : Actual(r) /\ ~ Matched(r)})

-----------------------------------------------------------------------------
(* Properties *)

Compatible == {<<r, c>> \in Rows \X DOMAIN profiles : utility[r][c] > 0}

Matchings ==
    {M \in SUBSET Compatible : \A a, b \in M : (a[1] = b[1] \/ a[2] = b[2]) => a = b}

Worth(M) == MapThenSumSet(LAMBDA a : utility[a[1]][a[2]], M)

\* The pairs are one to one, compatible, and no such pairs are worth more.
MatchingIsOptimal ==
    pairs # Nil => /\ pairs \in Matchings
                   /\ \A M \in Matchings : Worth(M) <= Worth(pairs)

\* A label that is not active never takes the profile of one that is: as many
\* active labels are matched as can be.
ActiveFirst ==
    LET actives(M) == Cardinality({a \in M : Actual(a[1])})
    IN pairs # Nil => \A M \in Matchings : actives(M) <= actives(pairs)

\* Whatever the evaluation has placed so far, the potentials price no column of a
\* placed row below its cost, and an assigned column exactly at it.
PotentialsPriceCosts ==
    solver # Nil =>
        /\ \A r \in 1..solver.row, c \in Columns : solver.u[r] + solver.v[c] <= Cost(r, c)
        /\ \A c \in Columns : solver.p[c] # 0 /\ solver.at # "augment" =>
              solver.u[solver.p[c]] + solver.v[c] = Cost(solver.p[c], c)

\* A profile that could be a label's is counted as false only if another profile
\* was taken for it, and an active label as missed only if no profile is left for it.
NoFalseAlarmForMissed ==
    pairs # Nil => /\ TruePositives + FalsePositives = Len(profiles)
                   /\ TruePositives + FalseNegatives = Cardinality({r \in Rows : Actual(r)})
                   /\ \A r \in Rows, c \in Extra :
                         Actual(r) /\ ~ Matched(r) => <<r, c>> \notin Compatible

\* The assignment of profiles to labels is the best there is, at its end and by
\* the potentials that lead to it, and the counts say what it matched.
MatchingRight ==
    /\ MatchingIsOptimal
    /\ ActiveFirst
    /\ PotentialsPriceCosts
    /\ NoFalseAlarmForMissed

=============================================================================
