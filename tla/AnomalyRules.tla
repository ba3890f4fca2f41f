---------------------------- MODULE AnomalyRules ----------------------------
(***************************************************************************)
(* The rules that turn one merchant's charges into findings: an amount far *)
(* above the earlier ones, charges billed twice in several months, a month *)
(* with far more charges than the months before.  Three histories grow     *)
(* here, one at a time: amounts, dated charges, and charges per month.     *)
(***************************************************************************)
EXTENDS Integers, FiniteSets, Sequences, Functions

LOCAL INSTANCE SequencesExt

LOCAL INSTANCE FiniteSetsExt

CONSTANTS
    Amount,      \* amounts in the history of amounts
    MaxAmounts,  \* bound
    BillAmount,  \* amounts of dated charges
    Gap,         \* days between dated charges
    MaxCharges,  \* bound
    MonthCount,  \* charges a month may have
    MaxMonths    \* bound

VARIABLES
    amounts,  \* sequence of amounts
    charges,  \* sequence of dated charges, by day and then by arrival
    counts    \* sequence of the active months' numbers of charges

ruleVars == <<amounts, charges, counts>>

Larger(a, b) == IF a < b THEN b ELSE a

\* Twice the median.
Median2(s) ==
    LET o == SortSeq(s, <)
        n == Len(o)
    IN IF n % 2 = 1 THEN 2 * o[(n + 1) \div 2] ELSE o[n \div 2] + o[n \div 2 + 1]

\* The values at the end of a history.
Recent(s, n) == SubSeq(s, Larger(1, Len(s) - n + 1), Len(s))

-----------------------------------------------------------------------------
(* An amount far above the merchant's earlier ones *)

Half(s) == Len(s) \div 2

\* Twice the first and third quartile: medians of the halves, without the
\* middle value of an odd number.
Quartiles2(s) ==
    LET o == SortSeq(s, <) IN
    <<Median2(SubSeq(o, 1, Half(s))), Median2(SubSeq(o, Len(s) - Half(s) + 1, Len(s)))>>

\* Twice the fence: three interquartile ranges above the third quartile.
Fence(q) == q[2] + 3 * Larger(0, q[2] - q[1])

\* Forty times the spread: the median deviation, a twentieth of the median, or 1.
Spread40(w) ==
    LET b == Median2(w)
        deviation == [n \in DOMAIN w |-> IF 2 * w[n] < b THEN b - 2 * w[n] ELSE 2 * w[n] - b]
    IN Larger(Larger(10 * Median2(deviation), b), 40)

\* The amount is at least 3 spreads, half again and 20 above the median of up
\* to twelve earlier ones, and beyond their fence.
Unusual(a, history) ==
    LET w == Recent(history, 12)
        b == Median2(w)
    IN /\ Len(w) >= 4 /\ b > 0
       /\ 40 * a - 20 * b >= 3 * Spread40(w)
       /\ 40 * a - 20 * b >= 800
       /\ 4 * a >= 3 * b
       /\ 2 * a >= Fence(Quartiles2(w))

\* Mutant: the baseline is the whole history.
UnusualAmountsOfAll(s) == {n \in DOMAIN s : Unusual(s[n], s)}

\* Each amount is compared with the earlier ones only.
UnusualAmounts(s) == {n \in DOMAIN s : Unusual(s[n], SubSeq(s, 1, n - 1))}

-----------------------------------------------------------------------------
(* Charges billed twice *)

Month(c) == c.day \div 30

\* At most 1, or a twentieth of the larger, apart.
Similar(a, b) ==
    LET d == IF a < b THEN b - a ELSE a - b
    IN d <= 1 \/ 20 * d <= Larger(a, b)

Pair(c, d) == d.day - c.day <= 7 /\ Similar(c.amt, d.amt)

InMonth(s, m) ==
    SortSeq(SelectSeq(s, LAMBDA c : Month(c) = m),
            LAMBDA c, d : \/ c.day < d.day
                          \/ c.day = d.day /\ (c.amt < d.amt \/ (c.amt = d.amt /\ c.id < d.id)))

\* The first later charge, not paired yet, that the charge pairs with.
Partner(o, n, used) ==
    LET fit == {k \in DOMAIN o : k > n /\ k \notin used /\ Pair(o[n], o[k])}
    IN IF n \in used \/ fit = {} THEN {} ELSE {Min(fit)}

\* The charges of a month that are paired, in its order.
Paired(o) ==
    LET used[n \in 0..Len(o)] ==
          IF n = 0 THEN {}
          ELSE LET p == Partner(o, n, used[n - 1])
               IN used[n - 1] \cup p \cup (IF p = {} THEN {} ELSE {n})
    IN used[Len(o)]

\* Pairs in two months make a finding.
BilledTwice(s) ==
    Cardinality({m \in {Month(c) : c \in Range(s)} : Paired(InMonth(s, m)) # {}}) >= 2

-----------------------------------------------------------------------------
(* A month with far more charges than the months before *)

\* At least 3, two and a half times and 2 more than the median of up to six
\* earlier active months, of which there are at least three.
Frequent(n, before) ==
    LET b == Median2(Recent(before, 6))
    IN /\ Len(before) >= 3
       /\ n >= 3 /\ 4 * n >= 5 * b /\ 2 * n - b >= 4

FrequentMonths(s) == {n \in DOMAIN s : Frequent(s[n], SubSeq(s, 1, n - 1))}

TooOld(o, left, right) == o[right].day - o[left].day > 6

\* The most charges in seven days: the window's left end follows its right end.
MostIn7Days(o) ==
    LET left[r \in 0..Len(o)] ==
          IF r = 0 THEN 1 ELSE Min({l \in left[r - 1]..r : ~ TooOld(o, l, r)})
    IN Max({0} \cup {r - left[r] + 1 : r \in DOMAIN o})

-----------------------------------------------------------------------------
Init == amounts = <<>> /\ charges = <<>> /\ counts = <<>>

AddAmount(a) ==
    /\ charges = <<>> /\ counts = <<>> /\ Len(amounts) < MaxAmounts
    /\ amounts' = Append(amounts, a)
    /\ UNCHANGED <<charges, counts>>

AddCharge(gap, a) ==
    /\ amounts = <<>> /\ counts = <<>> /\ Len(charges) < MaxCharges
    /\ charges' = Append(charges,
         [id |-> Len(charges), amt |-> a,
          day |-> IF charges = <<>> THEN gap ELSE Last(charges).day + gap])
    /\ UNCHANGED <<amounts, counts>>

AddMonth(n) ==
    /\ amounts = <<>> /\ charges = <<>> /\ Len(counts) < MaxMonths
    /\ counts' = Append(counts, n)
    /\ UNCHANGED <<amounts, charges>>

Next ==
    \/ \E a \in Amount : AddAmount(a)
    \/ \E gap \in Gap, a \in BillAmount : AddCharge(gap, a)
    \/ \E n \in MonthCount : AddMonth(n)

Spec == Init /\ [][Next]_ruleVars

-----------------------------------------------------------------------------
(* Properties *)

\* An amount is unusual only if at most a quarter of the charges it is compared
\* with reached it: a merchant with a wide but regular range is left alone.
UnusualIsRare ==
    \A n \in UnusualAmounts(amounts) :
        LET w == Recent(SubSeq(amounts, 1, n - 1), 12)
        IN 4 * Cardinality({k \in DOMAIN w : w[k] >= amounts[n]}) <= Len(w)

\* Later charges never change what was found about earlier ones, nor withdraw a
\* finding: the rules look back only.
FindingsAreCausal ==
    [][/\ UnusualAmounts(amounts) = UnusualAmounts(amounts') \ {Len(amounts) + 1}
       /\ FrequentMonths(counts) = FrequentMonths(counts') \ {Len(counts) + 1}
       /\ BilledTwice(charges) => BilledTwice(charges')]_ruleVars

\* The greedy pairing of a month leaves no two charges unpaired that would pair,
\* and pairs each charge once: the finding does not depend on luck in the order.
PairingIsMaximal ==
    \A m \in {Month(c) : c \in Range(charges)} :
        LET o == InMonth(charges, m)
            left == DOMAIN o \ Paired(o)
        IN /\ Cardinality(Paired(o)) % 2 = 0
           /\ \A n, k \in left : n < k => ~ Pair(o[n], o[k])

\* The window's count is the greatest number of charges in any seven days.
BurstIsExact ==
    MostIn7Days(charges) =
        Max({0} \cup {Cardinality({k \in DOMAIN charges : charges[k].day \in (c.day)..(c.day + 6)})
                        : c \in Range(charges)})

\* The rules find what their definition says, in a history of any order and
\* however it goes on.
RulesRight ==
    /\ [](UnusualIsRare /\ PairingIsMaximal /\ BurstIsExact)
    /\ FindingsAreCausal

=============================================================================
