------------------------------ MODULE Samples ------------------------------
(* What the analyses compute of samples: medians, distances, shares.      *)
EXTENDS Integers, Sequences, FiniteSets

LOCAL INSTANCE TLC

Larger(a, b) == IF a < b THEN b ELSE a

Smaller(a, b) == IF a < b THEN a ELSE b

Apart(a, b) == IF a < b THEN b - a ELSE a - b

\* The elements of a finite set in the given strict order.
Ranked(S, Below(_, _)) ==
    [k \in 1..Cardinality(S) |-> CHOOSE x \in S : Cardinality({y \in S : Below(y, x)}) = k - 1]

\* Twice the median.
Median2(s) ==
    LET o == SortSeq(s, <)
        n == Len(o)
    IN IF n % 2 = 1 THEN 2 * o[(n + 1) \div 2] ELSE o[n \div 2] + o[n \div 2 + 1]

\* The whole number nearest to half of n: halves away from zero, or to the even.
HalfUp(n) == (n + 1) \div 2

HalfEven(n) == IF n % 4 = 1 THEN n \div 2 ELSE HalfUp(n)

\* A share of n in m is at least that many hundredths.
AtLeast(n, m, hundredths) == 100 * n >= hundredths * m

Median2Of(Value(_), s) == Median2([n \in DOMAIN s |-> Value(s[n])])

=============================================================================
