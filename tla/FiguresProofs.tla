--------------------------- MODULE FiguresProofs ----------------------------
(***************************************************************************)
(* The figures of the screens agree for any rows, categories, budgets,     *)
(* page size and number of writes: theorems about the component "figures"  *)
(* of MCServices.                                                          *)
(***************************************************************************)
EXTENDS MCServices, NaturalSets, FiniteSetTheorems, FunctionTheorems

-----------------------------------------------------------------------------
(* The figures: rows and months *)

IsTable(rs) == IsFiniteSet(DOMAIN rs) /\ rs \in [DOMAIN rs -> Fig!Row]

\* The transactions of a month, and those of them of a type.
Of(rs, p) == {i \in DOMAIN rs : rs[i].on.y = p.y /\ rs[i].on.n = p.n}

Kind(rs, p, type) == {i \in Of(rs, p) : rs[i].cat.type = type}

Kept(rs, D) == [i \in D |-> rs[i]]

Amount(rs, D) == SumOver([i \in D |-> rs[i].amt])

\* The fields of a transaction.
LEMMA RowIs ==
    ASSUME NEW r \in Fig!Row
    PROVE  /\ r.cat.name \in Fig!Name /\ r.cat.type \in {"income", "expense"} /\ r.amt \in Nat
           /\ r.cat \in [name : Fig!Name, type : {"income", "expense"}]
           /\ r.on.y \in Int /\ r.on.n \in 1..12 /\ r.on.d \in 1..31 /\ r.on.d <= Fig!DaysOf(r.on)
BY DEF Fig!Row, Fig!CalendarDay

\* The library's sum of a function is the one the lemmas are about.
LEMMA SumFunctionIs == ASSUME NEW f PROVE Fig!SumFunction(f) = SumOver(f)
BY DEF Fig!SumFunction, Fig!SumFunctionOnSet, Fig!FoldFunctionOnSet,
       Fig!MapThenFoldSet, SumOver, SumTable

\* What SUM(amount) gives for rows.
LEMMA SumIs == ASSUME NEW rs PROVE Fig!Sum(rs) = Amount(rs, DOMAIN rs)
<1> DEFINE f == [i \in DOMAIN rs |-> rs[i].amt]
<1>1. Fig!Sum(rs) = Fig!SumFunction(f)
  BY DEF Fig!Sum
<1>2. Amount(rs, DOMAIN rs) = SumOver(f)
  BY DEF Amount
<1> HIDE DEF f
<1> QED  BY <1>1, <1>2, SumFunctionIs

\* What it gives for a selection of rows.
LEMMA KeptSum == ASSUME NEW rs, NEW D PROVE Fig!Sum(Kept(rs, D)) = Amount(rs, D)
<1>1. DOMAIN Kept(rs, D) = D /\ [i \in D |-> Kept(rs, D)[i].amt] = [i \in D |-> rs[i].amt]
  BY DEF Kept
<1> QED  BY <1>1, SumIs DEF Amount

\* A sum over rows is an amount, and no selection of them has more.
LEMMA AmountTyped ==
    ASSUME NEW rs, IsTable(rs), NEW D \in SUBSET DOMAIN rs, NEW E \in SUBSET D
    PROVE  /\ IsFiniteSet(D) /\ [i \in D |-> rs[i].amt] \in [D -> Nat]
           /\ Amount(rs, D) \in Nat /\ Amount(rs, E) \in Nat /\ Amount(rs, E) <= Amount(rs, D)
<1>1. IsFiniteSet(D)
  BY FS_Subset DEF IsTable
<1> DEFINE f == [i \in D |-> rs[i].amt]
<1>2. f \in [D -> Nat]
  BY RowIs DEF IsTable
<1>3. [i \in E |-> f[i]] = [i \in E |-> rs[i].amt]
  OBVIOUS
<1> HIDE DEF f
<1>4. SumOver(f) \in Nat /\ SumOver([i \in E |-> f[i]]) \in Nat /\ SumOver([i \in E |-> f[i]]) <= SumOver(f)
  BY <1>1, <1>2, SumOfAmounts
<1> QED  BY <1>1, <1>2, <1>3, <1>4 DEF Amount, f

\* The rows of a type among those selected.
LEMMA OfTypeIs ==
    ASSUME NEW rs, NEW D, NEW type
    PROVE  Fig!OfType(Kept(rs, D), type) = Kept(rs, {i \in D : rs[i].cat.type = type})
BY DEF Fig!OfType, Fig!Where, Kept

\* A date is in a month.
LEMMA InTheMonth ==
    ASSUME NEW r \in Fig!Row, NEW p \in Fig!Period
    PROVE  /\ Fig!At(Fig!FirstDay(p)) <= Fig!At(r.on) /\ Fig!At(r.on) < Fig!At(Fig!FirstDay(Fig!NextMonth(p)))
                <=> r.on.y = p.y /\ r.on.n = p.n
           /\ Fig!At(Fig!FirstDay(p)) <= Fig!At(r.on) /\ Fig!At(r.on) <= Fig!At(Fig!LastDay(p))
                <=> r.on.y = p.y /\ r.on.n = p.n
<1>1. /\ r.on.y \in Int /\ r.on.n \in 1..12 /\ r.on.d \in 1..31 /\ r.on.d <= Fig!DaysOf(r.on)
      /\ p.y \in Int /\ p.n \in 1..12
  BY RowIs DEF Fig!Period
<1>2. Fig!At(r.on) = 372 * r.on.y + 31 * r.on.n + r.on.d
  BY DEF Fig!At
<1>3. Fig!At(Fig!FirstDay(p)) = 372 * p.y + 31 * p.n + 1
  BY DEF Fig!At, Fig!FirstDay
<1>4. Fig!At(Fig!FirstDay(Fig!NextMonth(p))) = 372 * p.y + 31 * p.n + 32
  <2>1. CASE p.n = 12
    BY <1>1, <2>1 DEF Fig!At, Fig!FirstDay, Fig!NextMonth
  <2>2. CASE p.n # 12
    <3>1. Fig!NextMonth(p).y = p.y /\ Fig!NextMonth(p).n = p.n + 1
      BY <1>1, <2>2 DEF Fig!NextMonth, Fig!Period
    <3> QED  BY <1>1, <3>1 DEF Fig!At, Fig!FirstDay
  <2> QED  BY <2>1, <2>2
<1>5. Fig!At(Fig!LastDay(p)) = 372 * p.y + 31 * p.n + Fig!DaysOf(p)
  BY DEF Fig!At, Fig!LastDay
<1>6. /\ Fig!DaysOf(p) \in 28..31
      /\ r.on.y = p.y /\ r.on.n = p.n => Fig!DaysOf(r.on) = Fig!DaysOf(p)
  BY <1>1 DEF Fig!DaysOf
<1> DEFINE y == r.on.y  n == r.on.n  d == r.on.d  last == Fig!DaysOf(p)
<1>7. y \in Int /\ n \in 1..12 /\ d \in 1..31 /\ p.y \in Int /\ p.n \in 1..12 /\ last \in 28..31
      /\ (y = p.y /\ n = p.n => d <= last)
  BY <1>1, <1>6
<1> DEFINE py == p.y  pn == p.n
<1> HIDE DEF y, n, d, last, py, pn
<1>8. 372 * py + 31 * pn + 1 <= 372 * y + 31 * n + d /\ 372 * y + 31 * n + d < 372 * py + 31 * pn + 32
        <=> y = py /\ n = pn
  BY <1>7 DEF py, pn
<1>9. 372 * py + 31 * pn + 1 <= 372 * y + 31 * n + d /\ 372 * y + 31 * n + d <= 372 * py + 31 * pn + last
        <=> y = py /\ n = pn
  BY <1>7, <1>8 DEF py, pn
<1> QED  BY <1>2, <1>3, <1>4, <1>5, <1>8, <1>9 DEF y, n, d, last, py, pn

\* A report reads the rows whose date is in the month.
LEMMA MonthRows ==
    ASSUME NEW rs, IsTable(rs), NEW p \in Fig!Period
    PROVE  Fig!InMonth(rs, p) = Kept(rs, Of(rs, p))
<1>1. \A i \in DOMAIN rs : rs[i] \in Fig!Row
  BY DEF IsTable
<1>2. {j \in DOMAIN rs : Fig!At(Fig!FirstDay(p)) <= Fig!At(rs[j].on)
                         /\ Fig!At(rs[j].on) < Fig!At(Fig!FirstDay(Fig!NextMonth(p)))} = Of(rs, p)
  BY <1>1, InTheMonth DEF Of
<1> QED  BY <1>2 DEF Fig!InMonth, Fig!Where, Kept

\* A report adds up the rows of its month, type by type; an overall budget counts the expenses.
LEMMA ReportIs ==
    ASSUME NEW rs, IsTable(rs), NEW p \in Fig!Period
    PROVE  /\ Fig!Report(rs, p).income = Amount(rs, Kind(rs, p, "income"))
           /\ Fig!Report(rs, p).expenses = Amount(rs, Kind(rs, p, "expense"))
           /\ Fig!Report(rs, p).breakdown = Fig!Breakdown(Kept(rs, Of(rs, p)))
           /\ Fig!SpentFor(Fig!InMonth(rs, p), Nil) = Amount(rs, Kind(rs, p, "expense"))
<1>1. Fig!Report(rs, p) = Fig!ReportOf(Kept(rs, Of(rs, p)))
  BY MonthRows DEF Fig!Report
<1>2. \A type : Fig!Sum(Fig!OfType(Kept(rs, Of(rs, p)), type)) = Amount(rs, Kind(rs, p, type))
  BY OfTypeIs, KeptSum DEF Kind
<1>3. Fig!SpentFor(Fig!InMonth(rs, p), Nil) = Amount(rs, Kind(rs, p, "expense"))
  BY <1>2, MonthRows DEF Fig!SpentFor
<1> QED  BY <1>1, <1>2, <1>3 DEF Fig!ReportOf

\* The summary between the first and the last day of a month adds up the same rows.
LEMMA SummaryIsReport ==
    ASSUME NEW rs, IsTable(rs), NEW p \in Fig!Period
    PROVE  LET s == Fig!Summary(rs, Fig!FirstDay(p), Fig!LastDay(p))
           IN  /\ s.income = Amount(rs, Kind(rs, p, "income"))
               /\ s.expenses = Amount(rs, Kind(rs, p, "expense"))
<1> DEFINE within == Fig!Where(rs, LAMBDA r : Fig!At(Fig!FirstDay(p)) <= Fig!At(r.on)
                                              /\ Fig!At(r.on) <= Fig!At(Fig!LastDay(p)))
<1>1. \A i \in DOMAIN rs : rs[i] \in Fig!Row
  BY DEF IsTable
<1>2. {j \in DOMAIN rs : Fig!At(Fig!FirstDay(p)) <= Fig!At(rs[j].on)
                         /\ Fig!At(rs[j].on) <= Fig!At(Fig!LastDay(p))} = Of(rs, p)
  BY <1>1, InTheMonth DEF Of
<1>3. within = Kept(rs, Of(rs, p))
  BY <1>2 DEF Fig!Where, Kept
<1>4. \A type : Fig!Sum(Fig!OfType(Kept(rs, Of(rs, p)), type)) = Amount(rs, Kind(rs, p, type))
  BY OfTypeIs, KeptSum DEF Kind
<1> QED  BY <1>3, <1>4 DEF Fig!Summary

-----------------------------------------------------------------------------
(* Months in a row *)

\* Months are counted back over the turn of a year.
LEMMA Previous ==
    ASSUME NEW p \in Fig!Period
    PROVE  /\ Fig!PreviousMonth(p) \in Fig!Period
           /\ Fig!NextMonth(Fig!PreviousMonth(p)) = p
           /\ Fig!StartMonth([y |-> p.y, n |-> p.n], 3) = Fig!PreviousMonth(Fig!PreviousMonth(p))
<1>1. p = [y |-> p.y, n |-> p.n] /\ p.y \in Int /\ p.n \in 1..12
  BY DEF Fig!Period
<1>2. Fig!PreviousMonth(p) = IF p.n = 1 THEN [y |-> p.y - 1, n |-> 12] ELSE [y |-> p.y, n |-> p.n - 1]
  BY <1>1 DEF Fig!PreviousMonth
<1>3. Fig!PreviousMonth(p) \in Fig!Period
  BY <1>1, <1>2 DEF Fig!Period
<1>4. \A q \in Fig!Period :
        Fig!NextMonth(q) = IF q.n = 12 THEN [y |-> q.y + 1, n |-> 1] ELSE [y |-> q.y, n |-> q.n + 1]
  BY DEF Fig!NextMonth, Fig!Period
<1>5. Fig!NextMonth(Fig!PreviousMonth(p)) = p
  BY <1>1, <1>2, <1>3, <1>4
<1>6. Fig!PreviousMonth(Fig!PreviousMonth(p)) =
        IF p.n = 1 THEN [y |-> p.y - 1, n |-> 11]
        ELSE IF p.n = 2 THEN [y |-> p.y - 1, n |-> 12] ELSE [y |-> p.y, n |-> p.n - 2]
  BY <1>1, <1>2 DEF Fig!PreviousMonth
<1>7. Fig!StartMonth([y |-> p.y, n |-> p.n], 3) =
        [y |-> p.y + (p.n - 3) \div 12, n |-> ((p.n - 3) % 12) + 1]
  BY DEF Fig!StartMonth
<1>8. /\ p.n = 1 => (p.n - 3) \div 12 = -1 /\ (p.n - 3) % 12 = 10
      /\ p.n = 2 => (p.n - 3) \div 12 = -1 /\ (p.n - 3) % 12 = 11
      /\ p.n \in 3..12 => (p.n - 3) \div 12 = 0 /\ (p.n - 3) % 12 = p.n - 3
  BY <1>1
<1>9. Fig!StartMonth([y |-> p.y, n |-> p.n], 3) = Fig!PreviousMonth(Fig!PreviousMonth(p))
  BY <1>1, <1>6, <1>7, <1>8
<1> QED  BY <1>3, <1>5, <1>9

\* The last two of a series of three months are the month and the one before.
LEMMA SeriesIs ==
    ASSUME NEW rs, IsTable(rs), NEW p \in Fig!Period
    PROVE  LET series == Fig!MonthlyExpenses(rs, 3, Fig!LastDay(p))
               q == Fig!PreviousMonth(p)
           IN  /\ series[3] = [month |-> p, amount |-> Amount(rs, Kind(rs, p, "expense"))]
               /\ series[2] = [month |-> q, amount |-> Amount(rs, Kind(rs, q, "expense"))]
<1> DEFINE q == Fig!PreviousMonth(p)
           through == Fig!LastDay(p)
           from == Fig!StartMonth([y |-> through.y, n |-> through.n], 3)
           spent == Fig!OfType(Fig!Where(rs, LAMBDA r : Fig!At(Fig!FirstDay(from)) <= Fig!At(r.on)
                                                 /\ Fig!At(r.on) <= Fig!At(Fig!LastDay(p))), "expense")
           SeriesStep(g) == [i \in 1..3 |-> IF i = 1 THEN from ELSE Fig!NextMonth(g[i - 1])]
           month == CHOOSE g : g = SeriesStep(g)
           line(m) == [month |-> m, amount |-> Fig!Sum(Fig!Where(spent, LAMBDA r : r.on.y = m.y /\ r.on.n = m.n))]
<1>2. /\ Fig!LastDay(p).y = p.y /\ Fig!LastDay(p).n = p.n
      /\ from = Fig!PreviousMonth(q)
  <2>1. Fig!LastDay(p).y = p.y /\ Fig!LastDay(p).n = p.n
    BY DEF Fig!LastDay
  <2> QED  BY <2>1, Previous
<1>4. /\ Fig!MonthlyExpenses(rs, 3, Fig!LastDay(p))[3] = line(month[3])
      /\ Fig!MonthlyExpenses(rs, 3, Fig!LastDay(p))[2] = line(month[2])
  BY DEF Fig!MonthlyExpenses
<1>1. p \in Fig!Period /\ q \in Fig!Period /\ from \in Fig!Period
      /\ Fig!NextMonth(from) = q /\ Fig!NextMonth(q) = p
  <2> HIDE DEF from
  <2> QED  BY <1>2, Previous
<1> HIDE DEF q, from
<1>3. month[3] = p /\ month[2] = q
  <2> DEFINE g == [i \in 1..3 |-> IF i = 1 THEN from ELSE IF i = 2 THEN q ELSE p]
  <2>1. g = SeriesStep(g)
    BY <1>1
  <2>2. month = SeriesStep(month)
    <3> HIDE DEF SeriesStep, g
    <3> QED  BY <2>1
  <2> HIDE DEF month
  <2>3. month[1] = from /\ month[2] = Fig!NextMonth(month[1]) /\ month[3] = Fig!NextMonth(month[2])
    BY <2>2
  <2> QED  BY <1>1, <2>3
<1> DEFINE Rows == {i \in DOMAIN rs : Fig!At(Fig!FirstDay(from)) <= Fig!At(rs[i].on)
                                 /\ Fig!At(rs[i].on) <= Fig!At(Fig!LastDay(p))}
<1>5. spent = Kept(rs, {i \in Rows : rs[i].cat.type = "expense"})
  <2>1. spent = Fig!OfType(Kept(rs, Rows), "expense")
    BY DEF Fig!Where, Kept
  <2> QED  BY <2>1, OfTypeIs
<1>6. \A i \in DOMAIN rs : rs[i] \in Fig!Row
  BY DEF IsTable
<1>7. \A m \in {p, q} : \A i \in Of(rs, m) : i \in Rows
  <2> SUFFICES ASSUME NEW m \in {p, q}, NEW i \in Of(rs, m) PROVE i \in Rows
    OBVIOUS
  <2>1. rs[i] \in Fig!Row /\ i \in DOMAIN rs /\ rs[i].on.y = m.y /\ rs[i].on.n = m.n
    BY <1>6 DEF Of
  <2>2. /\ Fig!At(Fig!FirstDay(m)) <= Fig!At(rs[i].on) /\ Fig!At(rs[i].on) <= Fig!At(Fig!LastDay(m))
        /\ Fig!At(rs[i].on) \in Int
    <3>1. m \in Fig!Period
      BY <1>1
    <3> QED  BY <2>1, <3>1, InTheMonth, RowIs DEF Fig!At
  <2>3. \A a \in {p, q, from} : /\ Fig!At(Fig!FirstDay(a)) = 372 * a.y + 31 * a.n + 1
                                /\ Fig!At(Fig!LastDay(a)) = 372 * a.y + 31 * a.n + Fig!DaysOf(a)
                                /\ Fig!DaysOf(a) \in 28..31 /\ a.y \in Int /\ a.n \in 1..12
    BY <1>1 DEF Fig!At, Fig!FirstDay, Fig!LastDay, Fig!DaysOf, Fig!Period
  <2>4. 372 * q.y + 31 * q.n + 31 = 372 * p.y + 31 * p.n
        /\ 372 * from.y + 31 * from.n + 31 = 372 * q.y + 31 * q.n
    BY <1>1, <2>3 DEF Fig!NextMonth, Fig!Period
  <2>5. Fig!At(Fig!FirstDay(from)) <= Fig!At(Fig!FirstDay(m)) /\ Fig!At(Fig!LastDay(m)) <= Fig!At(Fig!LastDay(p))
    BY <2>3, <2>4
  <2>6. /\ Fig!At(Fig!FirstDay(from)) \in Int /\ Fig!At(Fig!FirstDay(m)) \in Int
        /\ Fig!At(Fig!LastDay(m)) \in Int /\ Fig!At(Fig!LastDay(p)) \in Int
    BY <2>3
  <2> QED  BY <2>1, <2>2, <2>5, <2>6
<1>8. \A m \in {p, q} : line(m) = [month |-> m, amount |-> Amount(rs, Kind(rs, m, "expense"))]
  <2> SUFFICES ASSUME NEW m \in {p, q}
               PROVE  line(m) = [month |-> m, amount |-> Amount(rs, Kind(rs, m, "expense"))]
    OBVIOUS
  <2>1. Fig!Where(spent, LAMBDA r : r.on.y = m.y /\ r.on.n = m.n) = Kept(rs, Kind(rs, m, "expense"))
    <3>1. {i \in {i \in Rows : rs[i].cat.type = "expense"} : rs[i].on.y = m.y /\ rs[i].on.n = m.n}
            = Kind(rs, m, "expense")
      BY <1>7 DEF Kind, Of
    <3> HIDE DEF Rows, spent
    <3> QED  BY <1>5, <3>1 DEF Fig!Where, Kept
  <2> HIDE DEF spent
  <2> QED  BY <2>1, KeptSum
<1> HIDE DEF line, month
<1> QED  BY <1>1, <1>3, <1>4, <1>8 DEF q

-----------------------------------------------------------------------------
(* The entries of a report *)

\* The model counts as the lemmas do.
LEMMA FigCounts == \A S : Fig!Cardinality(S) = Cardinality(S)
BY DEF Fig!Cardinality, Cardinality

\* The model calls finite what the lemmas do.
LEMMA FigFinite == \A S : Fig!IsFiniteSet(S) <=> IsFiniteSet(S)
BY DEF Fig!IsFiniteSet, IsFiniteSet

\* Names have places of their own.
LEMMA NamesPlaced ==
    /\ \A a \in Fig!Name : Fig!Place(NameOrder, a) \in Nat
    /\ \A a, b \in Fig!Name : Fig!Place(NameOrder, a) = Fig!Place(NameOrder, b) => a = b
<1>1. /\ NameOrder \in Seq(Fig!Name) /\ Fig!Name = {NameOrder[k] : k \in DOMAIN NameOrder}
      /\ DOMAIN NameOrder \subseteq Nat
  BY ServicesAssumption DEF Fig!Name, Fig!Range
<1>2. \A a \in Fig!Name : Fig!Place(NameOrder, a) \in DOMAIN NameOrder
                          /\ NameOrder[Fig!Place(NameOrder, a)] = a
  BY <1>1 DEF Fig!Place
<1> QED  BY <1>1, <1>2

\* The rows of a type and name.
Named(rs, heading) == {i \in DOMAIN rs : rs[i].cat.type = heading.type /\ rs[i].cat.name = heading.name}

KeyOf(r) == [type |-> r.cat.type, name |-> r.cat.name]

Entry(rs, heading) ==
    [type |-> heading.type, name |-> heading.name, total |-> Amount(rs, Named(rs, heading)),
     count |-> Cardinality(Named(rs, heading))]

Entries(rs) == {Entry(rs, KeyOf(rs[i])) : i \in DOMAIN rs}

EntryAbove(a, b) ==
    \/ a.type = "expense" /\ b.type = "income"
    \/ a.type = b.type /\ a.total > b.total
    \/ a.type = b.type /\ a.total = b.total /\ Fig!Below(a.name, b.name)

EntryOrder(rs) == {pair \in Entries(rs) \X Entries(rs) : EntryAbove(pair[1], pair[2])}

\* There are finitely many entries; type and name determine one.
LEMMA EntriesTyped ==
    ASSUME NEW rs, IsTable(rs)
    PROVE  /\ IsFiniteSet(Entries(rs))
           /\ \A e \in Entries(rs) :
                /\ e.type \in {"income", "expense"} /\ e.name \in Fig!Name /\ e.total \in Nat
                /\ e = Entry(rs, [type |-> e.type, name |-> e.name])
<1>1. \A i \in DOMAIN rs : rs[i] \in Fig!Row
  BY DEF IsTable
<1>2. IsFiniteSet(Entries(rs))
  <2> DEFINE f == [i \in DOMAIN rs |-> Entry(rs, KeyOf(rs[i]))]
  <2>1. f \in Surjection(DOMAIN rs, Entries(rs))
    <3> HIDE DEF Entry, KeyOf
    <3> QED  BY DEF Surjection, Entries
  <2> QED  BY <2>1, FS_Surjection DEF IsTable
<1>3. ASSUME NEW i \in DOMAIN rs
      PROVE  LET e == Entry(rs, KeyOf(rs[i]))
             IN  /\ e.type \in {"income", "expense"} /\ e.name \in Fig!Name /\ e.total \in Nat
                 /\ e = Entry(rs, [type |-> e.type, name |-> e.name])
  <2> DEFINE heading == KeyOf(rs[i])
  <2>1. heading.type \in {"income", "expense"} /\ heading.name \in Fig!Name
        /\ [type |-> heading.type, name |-> heading.name] = heading
    BY <1>1, RowIs DEF KeyOf
  <2>2. Named(rs, heading) \in SUBSET DOMAIN rs
    BY DEF Named
  <2>3. Amount(rs, Named(rs, heading)) \in Nat
    BY <2>2, AmountTyped
  <2> HIDE DEF heading
  <2>4. Entry(rs, heading).type = heading.type /\ Entry(rs, heading).name = heading.name
        /\ Entry(rs, heading).total = Amount(rs, Named(rs, heading))
    BY DEF Entry
  <2> QED  BY <2>1, <2>3, <2>4 DEF heading
<1> QED  BY <1>2, <1>3 DEF Entries

\* The alphabetical order of names is strict and total.
LEMMA NamesOrdered ==
    /\ \A a \in Fig!Name : ~ Fig!Below(a, a)
    /\ \A a, b \in Fig!Name : a = b \/ Fig!Below(a, b) \/ Fig!Below(b, a)
    /\ \A a, b, c \in Fig!Name : Fig!Below(a, b) /\ Fig!Below(b, c) => Fig!Below(a, c)
<1> DEFINE N == Fig!Name
           place == [a \in N |-> Fig!Place(NameOrder, a)]
<1>1. place \in [N -> Int] /\ \A a, b \in N : place[a] = place[b] => a = b
  BY NamesPlaced
<1>2. \A a, b \in N : Fig!Below(a, b) <=> place[a] < place[b]
  BY DEF Fig!Below
<1> HIDE DEF place, N
<1>3. \A a \in N : place[a] \in Int
  BY <1>1
<1>4. \A a, b, c \in N : place[a] < place[b] /\ place[b] < place[c] => place[a] < place[c]
  BY <1>3
<1>5. \A a, b \in N : a = b \/ place[a] < place[b] \/ place[b] < place[a]
  BY <1>1, <1>3
<1>6. \A a \in N : ~ (place[a] < place[a])
  BY <1>3
<1> QED  BY <1>2, <1>4, <1>5, <1>6 DEF N

\* The order of the breakdown is strict and total.
LEMMA EntriesOrdered ==
    ASSUME NEW rs, IsTable(rs)
    PROVE  StrictOrder(EntryOrder(rs), Entries(rs))
<1> DEFINE E == Entries(rs)
<1>1. ASSUME NEW e \in E
      PROVE  e.type \in {"income", "expense"} /\ e.name \in Fig!Name /\ e.total \in Int
  <2>1. e.type \in {"income", "expense"} /\ e.name \in Fig!Name /\ e.total \in Nat
    BY EntriesTyped, Zenon
  <2> QED  BY <2>1
<1>2. \A a, b \in E : a.type = b.type /\ a.name = b.name => a = b
  <2>1. \A e \in E : e = Entry(rs, [type |-> e.type, name |-> e.name])
    BY EntriesTyped
  <2> QED  BY <2>1
<1>3. \A a, b \in E : <<a, b>> \in EntryOrder(rs) <=> EntryAbove(a, b)
  BY DEF EntryOrder
<1> HIDE DEF E
<1>6. \A a \in E : ~ EntryAbove(a, a)
  BY <1>1, NamesOrdered DEF EntryAbove
<1>7. \A a, b \in E : a = b \/ EntryAbove(a, b) \/ EntryAbove(b, a)
  BY <1>1, <1>2, NamesOrdered DEF EntryAbove
<1>8. ASSUME NEW a \in E, NEW b \in E, NEW c \in E, EntryAbove(a, b), EntryAbove(b, c)
      PROVE  EntryAbove(a, c)
  <2>1. /\ a.type \in {"income", "expense"} /\ b.type \in {"income", "expense"}
        /\ a.name \in Fig!Name /\ b.name \in Fig!Name /\ c.name \in Fig!Name
        /\ a.total \in Int /\ b.total \in Int /\ c.total \in Int
    BY <1>1
  <2>2. Fig!Below(a.name, b.name) /\ Fig!Below(b.name, c.name) => Fig!Below(a.name, c.name)
    BY <2>1, NamesOrdered
  <2> QED  BY <1>8, <2>1, <2>2 DEF EntryAbove
<1> QED  BY <1>3, <1>6, <1>7, <1>8 DEF StrictOrder, E

\* The breakdown lists the entries in that order.
LEMMA BreakdownIs ==
    ASSUME NEW rs, IsTable(rs)
    PROVE  Lists(Fig!Breakdown(rs), EntryOrder(rs), Entries(rs))
<1> DEFINE entry(heading) == [type |-> heading.type, name |-> heading.name, total |-> Fig!Sum(Fig!EntriesOf(rs, heading)),
                          count |-> Fig!Cardinality(DOMAIN Fig!EntriesOf(rs, heading))]
           E == Entries(rs)
           R == EntryOrder(rs)
           X == {entry(heading) : heading \in Fig!Keys(rs)}
           q(S) == [k \in 1..Fig!Cardinality(S) |->
                      CHOOSE x \in S : Fig!Cardinality({y \in S : EntryAbove(y, x)}) = k - 1]
           pick(k) == CHOOSE x \in E : Fig!Cardinality({y \in E : EntryAbove(y, x)}) = k - 1
<1>1. \A heading : entry(heading) = Entry(rs, heading)
  <2> SUFFICES ASSUME NEW heading PROVE entry(heading) = Entry(rs, heading)
    OBVIOUS
  <2>1. Fig!EntriesOf(rs, heading) = Kept(rs, Named(rs, heading))
    BY DEF Fig!EntriesOf, Fig!Where, Kept, Named
  <2>2. DOMAIN Fig!EntriesOf(rs, heading) = Named(rs, heading)
    BY <2>1 DEF Kept
  <2> QED  BY <2>1, <2>2, KeptSum, FigCounts DEF Entry
<1>2. X = E
  <2> HIDE DEF entry
  <2> QED  BY <1>1 DEF Fig!Keys, Entries, KeyOf
<1>3. Fig!Breakdown(rs) = q(X)
  BY DEF Fig!Breakdown, Fig!Ranked, EntryAbove
<1>4. IsFiniteSet(E) /\ StrictOrder(R, E)
  BY EntriesTyped, EntriesOrdered
<1>5. \A x \in E : {y \in E : EntryAbove(y, x)} = Before(R, E, x)
  BY DEF EntryOrder, Before
<1> HIDE DEF E, R, X
<1>6. ASSUME NEW k \in 1..Cardinality(E)
      PROVE  pick(k) \in E /\ RankOf(R, E, pick(k)) = k - 1
  <2>1. PICK x \in E : RankOf(R, E, x) = k - 1
    BY <1>4, RanksTaken
  <2>2. Fig!Cardinality({y \in E : EntryAbove(y, x)}) = k - 1
    BY <1>5, <2>1, FigCounts DEF RankOf
  <2>3. pick(k) \in E /\ Fig!Cardinality({y \in E : EntryAbove(y, pick(k))}) = k - 1
    BY <2>2
  <2> HIDE DEF pick
  <2> QED  BY <1>5, <2>3, FigCounts DEF RankOf
<1>7. q(E) = [k \in 1..Cardinality(E) |-> pick(k)]
  BY FigCounts
<1> HIDE DEF q, pick
<1>8. Fig!Breakdown(rs) = [k \in 1..Cardinality(E) |-> pick(k)]
  BY <1>2, <1>3, <1>7
<1> QED  BY <1>6, <1>8 DEF Lists, E, R

\* The entries of a type add up to its rows.
LEMMA TotalsAre ==
    ASSUME NEW rs, IsTable(rs), NEW type \in {"income", "expense"}
    PROVE  Fig!Totals(Fig!Breakdown(rs), type) = Amount(rs, {i \in DOMAIN rs : rs[i].cat.type = type})
<1> DEFINE E == Entries(rs)
           R == EntryOrder(rs)
           q == Fig!Breakdown(rs)
           of == {k \in DOMAIN q : q[k].type = type}
           S == {i \in DOMAIN rs : rs[i].cat.type = type}
           f == [i \in S |-> rs[i].amt]
           own(i) == Entry(rs, KeyOf(rs[i]))
           g == [i \in S |-> RankOf(R, E, own(i)) + 1]
           h == [t \in of |-> SumOver([x \in {x \in S : g[x] = t} |-> f[x]])]
<1>1. /\ IsFiniteSet(E) /\ StrictOrder(R, E) /\ Lists(q, R, E) /\ IsFiniteSet(S)
      /\ f \in [S -> Int]
  <2>1. f \in [S -> Nat] /\ IsFiniteSet(S)
    BY AmountTyped
  <2> QED  BY <2>1, EntriesTyped, EntriesOrdered, BreakdownIs
<1>2. \A i \in DOMAIN rs : own(i) \in E /\ own(i).type = rs[i].cat.type /\ own(i).name = rs[i].cat.name
  BY DEF Entries, Entry, KeyOf
<1>3. \A k \in DOMAIN q : /\ q[k] \in E /\ q[k].total = Amount(rs, Named(rs, q[k]))
                          /\ q[k] = Entry(rs, [type |-> q[k].type, name |-> q[k].name])
  <2> SUFFICES ASSUME NEW k \in DOMAIN q
               PROVE  /\ q[k] \in E /\ q[k].total = Amount(rs, Named(rs, q[k]))
                      /\ q[k] = Entry(rs, [type |-> q[k].type, name |-> q[k].name])
    OBVIOUS
  <2> DEFINE e == q[k]
             heading == [type |-> e.type, name |-> e.name]
  <2>1. e \in E
    BY <1>1 DEF Lists
  <2> HIDE DEF e
  <2>2. e = Entry(rs, heading)
    BY <2>1, EntriesTyped, Zenon
  <2>3. Named(rs, heading) = Named(rs, e)
    BY DEF Named
  <2>4. Entry(rs, heading).total = Amount(rs, Named(rs, heading))
    BY DEF Entry
  <2> QED  BY <2>1, <2>2, <2>3, <2>4 DEF e
<1>4. IsFiniteSet(of)
  <2>1. of \subseteq 1..Cardinality(E) /\ Cardinality(E) \in Int
    BY <1>1, FS_CardinalityType DEF Lists
  <2> QED  BY <2>1, FS_Interval, FS_Subset
<1> HIDE DEF q, E, R, own
<1>5. /\ \A x \in E : RankOf(R, E, x) + 1 \in DOMAIN q /\ q[RankOf(R, E, x) + 1] = x
      /\ \A i, j \in DOMAIN q : q[i] = q[j] => i = j
  BY <1>1, ListIs
<1>6. \A i \in S : g[i] \in of /\ q[g[i]] = own(i)
  BY <1>2, <1>5
<1>7. g \in [S -> of]
  BY <1>6
<1>8. \A k \in of : {x \in S : g[x] = k} = Named(rs, q[k])
  <2> SUFFICES ASSUME NEW k \in of PROVE {x \in S : g[x] = k} = Named(rs, q[k])
    OBVIOUS
  <2>1. k \in DOMAIN q /\ q[k].type = type
    OBVIOUS
  <2>2. Named(rs, q[k]) \subseteq S
    BY DEF Named
  <2>3. ASSUME NEW i \in S PROVE g[i] = k <=> i \in Named(rs, q[k])
    <3>1. q[g[i]] = own(i) /\ own(i).type = rs[i].cat.type /\ own(i).name = rs[i].cat.name
          /\ g[i] \in DOMAIN q /\ i \in DOMAIN rs /\ rs[i].cat.type = type
      BY <1>2, <1>6
    <3>2. g[i] = k => i \in Named(rs, q[k])
      <4> HIDE DEF g
      <4> QED  BY <2>1, <3>1 DEF Named
    <3>3. i \in Named(rs, q[k]) => own(i) = q[k]
      <4>1. ASSUME i \in Named(rs, q[k])
            PROVE  KeyOf(rs[i]) = [type |-> q[k].type, name |-> q[k].name]
        BY <2>1, <4>1 DEF Named, KeyOf
      <4> QED  BY <1>3, <2>1, <4>1 DEF own
    <3> HIDE DEF g
    <3> QED  BY <1>5, <2>1, <3>1, <3>2, <3>3
  <2> HIDE DEF g, S
  <2> QED  BY <2>2, <2>3
<1>9. SumOver(f) = SumOver(h)
  <2> HIDE DEF f, S, g, of
  <2> QED  BY <1>1, <1>4, <1>7, SumByGroups
<1>10. h = [k \in of |-> q[k].total]
  <2> SUFFICES ASSUME NEW k \in of
               PROVE  SumOver([x \in {x \in S : g[x] = k} |-> f[x]]) = q[k].total
    OBVIOUS
  <2>1. {x \in S : g[x] = k} = Named(rs, q[k]) /\ Named(rs, q[k]) \subseteq S
    <3> HIDE DEF g
    <3> QED  BY <1>8
  <2> HIDE DEF g, S
  <2>2. [x \in Named(rs, q[k]) |-> f[x]] = [i \in Named(rs, q[k]) |-> rs[i].amt]
    BY <2>1
  <2>3. q[k].total = Amount(rs, Named(rs, q[k]))
    BY <1>3
  <2> QED  BY <2>1, <2>2, <2>3 DEF Amount
<1>11. Fig!Totals(q, type) = SumOver([k \in of |-> q[k].total])
  BY SumFunctionIs DEF Fig!Totals
<1> QED  BY <1>9, <1>10, <1>11 DEF Amount, q

\* A selection of rows is a table.
LEMMA KeptTable ==
    ASSUME NEW rs, IsTable(rs), NEW D \in SUBSET DOMAIN rs
    PROVE  /\ IsTable(Kept(rs, D)) /\ DOMAIN Kept(rs, D) = D
           /\ \A C \in SUBSET D : Amount(Kept(rs, D), C) = Amount(rs, C)
<1>1. IsTable(Kept(rs, D)) /\ DOMAIN Kept(rs, D) = D
  BY FS_Subset DEF Kept, IsTable
<1>2. ASSUME NEW C \in SUBSET D PROVE Amount(Kept(rs, D), C) = Amount(rs, C)
  <2>1. [i \in C |-> Kept(rs, D)[i].amt] = [i \in C |-> rs[i].amt]
    BY DEF Kept
  <2> QED  BY <2>1 DEF Amount
<1> QED  BY <1>1, <1>2

\* What is spent on a name.
OnName(rs, p, name) == {i \in Kind(rs, p, "expense") : rs[i].cat.name = name}

LEMMA SpentOnIs ==
    ASSUME NEW rs, IsTable(rs), NEW p \in Fig!Period
    PROVE  /\ \A name : Fig!SpentOn(rs, p, name) = Amount(rs, OnName(rs, p, name))
           /\ Fig!SpentNames(rs, p) = {rs[i].cat.name : i \in Kind(rs, p, "expense")}
<1>1. Fig!OfType(Fig!InMonth(rs, p), "expense") = Kept(rs, Kind(rs, p, "expense"))
  BY MonthRows, OfTypeIs DEF Kind
<1>2. ASSUME NEW name PROVE Fig!SpentOn(rs, p, name) = Amount(rs, OnName(rs, p, name))
  <2>1. Fig!Where(Kept(rs, Kind(rs, p, "expense")), LAMBDA r : r.cat.name = name)
          = Kept(rs, OnName(rs, p, name))
    BY DEF Fig!Where, Kept, OnName
  <2> QED  BY <1>1, <2>1, KeptSum DEF Fig!SpentOn
<1>3. Fig!SpentNames(rs, p) = {rs[i].cat.name : i \in Kind(rs, p, "expense")}
  <2>1. Fig!SpentNames(rs, p) = {kn.name : kn \in Fig!Keys(Kept(rs, Kind(rs, p, "expense")))}
    BY <1>1 DEF Fig!SpentNames
  <2>2. Fig!Keys(Kept(rs, Kind(rs, p, "expense"))) = {KeyOf(rs[i]) : i \in Kind(rs, p, "expense")}
    BY DEF Fig!Keys, Kept, KeyOf
  <2>3. \A r : KeyOf(r).name = r.cat.name
    BY DEF KeyOf
  <2> QED  BY <2>1, <2>2, <2>3
<1> QED  BY <1>2, <1>3

\* What is spent by categories.
LEMMA CategoriesAddUp ==
    ASSUME NEW rs, IsTable(rs), \A i \in DOMAIN rs : rs[i] \in Transaction, NEW p \in Fig!Period
    PROVE  Fig!SumFunction([c \in {c \in Fig!Category : c.type = "expense"} |-> Fig!SpentFor(Fig!InMonth(rs, p), c)])
             = Amount(rs, Kind(rs, p, "expense"))
<1> DEFINE T == {c \in Fig!Category : c.type = "expense"}
           S == Kind(rs, p, "expense")
           f == [i \in S |-> rs[i].amt]
           g == [i \in S |-> rs[i].cat]
           h == [c \in T |-> SumOver([x \in {x \in S : g[x] = c} |-> f[x]])]
           spent == [c \in T |-> Fig!SpentFor(Fig!InMonth(rs, p), c)]
<1>1. S \in SUBSET DOMAIN rs
  BY DEF Kind, Of
<1>2. f \in [S -> Int] /\ IsFiniteSet(S)
  <2>1. f \in [S -> Nat] /\ IsFiniteSet(S)
    BY <1>1, AmountTyped
  <2> QED  BY <2>1
<1>3. g \in [S -> T]
  <2>1. \A i \in S : rs[i].cat \in T
    BY <1>1 DEF Kind, Fig!Category
  <2> QED  BY <2>1
<1>4. IsFiniteSet(T) /\ Nil \notin T
  <2>1. T \subseteq Fig!Category /\ IsFiniteSet(Fig!Category) /\ Nil \notin Fig!Category
    BY ServicesAssumption
  <2> QED  BY <2>1, FS_Subset
<1>5. SumOver(f) = SumOver(h)
  <2> HIDE DEF f, S, g, T
  <2> QED  BY <1>2, <1>3, <1>4, SumByGroups
<1>6. ASSUME NEW c \in T
      PROVE  Fig!SpentFor(Fig!InMonth(rs, p), c) = SumOver([x \in {x \in S : g[x] = c} |-> f[x]])
  <2> DEFINE C == {i \in S : rs[i].cat = c}
  <2>1. Fig!Where(Kept(rs, Of(rs, p)), LAMBDA r : r.cat = c) = Kept(rs, C)
    <3>1. {i \in Of(rs, p) : rs[i].cat = c} = C
      BY DEF Kind
    <3> HIDE DEF C
    <3> QED  BY <3>1 DEF Fig!Where, Kept
  <2>2. Fig!SpentFor(Fig!InMonth(rs, p), c) = Amount(rs, C)
    <3>1. c # Nil
      BY <1>4
    <3> HIDE DEF C
    <3> QED  BY <2>1, <3>1, MonthRows, KeptSum DEF Fig!SpentFor
  <2>3. {x \in S : g[x] = c} = C
    OBVIOUS
  <2>4. [x \in C |-> f[x]] = [i \in C |-> rs[i].amt]
    OBVIOUS
  <2> HIDE DEF C, f, g
  <2> QED  BY <2>2, <2>3, <2>4 DEF Amount
<1>7. spent = h
  <2> HIDE DEF f, S, g, T
  <2> QED  BY <1>6
<1>8. Fig!SumFunction(spent) = SumOver(spent)
  <2> HIDE DEF spent
  <2> QED  BY SumFunctionIs
<1> QED  BY <1>5, <1>7, <1>8 DEF Amount

AllRows(rs) == IsTable(rs) /\ \A i \in DOMAIN rs : rs[i] \in Transaction

\* Six computations of the spending of a month agree.
LEMMA MonthlyFigures ==
    ASSUME AllRows(figRows)
    PROVE  Fig!MonthlyFiguresAgree
<1>1. IsTable(figRows) /\ \A i \in DOMAIN figRows : figRows[i] \in Transaction
  BY DEF AllRows
<1>2. \A p \in Month \cup {Fig!PreviousMonth(m) : m \in Month} : p \in Fig!Period
  <2>1. \A m \in Month : m \in Fig!Period /\ Fig!PreviousMonth(m) \in Fig!Period
    BY Previous, ServicesAssumption
  <2> QED  BY <2>1
<1>3. ASSUME NEW p \in Fig!Period
      PROVE  LET report == Fig!Report(figRows, p)
                 summary == Fig!Summary(figRows, Fig!FirstDay(p), Fig!LastDay(p))
                 series == Fig!MonthlyExpenses(figRows, 3, Fig!LastDay(p))
                 within == Fig!InMonth(figRows, p)
             IN /\ report.expenses = summary.expenses /\ report.income = summary.income
                /\ \A type \in {"income", "expense"} :
                     Fig!Totals(report.breakdown, type) = IF type = "income" THEN report.income ELSE report.expenses
                /\ series[3] = [month |-> p, amount |-> report.expenses]
                /\ series[2] = [month |-> Fig!PreviousMonth(p),
                                amount |-> Fig!Report(figRows, Fig!PreviousMonth(p)).expenses]
                /\ report.expenses = Fig!SpentFor(within, Nil)
                /\ report.expenses =
                     Fig!SumFunction([c \in {c \in Fig!Category : c.type = "expense"} |-> Fig!SpentFor(within, c)])
  <2> DEFINE report == Fig!Report(figRows, p)
             own == Kept(figRows, Of(figRows, p))
  <2>1. Of(figRows, p) \in SUBSET DOMAIN figRows
    BY DEF Of
  <2>2. ASSUME NEW type \in {"income", "expense"}
        PROVE  Fig!Totals(report.breakdown, type) = Amount(figRows, Kind(figRows, p, type))
    <3>1. IsTable(own) /\ DOMAIN own = Of(figRows, p)
          /\ \A C \in SUBSET Of(figRows, p) : Amount(own, C) = Amount(figRows, C)
      BY <1>1, <2>1, KeptTable
    <3>2. {i \in DOMAIN own : own[i].cat.type = type} = Kind(figRows, p, type)
      BY <3>1 DEF Kept, Kind
    <3>3. Kind(figRows, p, type) \in SUBSET Of(figRows, p)
      BY DEF Kind
    <3>4. report.breakdown = Fig!Breakdown(own)
      BY <1>1, ReportIs
    <3> HIDE DEF own, report
    <3>5. Fig!Totals(Fig!Breakdown(own), type) = Amount(own, {i \in DOMAIN own : own[i].cat.type = type})
      BY <3>1, TotalsAre
    <3>6. Amount(own, Kind(figRows, p, type)) = Amount(figRows, Kind(figRows, p, type))
      BY <3>1, <3>3
    <3> QED  BY <3>2, <3>4, <3>5, <3>6
  <2>3. Fig!PreviousMonth(p) \in Fig!Period
    BY Previous
  <2> DEFINE q == Fig!PreviousMonth(p)
             summary == Fig!Summary(figRows, Fig!FirstDay(p), Fig!LastDay(p))
             series == Fig!MonthlyExpenses(figRows, 3, Fig!LastDay(p))
  <2>4. /\ report.income = Amount(figRows, Kind(figRows, p, "income"))
        /\ report.expenses = Amount(figRows, Kind(figRows, p, "expense"))
        /\ Fig!SpentFor(Fig!InMonth(figRows, p), Nil) = Amount(figRows, Kind(figRows, p, "expense"))
        /\ Fig!Report(figRows, q).expenses = Amount(figRows, Kind(figRows, q, "expense"))
    BY <1>1, <2>3, ReportIs
  <2>5. /\ summary.income = Amount(figRows, Kind(figRows, p, "income"))
        /\ summary.expenses = Amount(figRows, Kind(figRows, p, "expense"))
    BY <1>1, SummaryIsReport
  <2>6. /\ series[3] = [month |-> p, amount |-> Amount(figRows, Kind(figRows, p, "expense"))]
        /\ series[2] = [month |-> q, amount |-> Amount(figRows, Kind(figRows, q, "expense"))]
    BY <1>1, SeriesIs
  <2>7. Fig!SumFunction([c \in {c \in Fig!Category : c.type = "expense"} |->
                           Fig!SpentFor(Fig!InMonth(figRows, p), c)])
          = Amount(figRows, Kind(figRows, p, "expense"))
    BY <1>1, CategoriesAddUp
  <2>8. \A type \in {"income", "expense"} :
          Fig!Totals(report.breakdown, type) = IF type = "income" THEN report.income ELSE report.expenses
    BY <2>2, <2>4
  <2> HIDE DEF report, summary, series, q
  <2>9. /\ report.expenses = summary.expenses /\ report.income = summary.income
        /\ series[3] = [month |-> p, amount |-> report.expenses]
        /\ series[2] = [month |-> q, amount |-> Fig!Report(figRows, q).expenses]
        /\ report.expenses = Fig!SpentFor(Fig!InMonth(figRows, p), Nil)
    BY <2>4, <2>5, <2>6
  <2> QED  BY <2>4, <2>7, <2>8, <2>9 DEF report, summary, series, q
<1> QED  BY <1>2, <1>3 DEF Fig!MonthlyFiguresAgree

-----------------------------------------------------------------------------
(* The comparison of two months *)

CategoryName == {c.name : c \in Fig!Category}

\* Categories have finitely many names.
LEMMA NamesFinite ==
    /\ IsFiniteSet(CategoryName) /\ CategoryName \subseteq Fig!Name
<1>1. IsFiniteSet(Fig!Category) /\ Transaction \subseteq Fig!Row
  BY ServicesAssumption
<1> DEFINE f == [c \in Fig!Category |-> c.name]
<1>2. f \in Surjection(Fig!Category, CategoryName)
  BY DEF Surjection, CategoryName
<1>3. CategoryName \subseteq Fig!Name
  BY <1>1, RowIs DEF CategoryName, Fig!Category
<1> QED  BY <1>1, <1>2, <1>3, FS_Surjection

\* What is spent on the names of the categories adds up to what is spent.
LEMMA NamesAddUp ==
    ASSUME NEW rs, AllRows(rs), NEW p \in Fig!Period
    PROVE  /\ [name \in CategoryName |-> Amount(rs, OnName(rs, p, name))] \in [CategoryName -> Nat]
           /\ SumOver([name \in CategoryName |-> Amount(rs, OnName(rs, p, name))])
                = Amount(rs, Kind(rs, p, "expense"))
<1> DEFINE T == CategoryName
           S == Kind(rs, p, "expense")
           f == [i \in S |-> rs[i].amt]
           g == [i \in S |-> rs[i].cat.name]
           h == [name \in T |-> SumOver([x \in {x \in S : g[x] = name} |-> f[x]])]
           spent == [name \in T |-> Amount(rs, OnName(rs, p, name))]
<1>1. S \in SUBSET DOMAIN rs /\ IsTable(rs) /\ \A i \in DOMAIN rs : rs[i] \in Transaction
  BY DEF Kind, Of, AllRows
<1>2. f \in [S -> Int] /\ IsFiniteSet(S)
  <2>1. f \in [S -> Nat] /\ IsFiniteSet(S)
    BY <1>1, AmountTyped
  <2> QED  BY <2>1
<1>3. g \in [S -> T]
  <2>1. \A i \in S : rs[i].cat.name \in T
    BY <1>1 DEF CategoryName, Fig!Category
  <2> QED  BY <2>1
<1>4. IsFiniteSet(T)
  BY NamesFinite
<1>5. SumOver(f) = SumOver(h)
  <2> HIDE DEF f, S, g, T
  <2> QED  BY <1>2, <1>3, <1>4, SumByGroups
<1>6. \A name \in T : OnName(rs, p, name) \in SUBSET S
  BY DEF OnName
<1>7. ASSUME NEW name \in T
      PROVE  Amount(rs, OnName(rs, p, name)) = SumOver([x \in {x \in S : g[x] = name} |-> f[x]])
  <2>1. {x \in S : g[x] = name} = OnName(rs, p, name)
    BY DEF OnName
  <2>2. [x \in OnName(rs, p, name) |-> f[x]] = [i \in OnName(rs, p, name) |-> rs[i].amt]
    BY <1>6
  <2> HIDE DEF f, g
  <2> QED  BY <2>1, <2>2 DEF Amount
<1>8. spent = h
  <2> HIDE DEF f, S, g, T
  <2> QED  BY <1>7
<1>9. \A name \in T : Amount(rs, OnName(rs, p, name)) \in Nat
  <2> HIDE DEF S, T
  <2> QED  BY <1>1, <1>6, AmountTyped
<1> QED  BY <1>5, <1>8, <1>9 DEF Amount

\* Sums by the names of categories.
NamedSums(spent) == DOMAIN spent \subseteq CategoryName /\ \A name \in DOMAIN spent : spent[name] \in Nat

\* What a query of the sums by name returns.
LEMMA SumsByName ==
    ASSUME NEW rs, AllRows(rs), NEW p \in Fig!Period
    PROVE  /\ NamedSums(Fig!SpentByName(rs, p))
           /\ \A name \in CategoryName :
                Fig!Had(Fig!SpentByName(rs, p), name) = Amount(rs, OnName(rs, p, name))
<1> DEFINE spent == Fig!SpentByName(rs, p)
<1>1. IsTable(rs) /\ \A i \in DOMAIN rs : rs[i] \in Transaction
  BY DEF AllRows
<1>2. DOMAIN spent = Fig!SpentNames(rs, p) /\ \A name \in DOMAIN spent : spent[name] = Amount(rs, OnName(rs, p, name))
  BY <1>1, SpentOnIs DEF Fig!SpentByName
<1>3. Fig!SpentNames(rs, p) \subseteq CategoryName
  <2>1. Fig!SpentNames(rs, p) = {rs[i].cat.name : i \in Kind(rs, p, "expense")}
    BY <1>1, SpentOnIs
  <2>2. Kind(rs, p, "expense") \subseteq DOMAIN rs
    BY DEF Kind, Of
  <2> QED  BY <1>1, <2>1, <2>2 DEF CategoryName, Fig!Category
<1>4. \A name \in CategoryName : Amount(rs, OnName(rs, p, name)) \in Nat
  BY NamesAddUp
<1>5. ASSUME NEW name \in CategoryName, name \notin Fig!SpentNames(rs, p)
      PROVE  Amount(rs, OnName(rs, p, name)) = 0
  <2>1. OnName(rs, p, name) = {}
    BY <1>1, <1>5, SpentOnIs DEF OnName
  <2>2. DOMAIN [i \in OnName(rs, p, name) |-> rs[i].amt] = {}
    BY <2>1
  <2> QED  BY <2>2, SumOfNone DEF Amount
<1> HIDE DEF spent
<1>6. NamedSums(spent)
  BY <1>2, <1>3, <1>4 DEF NamedSums
<1>7. \A name \in CategoryName : Fig!Had(spent, name) = Amount(rs, OnName(rs, p, name))
  BY <1>2, <1>5 DEF Fig!Had
<1> QED  BY <1>6, <1>7 DEF spent

Changes(a, b) ==
    {c \in {[name |-> name, delta |-> Fig!Delta(a, b, name)] : name \in DOMAIN a \cup DOMAIN b} : c.delta # 0}

ChangeAbove(c, d) ==
    \/ Fig!Apart(c.delta, 0) > Fig!Apart(d.delta, 0)
    \/ Fig!Apart(c.delta, 0) = Fig!Apart(d.delta, 0) /\ Fig!Below(c.name, d.name)

ChangeOrder(a, b) ==
    {pair \in Changes(a, b) \X Changes(a, b) : ChangeAbove(pair[1], pair[2])}

\* The changes of a comparison: one for each name whose spending differs.
LEMMA ChangesTyped ==
    ASSUME NEW a, NamedSums(a), NEW b, NamedSums(b)
    PROVE  /\ \A name \in CategoryName : Fig!Delta(a, b, name) \in Int
           /\ Changes(a, b) = {[name |-> name, delta |-> Fig!Delta(a, b, name)] :
                                 name \in {n \in CategoryName : Fig!Delta(a, b, n) # 0}}
           /\ IsFiniteSet(Changes(a, b))
<1>1. \A name \in CategoryName : Fig!Had(a, name) \in Nat /\ Fig!Had(b, name) \in Nat
  BY DEF NamedSums, Fig!Had
<1>2. \A name \in CategoryName : Fig!Delta(a, b, name) \in Int
  BY <1>1 DEF Fig!Delta
<1>3. \A name : name \notin DOMAIN a \cup DOMAIN b => Fig!Delta(a, b, name) = 0
  BY DEF Fig!Delta, Fig!Had
<1>4. DOMAIN a \cup DOMAIN b \subseteq CategoryName
  BY DEF NamedSums
<1> DEFINE N == {n \in CategoryName : Fig!Delta(a, b, n) # 0}
           change(name) == [name |-> name, delta |-> Fig!Delta(a, b, name)]
           f == [name \in N |-> change(name)]
<1>7. Changes(a, b) = {change(name) : name \in N}
  BY <1>3, <1>4 DEF Changes
<1>8. IsFiniteSet(N)
  BY NamesFinite, FS_Subset
<1>9. f \in Surjection(N, Changes(a, b))
  <2> HIDE DEF N, change
  <2> QED  BY <1>7 DEF Surjection
<1>10. IsFiniteSet(Changes(a, b))
  BY <1>8, <1>9, FS_Surjection
<1> QED  BY <1>2, <1>7, <1>10

LEMMA ChangesOrdered ==
    ASSUME NEW a, NamedSums(a), NEW b, NamedSums(b)
    PROVE  StrictOrder(ChangeOrder(a, b), Changes(a, b))
<1> DEFINE C == Changes(a, b)
           size(c) == Fig!Apart(c.delta, 0)
<1>1. ASSUME NEW c \in C
      PROVE  /\ c.name \in Fig!Name /\ size(c) \in Nat
             /\ c = [name |-> c.name, delta |-> Fig!Delta(a, b, c.name)]
  <2>1. PICK name \in CategoryName : c = [name |-> name, delta |-> Fig!Delta(a, b, name)]
    BY ChangesTyped
  <2>2. Fig!Delta(a, b, name) \in Int /\ name \in Fig!Name
    BY ChangesTyped, NamesFinite
  <2>3. Fig!Apart(Fig!Delta(a, b, name), 0) \in Nat
    BY <2>2 DEF Fig!Apart
  <2> QED  BY <2>1, <2>2, <2>3
<1>2. \A c, d \in C : <<c, d>> \in ChangeOrder(a, b) <=> ChangeAbove(c, d)
  BY DEF ChangeOrder
<1>3. \A c, d \in C : ChangeAbove(c, d) <=> size(c) > size(d) \/ (size(c) = size(d) /\ Fig!Below(c.name, d.name))
  BY DEF ChangeAbove
<1>4. \A c, d \in C : c.name = d.name => c = d
  <2>1. \A c \in C : c = [name |-> c.name, delta |-> Fig!Delta(a, b, c.name)]
    BY <1>1
  <2> QED  BY <2>1
<1> HIDE DEF C, size
<1>5. \A c \in C : size(c) \in Int /\ c.name \in Fig!Name
  BY <1>1
<1>6. \A c \in C : ~ ChangeAbove(c, c)
  BY <1>3, <1>5, NamesOrdered
<1>7. \A c, d \in C : c = d \/ ChangeAbove(c, d) \/ ChangeAbove(d, c)
  <2> SUFFICES ASSUME NEW c \in C, NEW d \in C PROVE c = d \/ ChangeAbove(c, d) \/ ChangeAbove(d, c)
    OBVIOUS
  <2>1. c.name = d.name \/ Fig!Below(c.name, d.name) \/ Fig!Below(d.name, c.name)
    BY <1>5, NamesOrdered
  <2> QED  BY <1>3, <1>4, <1>5, <2>1
<1>8. ASSUME NEW c \in C, NEW d \in C, NEW e \in C, ChangeAbove(c, d), ChangeAbove(d, e)
      PROVE  ChangeAbove(c, e)
  <2>1. Fig!Below(c.name, d.name) /\ Fig!Below(d.name, e.name) => Fig!Below(c.name, e.name)
    BY <1>5, NamesOrdered
  <2> QED  BY <1>3, <1>5, <1>8, <2>1
<1> QED  BY <1>2, <1>6, <1>7, <1>8 DEF StrictOrder, C

LEMMA ChangesAre ==
    ASSUME NEW a, NamedSums(a), NEW b, NamedSums(b)
    PROVE  Lists(Fig!Changes(a, b), ChangeOrder(a, b), Changes(a, b))
<1> DEFINE E == Changes(a, b)
           R == ChangeOrder(a, b)
           all == {[name |-> name, delta |-> Fig!Delta(a, b, name)] : name \in DOMAIN a \cup DOMAIN b}
           X == {c \in all : c.delta # 0}
           q(S) == [k \in 1..Fig!Cardinality(S) |->
                      CHOOSE x \in S : Fig!Cardinality({y \in S : ChangeAbove(y, x)}) = k - 1]
           pick(k) == CHOOSE x \in E : Fig!Cardinality({y \in E : ChangeAbove(y, x)}) = k - 1
<1>1. X = E
  BY DEF Changes
<1>2. Fig!Changes(a, b) = q(X)
  BY DEF Fig!Changes, Fig!Ranked, ChangeAbove
<1>3. IsFiniteSet(E) /\ StrictOrder(R, E)
  BY ChangesTyped, ChangesOrdered
<1>4. \A x \in E : {y \in E : ChangeAbove(y, x)} = Before(R, E, x)
  BY DEF ChangeOrder, Before
<1> HIDE DEF E, R, X
<1>5. ASSUME NEW k \in 1..Cardinality(E)
      PROVE  pick(k) \in E /\ RankOf(R, E, pick(k)) = k - 1
  <2>1. PICK x \in E : RankOf(R, E, x) = k - 1
    BY <1>3, RanksTaken
  <2>2. Fig!Cardinality({y \in E : ChangeAbove(y, x)}) = k - 1
    BY <1>4, <2>1, FigCounts DEF RankOf
  <2>3. pick(k) \in E /\ Fig!Cardinality({y \in E : ChangeAbove(y, pick(k))}) = k - 1
    BY <2>2
  <2> HIDE DEF pick
  <2> QED  BY <1>4, <2>3, FigCounts DEF RankOf
<1>6. q(E) = [k \in 1..Cardinality(E) |-> pick(k)]
  BY FigCounts
<1> HIDE DEF q, pick
<1>7. Fig!Changes(a, b) = [k \in 1..Cardinality(E) |-> pick(k)]
  BY <1>1, <1>2, <1>6
<1> QED  BY <1>5, <1>7 DEF Lists, E, R

Explained(c, before, after, a, b) ==
    LET delta(name) == Fig!Delta(a, b, name)
        shown == {c.changes[k].name : k \in DOMAIN c.changes}
        hidden == {cat.name : cat \in Fig!Category} \ shown
    IN /\ c.difference = after - before
       /\ Fig!SumFunction([name \in shown |-> delta(name)])
            + Fig!SumFunction([name \in hidden |-> delta(name)])
          = SumOver([name \in CategoryName |-> Fig!Had(b, name)])
              - SumOver([name \in CategoryName |-> Fig!Had(a, name)])
       /\ \A h \in hidden, s \in shown : Fig!Apart(delta(h), 0) <= Fig!Apart(delta(s), 0)
       /\ (\E h \in hidden : delta(h) # 0) => Len(c.changes) = CategoryLimit

\* The changes of a comparison: none hidden is larger than one shown, and all
\* together add up to the difference of the sums.
LEMMA ChangesExplain ==
    ASSUME NEW a, NamedSums(a), NEW b, NamedSums(b), NEW before, NEW after
    PROVE  Explained(Fig!Compared(before, after, a, b), before, after, a, b)
<1> DEFINE c == Fig!Compared(before, after, a, b)
           q == Fig!Changes(a, b)
           E == Changes(a, b)
           R == ChangeOrder(a, b)
           n == Cardinality(E)
           l == Fig!Smaller(CategoryLimit, n)
           delta(name) == Fig!Delta(a, b, name)
           shown == {c.changes[k].name : k \in DOMAIN c.changes}
           N == CategoryName
           new == [name \in N |-> Fig!Had(b, name)]
           old == [name \in N |-> Fig!Had(a, name)]
           d == [name \in N |-> new[name] - old[name]]
<1>1. CategoryLimit \in Nat
  BY ServicesAssumption
<1>4. /\ IsFiniteSet(E) /\ StrictOrder(R, E) /\ Lists(q, R, E) /\ n \in Nat
      /\ E = {[name |-> name, delta |-> Fig!Delta(a, b, name)] : name \in {m \in N : Fig!Delta(a, b, m) # 0}}
      /\ \A name \in N : Fig!Delta(a, b, name) \in Int
  <2>1. IsFiniteSet(E) /\ StrictOrder(R, E) /\ Lists(q, R, E)
        /\ E = {[name |-> name, delta |-> Fig!Delta(a, b, name)] : name \in {m \in N : Fig!Delta(a, b, m) # 0}}
        /\ \A name \in N : Fig!Delta(a, b, name) \in Int
    <3> HIDE DEF E, R, q, N
    <3> QED  BY ChangesTyped, ChangesOrdered, ChangesAre DEF E, R, q, N
  <2> QED  BY <2>1, FS_CardinalityType
<1>5. c.difference = after - before
      /\ c.changes = SubSeq(q, 1, Fig!Smaller(CategoryLimit, Len(q)))
  BY DEF Fig!Compared
<1> HIDE DEF c, q, E, R, n, N
<1>6. Len(q) = n /\ q \in Seq(E) /\ l \in Nat /\ l <= n /\ l <= CategoryLimit /\ (l < n => l = CategoryLimit)
  <2>1. q \in [1..n -> E]
    BY <1>4 DEF Lists, n
  <2>2. q \in Seq(E) /\ Len(q) = n
    BY <1>4, <2>1
  <2> QED  BY <1>1, <1>4, <2>2 DEF Fig!Smaller
<1>7. DOMAIN q = 1..n /\ \A k \in 1..n : q[k] \in E
  BY <1>4 DEF Lists, n
<1> HIDE DEF l
<1>8. DOMAIN c.changes = 1..l /\ Len(c.changes) = l /\ \A k \in 1..l : c.changes[k] = q[k]
  <2>1. c.changes = SubSeq(q, 1, l)
    BY <1>5, <1>6 DEF l
  <2> QED  BY <1>6, <2>1
<1>9. \A k \in 1..n : q[k].name \in N /\ q[k].delta = Fig!Delta(a, b, q[k].name)
  BY <1>4, <1>7
<1>10. shown = {q[k].name : k \in 1..l} /\ shown \in SUBSET N
  <2>1. shown = {q[k].name : k \in 1..l}
    BY <1>8
  <2>2. 1..l \subseteq 1..n
    BY <1>4, <1>6
  <2> HIDE DEF shown
  <2> QED  BY <1>9, <2>1, <2>2
<1> HIDE DEF delta, shown
<1>11. \A h \in N \ shown : Fig!Delta(a, b, h) # 0 =>
         \E k \in 1..n : k > l /\ q[k] = [name |-> h, delta |-> Fig!Delta(a, b, h)]
  <2> SUFFICES ASSUME NEW h \in N \ shown, Fig!Delta(a, b, h) # 0
               PROVE  \E k \in 1..n : k > l /\ q[k] = [name |-> h, delta |-> Fig!Delta(a, b, h)]
    OBVIOUS
  <2> DEFINE x == [name |-> h, delta |-> Fig!Delta(a, b, h)]
             k == RankOf(R, E, x) + 1
  <2>1. x \in E
    BY <1>4
  <2>2. k \in 1..n /\ q[k] = x
    BY <1>4, <1>7, <2>1, ListIs
  <2>3. ~ (k <= l)
    <3>1. q[k].name = h
      BY <2>2
    <3> HIDE DEF k, x
    <3> QED  BY <1>6, <1>10, <2>2, <3>1
  <2> HIDE DEF k
  <2> QED  BY <1>4, <1>6, <2>2, <2>3
<1>12. ASSUME NEW h \in N \ shown, NEW s \in shown
       PROVE  Fig!Apart(delta(h), 0) <= Fig!Apart(delta(s), 0)
  <2>1. delta(h) = Fig!Delta(a, b, h) /\ delta(s) = Fig!Delta(a, b, s)
    BY DEF delta
  <2>2. Fig!Delta(a, b, h) \in Int /\ Fig!Delta(a, b, s) \in Int
    BY <1>4, <1>10
  <2>3. CASE Fig!Delta(a, b, h) = 0
    BY <2>1, <2>2, <2>3 DEF Fig!Apart
  <2>4. CASE Fig!Delta(a, b, h) # 0
    <3>1. PICK k \in 1..n : k > l /\ q[k] = [name |-> h, delta |-> Fig!Delta(a, b, h)]
      BY <1>11, <2>4
    <3>2. PICK j \in 1..l : s = q[j].name
      BY <1>10
    <3>3. j \in DOMAIN q /\ k \in DOMAIN q /\ j < k /\ q[j].delta = Fig!Delta(a, b, s)
      BY <1>4, <1>6, <1>7, <1>9, <3>1, <3>2
    <3>4. <<q[j], q[k]>> \in R
      BY <1>4, <3>3, ListIs
    <3>5. ChangeAbove(q[j], q[k])
      BY <3>4 DEF R, ChangeOrder
    <3>6. Fig!Apart(q[j].delta, 0) >= Fig!Apart(q[k].delta, 0)
      <4>1. Fig!Apart(q[j].delta, 0) \in Nat /\ Fig!Apart(q[k].delta, 0) \in Nat
        BY <2>2, <3>1, <3>3 DEF Fig!Apart
      <4> QED  BY <3>5, <4>1 DEF ChangeAbove
    <3> QED  BY <2>1, <2>2, <3>1, <3>3, <3>6 DEF Fig!Apart
  <2> QED  BY <2>3, <2>4
<1>13. (\E h \in N \ shown : delta(h) # 0) => Len(c.changes) = CategoryLimit
  <2> SUFFICES ASSUME NEW h \in N \ shown, delta(h) # 0 PROVE l = CategoryLimit
    BY <1>8
  <2>1. PICK k \in 1..n : k > l
    BY <1>11 DEF delta
  <2> QED  BY <1>4, <1>6, <2>1
<1>14. IsFiniteSet(N) /\ old \in [N -> Int] /\ new \in [N -> Int] /\ d \in [N -> Int]
  <2>1. \A name \in N : Fig!Had(a, name) \in Nat /\ Fig!Had(b, name) \in Nat
    BY DEF NamedSums, Fig!Had, N
  <2>2. old \in [N -> Int] /\ new \in [N -> Int]
    BY <2>1
  <2>3. d \in [N -> Int]
    <3> HIDE DEF old, new
    <3> QED  BY <2>2
  <2> QED  BY <2>2, <2>3, NamesFinite DEF N
<1>15. \A name \in N : delta(name) = d[name]
  BY DEF Fig!Delta, delta
<1>16. SumOver(d) = SumOver(new) - SumOver(old)
  <2> HIDE DEF new, old
  <2> QED  BY <1>14, SumOfDifference
<1> HIDE DEF d
<1>17. SumOver(d) = SumOver([name \in shown |-> d[name]]) + SumOver([name \in N \ shown |-> d[name]])
  <2> HIDE DEF new, old
  <2>1. shown \in SUBSET N /\ IsFiniteSet(N) /\ d \in [N -> Int]
    BY <1>10, <1>14
  <2> QED  BY <2>1, SumOfParts
<1>18. /\ [name \in shown |-> d[name]] = [name \in shown |-> delta(name)]
       /\ [name \in N \ shown |-> d[name]] = [name \in N \ shown |-> delta(name)]
  BY <1>10, <1>15
<1>19. Fig!SumFunction([name \in shown |-> delta(name)])
         + Fig!SumFunction([name \in N \ shown |-> delta(name)]) = SumOver(new) - SumOver(old)
  BY <1>16, <1>17, <1>18, SumFunctionIs
<1> QED  BY <1>5, <1>12, <1>13, <1>19 DEF Explained, c, N, new, old, shown, delta, CategoryName

-----------------------------------------------------------------------------
(* The cards of the insights *)

LEMMA Divided ==
    ASSUME NEW n \in Nat, NEW d \in Nat \ {0}
    PROVE  /\ n \div d \in Nat
           /\ \A k \in Nat : n \div d >= k <=> n >= k * d
<1> DEFINE q == n \div d
           r == n % d
<1>1. q \in Int /\ r \in 0..(d - 1) /\ n = d * q + r
  OBVIOUS
<1> HIDE DEF q, r
<1>2. q >= 0
  <2>1. ASSUME q < 0 PROVE FALSE
    <3>1. q <= -1 /\ -q - 1 \in Nat
      BY <1>1, <2>1
    <3>2. d * (-q - 1) >= 0
      BY <3>1
    <3>3. d * (-q - 1) = -(d * q) - d
      BY <1>1
    <3> QED  BY <1>1, <3>2, <3>3
  <2> QED  BY <1>1, <2>1
<1>3. ASSUME NEW k \in Nat PROVE q >= k <=> n >= k * d
  <2>1. CASE q >= k
    <3>1. d * (q - k) >= 0
      BY <1>1, <2>1
    <3>2. d * (q - k) = d * q - k * d /\ d * q \in Int /\ k * d \in Int
      BY <1>1
    <3> QED  BY <1>1, <2>1, <3>1, <3>2
  <2>2. CASE q < k
    <3>1. d * (k - q - 1) >= 0
      BY <1>1, <2>2
    <3>2. d * (k - q - 1) = k * d - d * q - d /\ d * q \in Int /\ k * d \in Int
      BY <1>1
    <3> QED  BY <1>1, <2>2, <3>1, <3>2
  <2> QED  BY <1>1, <2>1, <2>2
<1> QED  BY <1>1, <1>2, <1>3 DEF q

\* A thousand tenths of a percent are the whole.
LEMMA PercentIs ==
    ASSUME NEW s \in Nat, NEW l \in Nat \ {0}
    PROVE  /\ Fig!Rounded(1000 * s, l) \in Nat
           /\ s > l => Fig!Rounded(1000 * s, l) >= 1000
           /\ s <= l => Fig!Rounded(1000 * s, l) <= 1000
<1> DEFINE n == 2 * (1000 * s) + l
           d == 2 * l
           q == n \div d
<1>1. n \in Nat /\ d \in Nat \ {0} /\ Fig!Rounded(1000 * s, l) = q
  BY DEF Fig!Rounded
<1>2. q \in Nat /\ (q >= 1000 <=> n >= 1000 * d) /\ (q >= 1001 <=> n >= 1001 * d)
  <2> HIDE DEF n, d
  <2> QED  BY <1>1, Divided
<1>3. (s > l => n >= 1000 * d) /\ (s <= l => ~ (n >= 1001 * d))
  OBVIOUS
<1> HIDE DEF q
<1> QED  BY <1>1, <1>2, <1>3

ReportStands(report) ==
    /\ report.expenses \in Nat /\ DOMAIN report.breakdown \subseteq Nat
    /\ \A k \in DOMAIN report.breakdown :
         report.breakdown[k].type = "expense" =>
           report.breakdown[k].total \in Nat /\ report.breakdown[k].total <= report.expenses

LEMMA ReportsStand ==
    ASSUME NEW rs, IsTable(rs), NEW p \in Fig!Period
    PROVE  ReportStands(Fig!Report(rs, p))
<1> DEFINE report == Fig!Report(rs, p)
           own == Kept(rs, Of(rs, p))
           q == report.breakdown
           E == Entries(own)
<1>1. Of(rs, p) \in SUBSET DOMAIN rs /\ Kind(rs, p, "expense") \in SUBSET Of(rs, p)
  BY DEF Of, Kind
<1>2. IsTable(own) /\ DOMAIN own = Of(rs, p)
  BY <1>1, KeptTable
<1>3. q = Fig!Breakdown(own) /\ report.expenses = Amount(rs, Kind(rs, p, "expense"))
  BY ReportIs
<1>4. Amount(own, Kind(rs, p, "expense")) = Amount(rs, Kind(rs, p, "expense"))
  BY <1>1, KeptTable
<1>5. report.expenses \in Nat
  BY <1>1, <1>3, AmountTyped
<1>6. DOMAIN q = 1..Cardinality(E) /\ Cardinality(E) \in Nat /\ \A k \in DOMAIN q : q[k] \in E
  <2> HIDE DEF own, q
  <2>1. q \in [1..Cardinality(E) -> E] /\ IsFiniteSet(E)
    BY <1>2, <1>3, BreakdownIs, EntriesTyped DEF Lists
  <2> QED  BY <2>1, FS_CardinalityType
<1>7. ASSUME NEW k \in DOMAIN q, q[k].type = "expense"
      PROVE  q[k].total \in Nat /\ q[k].total <= report.expenses
  <2> DEFINE e == q[k]
             heading == [type |-> e.type, name |-> e.name]
             N == Named(own, heading)
  <2>1. e \in E
    BY <1>6
  <2>2. e.type = "expense"
    BY <1>7
  <2> HIDE DEF e
  <2>3. e = Entry(own, heading)
    <3> HIDE DEF own
    <3> QED  BY <1>2, <2>1, EntriesTyped, Zenon
  <2>4. Entry(own, heading).total = Amount(own, N)
    BY DEF Entry
  <2>5. N \in SUBSET Kind(rs, p, "expense")
    BY <1>2, <2>2 DEF Named, Kind, Kept
  <2>6. Amount(own, N) \in Nat /\ Amount(own, N) <= Amount(own, Kind(rs, p, "expense"))
    <3> HIDE DEF N, own
    <3> QED  BY <1>1, <1>2, <2>5, AmountTyped
  <2> HIDE DEF N
  <2>7. e.total \in Nat /\ e.total <= report.expenses
    BY <1>3, <1>4, <2>3, <2>4, <2>6
  <2> QED  BY <2>7 DEF e
<1> HIDE DEF report
<1> QED  BY <1>5, <1>6, <1>7 DEF ReportStands, report

ItemsStand(items) ==
    /\ IsFiniteSet(items)
    /\ \A b \in items : /\ b.percent \in Nat
                        /\ b.over => b.percent >= 1000
                        /\ ~ b.over => b.percent <= 1000

LEMMA SpentForTyped ==
    ASSUME NEW rs, IsTable(rs), NEW p \in Fig!Period, NEW scope
    PROVE  Fig!SpentFor(Fig!InMonth(rs, p), scope) \in Nat
<1>1. CASE scope = Nil
  <2>1. Kind(rs, p, "expense") \in SUBSET DOMAIN rs
    BY DEF Kind, Of
  <2> QED  BY <1>1, <2>1, ReportIs, AmountTyped
<1>2. CASE scope # Nil
  <2> DEFINE C == {i \in Of(rs, p) : rs[i].cat = scope}
  <2>1. Fig!Where(Kept(rs, Of(rs, p)), LAMBDA r : r.cat = scope) = Kept(rs, C)
    BY DEF Fig!Where, Kept
  <2>2. C \in SUBSET DOMAIN rs
    BY DEF Of
  <2> HIDE DEF C
  <2>3. Fig!SpentFor(Fig!InMonth(rs, p), scope) = Amount(rs, C)
    BY <1>2, <2>1, MonthRows, KeptSum DEF Fig!SpentFor
  <2> QED  BY <2>2, <2>3, AmountTyped
<1> QED  BY <1>1, <1>2

\* Limits and sums as the queries return them.
LimitsStand(limits) == IsFiniteSet(DOMAIN limits) /\ \A scope \in DOMAIN limits : limits[scope] \in Limit

SumsStand(spent) == \A x \in DOMAIN spent : spent[x] \in Nat

LEMMA LimitsRead ==
    ASSUME NEW bs, IsFiniteSet(DOMAIN bs), bs \in [DOMAIN bs -> Limit],
           DOMAIN bs \subseteq [month : Month, scope : Fig!Category \cup {Nil}], NEW p
    PROVE  LimitsStand(Fig!Limits(bs, p))
<1> DEFINE B == {c \in DOMAIN bs : c.month = p}
           f == [b \in B |-> b.scope]
           limits == Fig!Limits(bs, p)
<1>1. DOMAIN limits = {b.scope : b \in B} /\ \A s \in DOMAIN limits : limits[s] = bs[[month |-> p, scope |-> s]]
  BY DEF Fig!Limits
<1>2. f \in Surjection(B, DOMAIN limits) /\ IsFiniteSet(B)
  <2>1. IsFiniteSet(B)
    BY FS_Subset
  <2> HIDE DEF B, limits
  <2> QED  BY <1>1, <2>1 DEF Surjection
<1>3. IsFiniteSet(DOMAIN limits)
  BY <1>2, FS_Surjection
<1>4. ASSUME NEW s \in DOMAIN limits PROVE limits[s] \in Limit
  <2>1. PICK b \in B : s = b.scope
    BY <1>1
  <2>2. b = [month |-> p, scope |-> s] /\ b \in DOMAIN bs
    BY <2>1
  <2> QED  BY <1>1, <2>2
<1> HIDE DEF limits
<1> QED  BY <1>3, <1>4 DEF LimitsStand, limits

LEMMA CategoriesRead ==
    ASSUME NEW rs, IsTable(rs), NEW p \in Fig!Period
    PROVE  SumsStand(Fig!SpentByCategory(Fig!InMonth(rs, p)))
BY SpentForTyped DEF SumsStand, Fig!SpentByCategory

\* Budgets made of such limits and sums stand, and the overall one has spent the
\* total.
LEMMA BudgetsStand ==
    ASSUME NEW limits, LimitsStand(limits), NEW total \in Nat, NEW spent, SumsStand(spent)
    PROVE  /\ ItemsStand(Fig!BudgetItems(limits, total, spent))
           /\ \A b \in Fig!BudgetItems(limits, total, spent) : b.scope = Nil => b.spent = total
<1> DEFINE B == DOMAIN limits
           sum(b) == IF b = Nil THEN total ELSE Fig!Had(spent, b)
           item(b) == Fig!Progress(b, sum(b), limits[b])
           f == [b \in B |-> item(b)]
           items == Fig!BudgetItems(limits, total, spent)
<1>1. items = {item(b) : b \in B}
  BY DEF Fig!BudgetItems
<1>2. IsFiniteSet(B)
  BY DEF LimitsStand
<1>3. f \in Surjection(B, items)
  <2> HIDE DEF items, B, item
  <2> QED  BY <1>1 DEF Surjection
<1>4. IsFiniteSet(items)
  BY <1>2, <1>3, FS_Surjection
<1>5. ASSUME NEW b \in B
      PROVE  /\ item(b).percent \in Nat /\ (item(b).over => item(b).percent >= 1000)
             /\ (~ item(b).over => item(b).percent <= 1000)
             /\ item(b).scope = Nil => item(b).spent = total
  <2> DEFINE s == sum(b)
             l == limits[b]
  <2>1. s \in Nat /\ l \in Nat \ {0}
    BY ServicesAssumption DEF LimitsStand, SumsStand, Fig!Had
  <2>2. b = Nil => s = total
    OBVIOUS
  <2> HIDE DEF s, l
  <2>3. /\ Fig!Progress(b, s, l).percent = Fig!Rounded(1000 * s, l)
        /\ Fig!Progress(b, s, l).over = (s > l)
        /\ Fig!Progress(b, s, l).scope = b
        /\ Fig!Progress(b, s, l).spent = s
    BY DEF Fig!Progress, Fig!Over
  <2>4. item(b) = Fig!Progress(b, s, l)
    BY DEF s, l
  <2> HIDE DEF item
  <2>5. s > l \/ s <= l
    BY <2>1
  <2> DEFINE r == Fig!Rounded(1000 * s, l)
  <2>6. r \in Nat /\ (s > l => r >= 1000) /\ (s <= l => r <= 1000)
    BY <2>1, PercentIs
  <2> HIDE DEF r
  <2>7. item(b).percent = r /\ item(b).over = (s > l) /\ item(b).scope = b /\ item(b).spent = s
    BY <2>3, <2>4 DEF r
  <2>8. CASE s > l
    <3>1. item(b).over = TRUE
      BY <2>7, <2>8
    <3> QED  BY <2>2, <2>6, <2>7, <2>8, <3>1
  <2>9. CASE s <= l
    <3>0. ~ (s > l)
      BY <2>1, <2>9
    <3>1. ~ item(b).over
      <4> HIDE DEF item
      <4> QED  BY <2>7, <3>0, Zenon
    <3> QED  BY <2>2, <2>6, <2>7, <2>9, <3>1
  <2> QED  BY <2>5, <2>8, <2>9
<1> HIDE DEF items, item, B, sum
<1> QED  BY <1>1, <1>4, <1>5 DEF ItemsStand, items

CardKind ==
    {"budget_pressure", "open_findings", "cash_flow", "expense_change", "net_worth_growth",
     "net_worth_liquidity", "emergency_coverage", "investment_share", "opportunity_capital",
     "account_concentration", "category_concentration"}

Urgency == {"attention", "positive", "info"}

LEMMA PrioritiesAre ==
    \A n : \A rise \in {"attention", "positive"} : Fig!Priority(n, rise) \in Urgency
BY DEF Fig!Priority, Urgency

LEMMA CardsAre ==
    ASSUME NEW current, NEW previous, NEW before, NEW items, NEW open, NEW worths
    PROVE  LET C == Fig!Cards(current, previous, before, items, open, worths)
               top == current.breakdown[Fig!Min(Fig!ExpenseEntries(current))]
           IN  /\ IsFiniteSet(C)
               /\ \A c \in C : c.kind \in CardKind /\ c.priority \in Urgency
               /\ \A c, d \in C : c.kind = d.kind => c = d
               /\ \A c \in C : c.kind = "budget_pressure" => c \in Fig!BudgetCards(items)
               /\ \A c \in C : c.kind = "category_concentration" =>
                    /\ Fig!ExpenseEntries(current) # {}
                    /\ c.evidence[1] = top.name /\ c.evidence[2] = top.total
               /\ \A c \in C : c.kind = "expense_change" =>
                    c.evidence[1] = current.expenses - previous.expenses
               /\ \A c \in C : c.kind = "cash_flow" => c.evidence[2] = current.expenses
<1> DEFINE C == Fig!Cards(current, previous, before, items, open, worths)
           entries == Fig!ExpenseEntries(current)
           top == current.breakdown[Fig!Min(entries)]
           delta == current.expenses - previous.expenses
           spent3 == current.expenses + previous.expenses + before.expenses
           over == Fig!Cardinality({b \in items : b.over})
           k1 == Fig!Card("budget_pressure", IF over > 0 THEN "attention" ELSE "info",
                          <<Fig!Cardinality(items), over, Fig!Highest(items)>>)
           k2 == Fig!Card("open_findings", IF open > 0 THEN "attention" ELSE "info", <<open>>)
           k3 == Fig!Card("cash_flow", Fig!Priority(current.income - current.expenses, "positive"),
                          <<current.income, current.expenses, current.count>>)
           k4 == Fig!Card("expense_change", Fig!Priority(delta, "attention"),
                     <<delta, IF previous.expenses = 0 THEN Nil
                              ELSE Fig!Rounded(1000 * delta, previous.expenses)>>)
           k5 == Fig!Card("category_concentration", "info",
                     <<top.name, top.total, Fig!Rounded(1000 * top.total, current.expenses)>>)
           k6 == Fig!Card("net_worth_liquidity", "info",
                     <<Fig!Tenths(3 * (worths.available + worths.reserved), spent3)>>)
           k7 == Fig!Card("emergency_coverage", "info", <<Fig!Tenths(3 * worths.emergency, spent3)>>)
           k8 == Fig!Card("investment_share", "info", <<worths.invested, worths.total>>)
           k9 == Fig!Card("opportunity_capital", "info", <<worths.opportunities, worths.total>>)
           k10 == Fig!Card("net_worth_growth", Fig!Priority(worths.growth, "positive"), <<worths.growth>>)
           k11 == Fig!Card("account_concentration", "info", <<worths.largest>>)
<1>1. Fig!BudgetCards(items) = IF items = {} THEN {} ELSE {k1}
  BY DEF Fig!BudgetCards
<1>2. Fig!MonthCards(current, previous, open)
        = {k2, k3, k4} \cup (IF entries = {} \/ current.expenses = 0 THEN {} ELSE {k5})
  BY DEF Fig!MonthCards
<1>3. Fig!WorthCards(spent3, worths) = {k6, k7, k8, k9, k10}
  BY DEF Fig!WorthCards
<1>4. Fig!AccountCards(worths) = IF worths.largest = Nil THEN {} ELSE {k11}
  BY DEF Fig!AccountCards
<1>5. C = Fig!BudgetCards(items) \cup Fig!MonthCards(current, previous, open)
            \cup Fig!AccountCards(worths) \cup Fig!WorthCards(spent3, worths)
  BY DEF Fig!Cards
<1>6. /\ k1.kind = "budget_pressure" /\ k2.kind = "open_findings" /\ k3.kind = "cash_flow"
      /\ k4.kind = "expense_change" /\ k5.kind = "category_concentration" /\ k6.kind = "net_worth_liquidity"
      /\ k7.kind = "emergency_coverage" /\ k8.kind = "investment_share" /\ k9.kind = "opportunity_capital"
      /\ k10.kind = "net_worth_growth" /\ k11.kind = "account_concentration"
  BY DEF Fig!Card
<1>7. \A c \in {k1, k2, k3, k4, k5, k6, k7, k8, k9, k10, k11} : c.priority \in Urgency
  <2>1. \A kind, urgency, evid : Fig!Card(kind, urgency, evid).priority = urgency
    BY DEF Fig!Card
  <2>2. Fig!Priority(current.income - current.expenses, "positive") \in Urgency
        /\ Fig!Priority(delta, "attention") \in Urgency /\ Fig!Priority(worths.growth, "positive") \in Urgency
        /\ (IF over > 0 THEN "attention" ELSE "info") \in Urgency
        /\ (IF open > 0 THEN "attention" ELSE "info") \in Urgency /\ "info" \in Urgency
    BY PrioritiesAre DEF Urgency
  <2> QED  BY <2>1, <2>2
<1>8. /\ k5.evidence[1] = top.name /\ k5.evidence[2] = top.total
      /\ k4.evidence[1] = delta /\ k3.evidence[2] = current.expenses
  BY DEF Fig!Card
<1> HIDE DEF C, entries, top, spent3, over, k1, k2, k3, k4, k5, k6, k7, k8, k9, k10, k11
<1> DEFINE K == {k1, k2, k3, k4, k5, k6, k7, k8, k9, k10, k11}
<1>9. C \subseteq K
  BY <1>1, <1>2, <1>3, <1>4, <1>5
<1>10. IsFiniteSet(K)
  <2> DEFINE s == <<k1, k2, k3, k4, k5, k6, k7, k8, k9, k10, k11>>
  <2>1. s \in Surjection(1..11, K)
    BY DEF Surjection
  <2>2. IsFiniteSet(1..11)
    <3>1. \A n \in Nat : IsFiniteSet(1..n)
      BY FS_Interval
    <3> QED  BY <3>1
  <2> HIDE DEF s, K
  <2> QED  BY <2>1, <2>2, FS_Surjection
<1>11. \A c \in K : c.kind \in CardKind /\ c.priority \in Urgency
  BY <1>6, <1>7 DEF CardKind
<1>12. \A c, d \in K : c.kind = d.kind => c = d
  BY <1>6
<1>13. \A c \in K : /\ c.kind = "budget_pressure" => c = k1
                    /\ c.kind = "category_concentration" => c = k5
                    /\ c.kind = "expense_change" => c = k4
                    /\ c.kind = "cash_flow" => c = k3
  BY <1>6
<1>14. k1 \in C => k1 \in Fig!BudgetCards(items)
  BY <1>1, <1>2, <1>3, <1>4, <1>5, <1>6
<1>15. k5 \in C => entries # {}
  BY <1>1, <1>2, <1>3, <1>4, <1>5, <1>6
<1> HIDE DEF K
<1>16. IsFiniteSet(C)
  BY <1>9, <1>10, FS_Subset
<1> QED  BY <1>8, <1>9, <1>11, <1>12, <1>13, <1>14, <1>15, <1>16 DEF C, entries, top

\* The only card that needs attention is shown first.
LEMMA OnlyAttentionFirst ==
    ASSUME NEW C, IsFiniteSet(C), \A x \in C : x.kind \in CardKind /\ x.priority \in Urgency,
           \A x, y \in C : x.kind = y.kind => x = y,
           NEW c \in C, c.priority = "attention", \A d \in C : d.priority = "attention" => d = c
    PROVE  Fig!InsightOrder(C)[1] = c
<1> DEFINE urgency(x) == Fig!Place(<<"attention", "positive", "info">>, x.priority)
           place(x) == Fig!Place(Fig!KindOrder, x.kind)
           rank(x) == 100 * urgency(x) + place(x)
           q == [k \in 1..Fig!Cardinality(C) |->
                   CHOOSE x \in C : Fig!Cardinality({y \in C : rank(y) < rank(x)}) = k - 1]
<1>1. Fig!InsightOrder(C) = q
  BY DEF Fig!InsightOrder, Fig!Ranked
<1>2. ASSUME NEW x \in C PROVE place(x) \in 1..11
  <2>1. \E k \in DOMAIN Fig!KindOrder : Fig!KindOrder[k] = x.kind
    <3>1. /\ DOMAIN Fig!KindOrder = 1..11
          /\ {Fig!KindOrder[k] : k \in 1..11} = CardKind
      BY DEF Fig!KindOrder, CardKind
    <3> QED  BY <3>1
  <2>2. DOMAIN Fig!KindOrder = 1..11
    BY DEF Fig!KindOrder
  <2> QED  BY <2>1, <2>2 DEF Fig!Place
<1>3. ASSUME NEW x \in C
      PROVE  /\ urgency(x) \in 1..3
             /\ urgency(x) = 1 <=> x.priority = "attention"
  <2> DEFINE order == <<"attention", "positive", "info">>
  <2>1. DOMAIN order = 1..3 /\ order[1] = "attention" /\ order[2] = "positive" /\ order[3] = "info"
    OBVIOUS
  <2>2. \E k \in DOMAIN order : order[k] = x.priority
    BY <2>1 DEF Urgency
  <2>3. urgency(x) \in DOMAIN order /\ order[urgency(x)] = x.priority
    BY <2>2 DEF Fig!Place
  <2> HIDE DEF urgency, order
  <2> QED  BY <2>1, <2>3
<1> HIDE DEF urgency, place
<1>4. \A x \in C : rank(x) \in Int
  BY <1>2, <1>3
<1>5. \A x \in C : x # c => rank(c) < rank(x)
  BY <1>2, <1>3
<1> HIDE DEF rank
<1>6. {y \in C : rank(y) < rank(c)} = {}
  BY <1>4, <1>5
<1>7. \A x \in C : x # c => c \in {y \in C : rank(y) < rank(x)}
  BY <1>5
<1>8. \A x \in C : Fig!Cardinality({y \in C : rank(y) < rank(x)}) = 0 => x = c
  <2> SUFFICES ASSUME NEW x \in C, Fig!Cardinality({y \in C : rank(y) < rank(x)}) = 0 PROVE x = c
    OBVIOUS
  <2>1. IsFiniteSet({y \in C : rank(y) < rank(x)})
    BY FS_Subset
  <2>2. {y \in C : rank(y) < rank(x)} = {}
    BY <2>1, FigCounts, FS_EmptySet
  <2> QED  BY <1>7, <2>2
<1>9. Fig!Cardinality({y \in C : rank(y) < rank(c)}) = 0
  BY <1>6, FigCounts, FS_EmptySet
<1>10. 1 \in 1..Fig!Cardinality(C)
  <2>1. Cardinality(C) \in Nat /\ Cardinality(C) # 0
    BY FS_CardinalityType, FS_EmptySet
  <2> QED  BY <2>1, FigCounts
<1>11. q[1] = c
  <2>1. q[1] = CHOOSE x \in C : Fig!Cardinality({y \in C : rank(y) < rank(x)}) = 1 - 1
    BY <1>10
  <2> HIDE DEF q
  <2>2. 1 - 1 = 0
    OBVIOUS
  <2>3. \E x \in C : Fig!Cardinality({y \in C : rank(y) < rank(x)}) = 1 - 1
    BY <1>9, <2>2
  <2>4. q[1] \in C /\ Fig!Cardinality({y \in C : rank(y) < rank(q[1])}) = 1 - 1
    BY <2>1, <2>3
  <2> QED  BY <1>8, <2>2, <2>4
<1> QED  BY <1>1, <1>11

\* What the cards say of a report.
CardsRight(report, C) ==
    \A c \in C :
        /\ c.kind = "category_concentration" =>
             /\ c.evidence[2] <= report.expenses
             /\ \E k \in DOMAIN report.breakdown :
                  /\ report.breakdown[k].type = "expense"
                  /\ report.breakdown[k].name = c.evidence[1]
        /\ c.kind = "budget_pressure" =>
             /\ c.evidence[2] > 0 => c.evidence[3] >= 1000
             /\ c.evidence[2] = 0 => c.evidence[3] <= 1000
        /\ \A d \in C : c.kind = d.kind => c = d
        /\ c.priority = "attention" /\ (\A d \in C : d.priority = "attention" => d = c)
             => Fig!InsightOrder(C)[1] = c

\* Cards of a report and of budgets that stand are right.
LEMMA CardsConsistent ==
    ASSUME NEW report, NEW second, NEW third, NEW items, ReportStands(report), ItemsStand(items),
           NEW open, NEW worths
    PROVE  CardsRight(report, Fig!Cards(report, second, third, items, open, worths))
<1> DEFINE C == Fig!Cards(report, second, third, items, open, worths)
           entries == Fig!ExpenseEntries(report)
           least == Fig!Min(entries)
           top == report.breakdown[least]
<1>1. /\ IsFiniteSet(C)
      /\ \A c \in C : c.kind \in CardKind /\ c.priority \in Urgency
      /\ \A c, d \in C : c.kind = d.kind => c = d
      /\ \A c \in C : c.kind = "budget_pressure" => c \in Fig!BudgetCards(items)
      /\ \A c \in C : c.kind = "category_concentration" =>
           entries # {} /\ c.evidence[1] = top.name /\ c.evidence[2] = top.total
  BY CardsAre
<1> HIDE DEF C
<1>2. ASSUME NEW c \in C, c.kind = "category_concentration"
      PROVE  /\ c.evidence[2] <= report.expenses
             /\ \E k \in DOMAIN report.breakdown :
                  /\ report.breakdown[k].type = "expense"
                  /\ report.breakdown[k].name = c.evidence[1]
  <2>1. entries \in SUBSET Nat /\ entries # {}
    BY <1>1, <1>2 DEF ReportStands, Fig!ExpenseEntries
  <2>2. \E x \in entries : \A y \in entries : x <= y
    BY <2>1, LeastElement
  <2>3. least \in entries
    BY <2>2 DEF Fig!Min
  <2>4. least \in DOMAIN report.breakdown /\ top.type = "expense"
    BY <2>3 DEF Fig!ExpenseEntries
  <2> HIDE DEF least
  <2>5. top.total <= report.expenses
    BY <2>4 DEF ReportStands
  <2> QED  BY <1>1, <1>2, <2>4, <2>5
<1>3. ASSUME NEW c \in C, c.kind = "budget_pressure"
      PROVE  /\ c.evidence[2] > 0 => c.evidence[3] >= 1000
             /\ c.evidence[2] = 0 => c.evidence[3] <= 1000
  <2> DEFINE over == {b \in items : b.over}
             n == Fig!Cardinality(over)
             P == {b.percent : b \in items}
             h == Fig!Max(P)
  <2>1. items # {} /\ c.evidence[2] = n /\ c.evidence[3] = h
    <3>1. c \in Fig!BudgetCards(items)
      BY <1>1, <1>3
    <3>2. items # {} /\ c.evidence = <<Fig!Cardinality(items), n, h>>
      BY <3>1 DEF Fig!BudgetCards, Fig!Card, Fig!Highest
    <3> HIDE DEF n, h
    <3> QED  BY <3>2
  <2>2. IsFiniteSet(P) /\ P \in SUBSET Nat /\ P # {}
    <3> DEFINE f == [b \in items |-> b.percent]
    <3>1. f \in Surjection(items, P) /\ IsFiniteSet(items)
      BY DEF Surjection, ItemsStand
    <3>2. P \in SUBSET Nat /\ P # {}
      BY <2>1 DEF ItemsStand
    <3> HIDE DEF f, P
    <3> QED  BY <3>1, <3>2, FS_Surjection
  <2>3. h \in P /\ \A y \in P : h >= y
    <3> HIDE DEF P
    <3>1. \E x \in P : \A y \in P : x >= y
      BY <2>2, FiniteGreatest
    <3> QED  BY <3>1 DEF Fig!Max
  <2>4. IsFiniteSet(over) /\ (n = 0 <=> over = {}) /\ n \in Nat
    <3>1. IsFiniteSet(over)
      BY FS_Subset DEF ItemsStand
    <3> HIDE DEF over
    <3> QED  BY <3>1, FS_EmptySet, FS_CardinalityType, FigCounts
  <2> HIDE DEF n, h
  <2>5. ASSUME n > 0 PROVE h >= 1000
    <3>1. PICK b \in items : b.over
      BY <2>4, <2>5
    <3>2. b.percent \in P /\ b.percent >= 1000 /\ b.percent \in Nat
      BY <3>1 DEF ItemsStand
    <3>3. h >= b.percent /\ h \in Nat
      BY <2>2, <2>3, <3>2
    <3> QED  BY <3>2, <3>3
  <2>6. ASSUME n = 0 PROVE h <= 1000
    <3>1. \A b \in items : b.percent <= 1000
      BY <2>4, <2>6 DEF ItemsStand
    <3> QED  BY <2>3, <3>1
  <2> QED  BY <2>1, <2>5, <2>6
<1>4. ASSUME NEW c \in C, c.priority = "attention", \A d \in C : d.priority = "attention" => d = c
      PROVE  Fig!InsightOrder(C)[1] = c
  BY <1>1, <1>4, OnlyAttentionFirst
<1> QED  BY <1>1, <1>2, <1>3, <1>4 DEF CardsRight, C

-----------------------------------------------------------------------------
(* Lists of transactions *)

IdTable(rs) == IsTable(rs) /\ DOMAIN rs \subseteq Nat

\* The rows of a list.
On(rs, status) ==
    {i \in DOMAIN rs : /\ status = "review" => Fig!InReview(rs[i])
                       /\ status = "normal" => ~ Fig!InReview(rs[i])}

Worth(rs, sort, i) == IF sort = "newest" THEN Fig!At(rs[i].on) ELSE rs[i].amt

AheadOf(rs, sort, i, j) ==
    Worth(rs, sort, i) > Worth(rs, sort, j) \/ (Worth(rs, sort, i) = Worth(rs, sort, j) /\ i > j)

ListOrder(rs, status, sort) ==
    {pair \in On(rs, status) \X On(rs, status) : AheadOf(rs, sort, pair[1], pair[2])}

\* How many rows are listed before a row.
RankIn(rs, status, sort, x) == RankOf(ListOrder(rs, status, sort), On(rs, status), x)

LEMMA ListOrdered ==
    ASSUME NEW rs, IdTable(rs), NEW status, NEW sort
    PROVE  /\ On(rs, status) \subseteq DOMAIN rs /\ IsFiniteSet(On(rs, status))
           /\ StrictOrder(ListOrder(rs, status, sort), On(rs, status))
<1> DEFINE S == On(rs, status)
           w == [i \in DOMAIN rs |-> Worth(rs, sort, i)]
<1>1. S \subseteq DOMAIN rs /\ IsFiniteSet(S) /\ DOMAIN rs \subseteq Nat
  BY FS_Subset DEF On, IdTable, IsTable
<1>2. \A i \in DOMAIN rs : w[i] \in Int
  <2> SUFFICES ASSUME NEW i \in DOMAIN rs PROVE Worth(rs, sort, i) \in Int
    OBVIOUS
  <2>1. rs[i] \in Fig!Row
    BY DEF IdTable, IsTable
  <2>2. rs[i].amt \in Int /\ rs[i].on.y \in Int /\ rs[i].on.n \in Int /\ rs[i].on.d \in Int
    BY <2>1, RowIs
  <2>3. Fig!At(rs[i].on) \in Int
    BY <2>2 DEF Fig!At
  <2> QED  BY <2>2, <2>3 DEF Worth
<1>3. \A i, j \in S : <<i, j>> \in ListOrder(rs, status, sort) <=> w[i] > w[j] \/ (w[i] = w[j] /\ i > j)
  BY <1>1 DEF ListOrder, AheadOf
<1> HIDE DEF S, w
<1>4. \A i \in S : w[i] \in Int /\ i \in Int
  BY <1>1, <1>2
<1> DEFINE R == ListOrder(rs, status, sort)
<1> HIDE DEF R
<1>5. \A i \in S : <<i, i>> \notin R
  BY <1>3, <1>4 DEF R
<1>6. ASSUME NEW i \in S, NEW j \in S, NEW k \in S, <<i, j>> \in R, <<j, k>> \in R
      PROVE  <<i, k>> \in R
  <2>1. /\ w[i] > w[j] \/ (w[i] = w[j] /\ i > j)
        /\ w[j] > w[k] \/ (w[j] = w[k] /\ j > k)
    BY <1>3, <1>6 DEF R
  <2>2. w[i] \in Int /\ w[j] \in Int /\ w[k] \in Int /\ i \in Int /\ j \in Int /\ k \in Int
    BY <1>4
  <2>3. w[i] > w[k] \/ (w[i] = w[k] /\ i > k)
    BY <2>1, <2>2
  <2> QED  BY <1>3, <2>3 DEF R
<1>7. ASSUME NEW i \in S, NEW j \in S, i # j PROVE <<i, j>> \in R \/ <<j, i>> \in R
  <2>1. w[i] \in Int /\ w[j] \in Int /\ i \in Int /\ j \in Int
    BY <1>4
  <2>2. w[i] > w[j] \/ (w[i] = w[j] /\ i > j) \/ w[j] > w[i] \/ (w[j] = w[i] /\ j > i)
    BY <1>7, <2>1
  <2> QED  BY <1>3, <2>2 DEF R
<1> QED  BY <1>1, <1>5, <1>6, <1>7 DEF StrictOrder, S, R

LEMMA RanksTyped ==
    ASSUME NEW rs, IdTable(rs), NEW status, NEW sort
    PROVE  /\ \A x \in On(rs, status) : RankIn(rs, status, sort, x) \in Nat
           /\ \A page \in Nat \ {0} : Fig!Offset(page) \in Nat
<1>1. \A x \in On(rs, status) : RankIn(rs, status, sort, x) \in Nat
  <2>1. IsFiniteSet(On(rs, status)) /\ StrictOrder(ListOrder(rs, status, sort), On(rs, status))
    BY ListOrdered
  <2> QED  BY <2>1, RanksRise DEF RankIn
<1>2. \A page \in Nat \ {0} : Fig!Offset(page) \in Nat
  <2>1. PageSize \in Nat
    BY ServicesAssumption
  <2>2. \A m \in Nat : m * PageSize \in Nat
    BY <2>1
  <2> QED  BY <2>2 DEF Fig!Offset
<1> QED  BY <1>1, <1>2

LEMMA ListedIs ==
    ASSUME NEW rs, IdTable(rs), NEW status, NEW sort
    PROVE  /\ DOMAIN Fig!Listed(rs, status) = On(rs, status)
           /\ Lists(Fig!InListOrder(Fig!Listed(rs, status), sort), ListOrder(rs, status, sort), On(rs, status))
<1> DEFINE L == Fig!Listed(rs, status)
           E == On(rs, status)
           R == ListOrder(rs, status, sort)
           above(i, j) == \/ Worth(L, sort, i) > Worth(L, sort, j)
                          \/ Worth(L, sort, i) = Worth(L, sort, j) /\ i > j
           q(S) == [k \in 1..Fig!Cardinality(S) |->
                      CHOOSE x \in S : Fig!Cardinality({y \in S : above(y, x)}) = k - 1]
           pick(k) == CHOOSE x \in E : Fig!Cardinality({y \in E : above(y, x)}) = k - 1
<1>1. L = Kept(rs, E)
  BY DEF Fig!Listed, Fig!Where, Kept, On
<1>2. DOMAIN L = E /\ \A i \in E : Worth(L, sort, i) = Worth(rs, sort, i)
  BY <1>1 DEF Kept, Worth
<1>3. Fig!InListOrder(L, sort) = q(DOMAIN L)
  BY DEF Fig!InListOrder, Fig!Ranked, Worth
<1>4. IsFiniteSet(E) /\ StrictOrder(R, E)
  BY ListOrdered
<1> HIDE DEF L
<1>5. \A x \in E : {y \in E : above(y, x)} = Before(R, E, x)
  BY <1>2 DEF ListOrder, Before, AheadOf
<1> HIDE DEF E, R, above
<1>6. ASSUME NEW k \in 1..Cardinality(E)
      PROVE  pick(k) \in E /\ RankOf(R, E, pick(k)) = k - 1
  <2>1. PICK x \in E : RankOf(R, E, x) = k - 1
    BY <1>4, RanksTaken
  <2>2. Fig!Cardinality({y \in E : above(y, x)}) = k - 1
    BY <1>5, <2>1, FigCounts DEF RankOf
  <2>3. pick(k) \in E /\ Fig!Cardinality({y \in E : above(y, pick(k))}) = k - 1
    BY <2>2
  <2> HIDE DEF pick
  <2> QED  BY <1>5, <2>3, FigCounts DEF RankOf
<1>7. q(E) = [k \in 1..Cardinality(E) |-> pick(k)]
  BY FigCounts
<1> HIDE DEF q, pick
<1>8. Fig!InListOrder(L, sort) = [k \in 1..Cardinality(E) |-> pick(k)]
  BY <1>2, <1>3, <1>7
<1> QED  BY <1>2, <1>6, <1>8 DEF Lists, E, R, L

\* What a page shows, and what the last one leaves.
LEMMA PageShows ==
    ASSUME NEW rs, IdTable(rs), NEW status, NEW sort, NEW page \in Nat \ {0}
    PROVE  LET shown == Fig!Range(Fig!PageOf(Fig!InListOrder(Fig!Listed(rs, status), sort), page))
               rank(x) == RankIn(rs, status, sort, x)
           IN  /\ shown \subseteq On(rs, status)
               /\ \A x \in On(rs, status) : rank(x) >= Fig!Offset(page) =>
                    x \in shown \/ rank(x) >= Fig!Offset(page + 1)
               /\ page >= Fig!Pages(Cardinality(On(rs, status))) =>
                    \A x \in On(rs, status) : rank(x) < Fig!Offset(page + 1)
               /\ Fig!Pages(Cardinality(On(rs, status))) \in Nat
<1> DEFINE E == On(rs, status)
           R == ListOrder(rs, status, sort)
           q == Fig!InListOrder(Fig!Listed(rs, status), sort)
           n == Cardinality(E)
           from == Fig!Offset(page)
           to == Fig!Smaller(from + PageSize, n)
           shown == Fig!Range(Fig!PageOf(q, page))
<1>1. IsFiniteSet(E) /\ StrictOrder(R, E) /\ Lists(q, R, E) /\ PageSize \in Nat \ {0}
  BY ListOrdered, ListedIs, ServicesAssumption
<1>2. n \in Nat /\ q \in [1..n -> E]
  BY <1>1, FS_CardinalityType DEF Lists
<1>3. from \in Nat /\ Fig!Offset(page + 1) = from + PageSize
  <2>1. page - 1 \in Nat /\ (page + 1) - 1 = (page - 1) + 1
    OBVIOUS
  <2>2. \A m \in Nat : m * PageSize \in Nat /\ (m + 1) * PageSize = m * PageSize + PageSize
    BY <1>1
  <2> QED  BY <2>1, <2>2 DEF Fig!Offset
<1>4. ASSUME NEW x \in E
      PROVE  RankIn(rs, status, sort, x) \in 0..(n - 1) /\ q[RankIn(rs, status, sort, x) + 1] = x
  BY <1>1, ListIs, RanksRise DEF RankIn
<1> HIDE DEF from, q, E, R, n
<1>5. shown = {q[k] : k \in (from + 1)..to} /\ to <= n /\ (to = n \/ to = from + PageSize) /\ to \in Int
  <2>1. to <= n /\ (to = n \/ to = from + PageSize) /\ to \in Int
    BY <1>1, <1>2, <1>3 DEF Fig!Smaller
  <2>2. Fig!PageOf(q, page) = SubSeq(q, from + 1, to)
    <3>1. Len(q) = n
      BY <1>2
    <3> QED  BY <3>1 DEF Fig!PageOf, from
  <2> HIDE DEF to
  <2>3. q \in Seq(E)
    BY <1>2
  <2>4. DOMAIN SubSeq(q, from + 1, to) = 1..(to - from)
    BY <1>3, <2>1, <2>3
  <2>5. \A k \in 1..(to - from) : SubSeq(q, from + 1, to)[k] = q[from + k]
    BY <1>3, <2>1, <2>3
  <2>6. \A k \in (from + 1)..to : k - from \in 1..(to - from) /\ from + (k - from) = k
    BY <1>3, <2>1
  <2>7. \A k \in 1..(to - from) : from + k \in (from + 1)..to
    BY <1>3, <2>1
  <2> DEFINE ss == SubSeq(q, from + 1, to)
  <2>8. shown = {ss[k] : k \in 1..(to - from)}
    BY <2>2, <2>4 DEF Fig!Range
  <2>9. \A k \in 1..(to - from) : ss[k] = q[from + k]
    BY <2>5
  <2> HIDE DEF ss, shown
  <2>10. shown = {q[k] : k \in (from + 1)..to}
    <3>1. ASSUME NEW x \in shown PROVE x \in {q[k] : k \in (from + 1)..to}
      BY <2>7, <2>8, <2>9
    <3>2. ASSUME NEW k \in (from + 1)..to PROVE q[k] \in shown
      BY <2>6, <2>8, <2>9
    <3> QED  BY <3>1, <3>2
  <2> QED  BY <2>1, <2>10
<1> HIDE DEF shown, to
<1>6. shown \subseteq E
  BY <1>2, <1>3, <1>5
<1>7. ASSUME NEW x \in E, RankIn(rs, status, sort, x) >= from, ~ (RankIn(rs, status, sort, x) >= from + PageSize)
      PROVE  x \in shown
  <2> DEFINE r == RankIn(rs, status, sort, x)
  <2>1. r \in 0..(n - 1) /\ q[r + 1] = x
    BY <1>4
  <2>2. r >= from /\ ~ (r >= from + PageSize)
    BY <1>7
  <2> HIDE DEF r
  <2>3. r + 1 \in (from + 1)..to
    BY <1>1, <1>2, <1>3, <1>5, <2>1, <2>2
  <2> QED  BY <1>5, <2>1, <2>3
<1>8. Fig!Pages(n) \in Nat /\ (page >= Fig!Pages(n) => n <= from + PageSize)
  <2> DEFINE m == n + PageSize - 1
  <2>1. m \in Nat /\ page + 1 \in Nat /\ Fig!Pages(n) = m \div PageSize
    BY <1>1, <1>2 DEF Fig!Pages
  <2> HIDE DEF m
  <2>2. m \div PageSize \in Nat /\ (m \div PageSize >= page + 1 <=> m >= (page + 1) * PageSize)
    BY <1>1, <2>1, Divided
  <2>3. (page + 1) * PageSize = (page - 1) * PageSize + PageSize + PageSize
    BY <1>1
  <2>4. (page + 1) * PageSize = from + PageSize + PageSize
    BY <2>3 DEF from, Fig!Offset
  <2>5. page >= Fig!Pages(n) => ~ (m >= from + PageSize + PageSize)
    BY <2>1, <2>2, <2>4
  <2> QED  BY <1>1, <1>2, <1>3, <2>1, <2>2, <2>5 DEF m
<1>9. ASSUME page >= Fig!Pages(n), NEW x \in E
      PROVE  RankIn(rs, status, sort, x) < from + PageSize
  BY <1>1, <1>2, <1>3, <1>4, <1>8, <1>9
<1> QED  BY <1>3, <1>6, <1>7, <1>8, <1>9 DEF E, R, q, n, from, shown

-----------------------------------------------------------------------------
(* The invariant of lists and insights being read *)

\* Unless a row moved, what was there when the list was opened is still listed; each
\* of it is shown or comes after the pages that were read; and a reader at the last
\* page has seen all of it.
BrowseStands ==
    browse # Nil =>
        /\ browse.counted => browse.page # 0
        /\ ~ browse.moved =>
             /\ browse.there \subseteq On(figRows, browse.status)
             /\ \A x \in browse.there \ browse.shown :
                  RankIn(figRows, browse.status, browse.sort, x)
                    >= Fig!Offset(IF browse.counted THEN browse.page ELSE browse.page + 1)
             /\ browse.counted => browse.pages = Fig!Pages(Cardinality(On(figRows, browse.status)))
             /\ ~ browse.counted /\ browse.pages # Nil /\ browse.page >= browse.pages
                  => browse.there \subseteq browse.shown

PartStands(kind, k, part) ==
    /\ kind = "insights" => /\ k \in 1..3 => ReportStands(part)
                            /\ k = 4 => LimitsStand(part)
                            /\ k = 5 => part \in Nat
                            /\ k = 6 => SumsStand(part)
    /\ kind = "comparison" => (k \in {3, 4} => NamedSums(part))

\* What was read stands, and unless something was written
\* it still is what would be read.
ReadStands ==
    reading # Nil =>
        /\ reading = [kind |-> reading.kind, month |-> reading.month, got |-> reading.got, quiet |-> reading.quiet]
        /\ \E n \in 1..Fig!Parts(reading.kind) : reading.got = [k \in 1..n |-> reading.got[k]]
        /\ \A k \in DOMAIN reading.got :
             /\ PartStands(reading.kind, k, reading.got[k])
             /\ reading.quiet => reading.got[k] = Fig!Part(reading.kind, k, reading.month)

FigInv == Fig!TypeOK /\ BrowseStands /\ ReadStands

\* Typed rows are a table.
LEMMA TypedRows ==
    ASSUME NEW rs, DOMAIN rs \subseteq 1..MaxTransactions, rs \in [DOMAIN rs -> Transaction]
    PROVE  AllRows(rs) /\ IdTable(rs)
<1>1. /\ \A i \in DOMAIN rs : rs[i] \in Transaction
      /\ Transaction \subseteq Fig!Row /\ MaxTransactions \in Nat
  BY ServicesAssumption
<1>2. IsFiniteSet(DOMAIN rs)
  <2>1. \A n \in Nat : IsFiniteSet(1..n)
    BY FS_Interval
  <2> QED  BY <1>1, <2>1, FS_Subset
<1>3. rs \in [DOMAIN rs -> Fig!Row]
  BY <1>1
<1>4. DOMAIN rs \subseteq Nat
  BY <1>1
<1> QED  BY <1>1, <1>2, <1>3, <1>4 DEF AllRows, IdTable, IsTable

\* The rows of the model are a table.
LEMMA RowsTyped == Fig!TypeOK => AllRows(figRows) /\ IdTable(figRows)
BY TypedRows DEF Fig!TypeOK

\* A sequence with one more.
LEMMA Appended ==
    ASSUME NEW n \in Nat, NEW s, s = [k \in 1..n |-> s[k]], NEW e
    PROVE  /\ Len(s) = n
           /\ Append(s, e) = [k \in 1..(n + 1) |-> IF k = n + 1 THEN e ELSE s[k]]
<1> DEFINE S == {s[k] : k \in 1..n} \cup {e}
<1>1. s \in [1..n -> S]
  OBVIOUS
<1> HIDE DEF S
<1>2. s \in Seq(S) /\ Len(s) = n
  BY <1>1
<1>3. e \in S
  BY DEF S
<1>4. DOMAIN Append(s, e) = 1..(n + 1) /\ Append(s, e) \in Seq(S)
      /\ \A k \in 1..(n + 1) : Append(s, e)[k] = IF k = n + 1 THEN e ELSE s[k]
  BY <1>2, <1>3
<1>5. Append(s, e) = [k \in 1..(n + 1) |-> Append(s, e)[k]]
  BY <1>4
<1> QED  BY <1>2, <1>4, <1>5

\* What is read stands.
LEMMA PartsStand ==
    ASSUME Fig!TypeOK, NEW kind \in {"insights", "comparison"}, NEW k \in 1..Fig!Parts(kind), NEW m \in Month
    PROVE  PartStands(kind, k, Fig!Part(kind, k, m))
<1>1. AllRows(figRows) /\ IsTable(figRows) /\ m \in Fig!Period
  BY RowsTyped, ServicesAssumption DEF AllRows
<1>2. Fig!PreviousMonth(m) \in Fig!Period /\ Fig!PreviousMonth(Fig!PreviousMonth(m)) \in Fig!Period
  BY <1>1, Previous
<1>3. Fig!MonthRead(k, m) \in Fig!Period
  BY <1>1, <1>2 DEF Fig!MonthRead
<1>4. CASE kind = "insights"
  <2>1. CASE k \in 1..3
    <3>1. Fig!Part(kind, k, m) = Fig!Report(figRows, Fig!MonthRead(k, m))
      BY <1>4, <2>1 DEF Fig!Part, Fig!InsightPart
    <3> QED  BY <1>1, <1>3, <1>4, <2>1, <3>1, ReportsStand DEF PartStands
  <2>2. CASE k = 4
    <3>1. Fig!Part(kind, k, m) = Fig!Limits(budgets, m)
      BY <1>4, <2>2 DEF Fig!Part, Fig!InsightPart
    <3>2. LimitsStand(Fig!Limits(budgets, m))
      BY FigFinite, LimitsRead DEF Fig!TypeOK
    <3> QED  BY <1>4, <2>2, <3>1, <3>2 DEF PartStands
  <2>3. CASE k = 5
    <3>1. Fig!Part(kind, k, m) = Fig!SpentFor(Fig!InMonth(figRows, m), Nil)
      BY <1>4, <2>3 DEF Fig!Part, Fig!InsightPart
    <3> QED  BY <1>1, <1>4, <2>3, <3>1, SpentForTyped DEF PartStands
  <2>4. CASE k = 6
    <3>1. Fig!Part(kind, k, m) = Fig!SpentByCategory(Fig!InMonth(figRows, m))
      BY <1>4, <2>4 DEF Fig!Part, Fig!InsightPart
    <3> QED  BY <1>1, <1>4, <2>4, <3>1, CategoriesRead DEF PartStands
  <2> QED  BY <1>4, <2>1, <2>2, <2>3, <2>4 DEF Fig!Parts
<1>5. CASE kind = "comparison"
  <2> SUFFICES ASSUME k \in {3, 4} PROVE NamedSums(Fig!Part(kind, k, m))
    BY <1>5 DEF PartStands
  <2>1. Fig!Part(kind, k, m) \in {Fig!SpentByName(figRows, m), Fig!SpentByName(figRows, Fig!PreviousMonth(m))}
    BY <1>5 DEF Fig!Part, Fig!ComparisonPart
  <2> QED  BY <1>1, <1>2, <2>1, SumsByName
<1> QED  BY <1>4, <1>5

-----------------------------------------------------------------------------
(* The invariant says what is asked *)

\* What has been read stands.
LEMMA GotAll ==
    ASSUME FigInv, NEW kind \in {"insights", "comparison"}, Fig!AllRead(kind)
    PROVE  /\ reading.month \in Month
           /\ \A k \in 1..Fig!Parts(kind) :
                /\ PartStands(kind, k, reading.got[k])
                /\ reading.quiet => reading.got[k] = Fig!Part(kind, k, reading.month)
<1> DEFINE s == reading.got
           last == Fig!Parts(kind)
<1>1. reading # Nil /\ reading.kind = kind /\ Len(s) = last /\ last \in Nat
  BY DEF Fig!AllRead, Fig!Parts
<1>2. PICK n \in 1..last : s = [k \in 1..n |-> s[k]]
  BY <1>1 DEF FigInv, ReadStands
<1>3. n = last
  <2> HIDE DEF s, last
  <2>1. Len(s) = n
    BY <1>1, <1>2, Appended
  <2> QED  BY <1>1, <2>1
<1>4. DOMAIN s = 1..last
  <2> HIDE DEF last
  <2> QED  BY <1>2, <1>3
<1>5. reading.month \in Month
  BY <1>1 DEF FigInv, Fig!TypeOK
<1> QED  BY <1>1, <1>4, <1>5 DEF FigInv, ReadStands

\* The budgets of insights stand, and the overall one has spent the total.
LEMMA ItemsRead ==
    ASSUME FigInv, Fig!AllRead("insights")
    PROVE  /\ ReportStands(reading.got[1]) /\ ItemsStand(Fig!ShownItems)
           /\ \A b \in Fig!ShownItems : b.scope = Nil => b.spent = reading.got[5]
<1>1. \A k \in 1..6 : PartStands("insights", k, reading.got[k])
  BY GotAll DEF Fig!Parts
<1>2. /\ ReportStands(reading.got[1]) /\ LimitsStand(reading.got[4])
      /\ reading.got[5] \in Nat /\ SumsStand(reading.got[6])
  <2>1. PartStands("insights", 1, reading.got[1]) /\ PartStands("insights", 4, reading.got[4])
        /\ PartStands("insights", 5, reading.got[5]) /\ PartStands("insights", 6, reading.got[6])
    BY <1>1
  <2> QED  BY <2>1 DEF PartStands
<1> QED  BY <1>2, BudgetsStand DEF Fig!ShownItems

\* The cards agree with the reports and budgets they were made from.
LEMMA CardsHold ==
    ASSUME FigInv
    PROVE  Fig!CardsAreConsistent
<1> SUFFICES ASSUME Fig!AllRead("insights")
             PROVE  CardsRight(reading.got[1], Fig!ShownCards)
  BY DEF Fig!CardsAreConsistent, CardsRight
<1> QED  BY ItemsRead, CardsConsistent DEF Fig!ShownCards

\* Without a write in between they agree with the summaries of the two months.
LEMMA QuietAgrees ==
    ASSUME FigInv
    PROVE  Fig!QuietInsightsAgree
<1> DEFINE m == reading.month
           p == Fig!PreviousMonth(m)
           got == reading.got
           spent(x) == Fig!Summary(figRows, Fig!FirstDay(x), Fig!LastDay(x)).expenses
<1> SUFFICES ASSUME Fig!AllRead("insights"), reading.quiet
             PROVE  \A card \in Fig!ShownCards :
                         /\ card.kind = "expense_change" => card.evidence[1] = spent(m) - spent(p)
                         /\ card.kind = "cash_flow" =>
                              /\ card.evidence[2] = spent(m)
                              /\ \A b \in Fig!ShownItems : b.scope = Nil => b.spent = card.evidence[2]
  BY DEF Fig!QuietInsightsAgree
<1>1. m \in Fig!Period /\ p \in Fig!Period /\ IsTable(figRows)
  <2>1. m \in Month
    BY GotAll
  <2> QED  BY <2>1, Previous, RowsTyped, ServicesAssumption DEF FigInv, AllRows
<1>2. got[1] = Fig!Report(figRows, m) /\ got[2] = Fig!Report(figRows, p)
      /\ got[5] = Fig!SpentFor(Fig!InMonth(figRows, m), Nil)
  <2>1. \A k \in 1..6 : got[k] = Fig!Part("insights", k, m)
    BY GotAll DEF Fig!Parts
  <2>2. \A k \in 1..6 : Fig!Part("insights", k, m) = Fig!InsightPart(k, m)
    BY DEF Fig!Part
  <2>3. /\ Fig!InsightPart(1, m) = Fig!Report(figRows, m) /\ Fig!InsightPart(2, m) = Fig!Report(figRows, p)
        /\ Fig!InsightPart(5, m) = Fig!SpentFor(Fig!InMonth(figRows, m), Nil)
    BY DEF Fig!InsightPart, Fig!MonthRead
  <2> HIDE DEF got, m, p
  <2> QED  BY <2>1, <2>2, <2>3
<1>3. \A b \in Fig!ShownItems : b.scope = Nil => b.spent = got[5]
  BY ItemsRead
<1>6. \A card \in Fig!ShownCards :
        /\ card.kind = "expense_change" => card.evidence[1] = got[1].expenses - got[2].expenses
        /\ card.kind = "cash_flow" => card.evidence[2] = got[1].expenses
  BY CardsAre DEF Fig!ShownCards, got
<1> HIDE DEF m, p, got
<1>4. /\ got[1].expenses = spent(m) /\ got[2].expenses = spent(p) /\ got[5] = got[1].expenses
  <2>1. got[1].expenses = Amount(figRows, Kind(figRows, m, "expense"))
        /\ got[2].expenses = Amount(figRows, Kind(figRows, p, "expense"))
        /\ got[5] = Amount(figRows, Kind(figRows, m, "expense"))
    BY <1>1, <1>2, ReportIs
  <2> QED  BY <1>1, <2>1, SummaryIsReport, ReportIs
<1> HIDE DEF spent
<1> QED  BY <1>3, <1>4, <1>6

\* The changes of a comparison that was read explain its difference.
LEMMA ComparisonExplains ==
    ASSUME FigInv
    PROVE  Fig!ChangesExplainDifference
<1> DEFINE m == reading.month
           p == Fig!PreviousMonth(m)
           got == reading.got
           c == Fig!ShownComparison
           delta(name) == Fig!Delta(got[3], got[4], name)
           shown == {c.changes[k].name : k \in DOMAIN c.changes}
           hidden == {cat.name : cat \in Fig!Category} \ shown
           sum == Fig!SumFunction([name \in shown |-> delta(name)])
                    + Fig!SumFunction([name \in hidden |-> delta(name)])
<1> SUFFICES ASSUME Fig!AllRead("comparison")
             PROVE  /\ reading.quiet =>
                         /\ sum = c.difference
                         /\ c.difference = Fig!Report(figRows, m).expenses - Fig!Report(figRows, p).expenses
                    /\ \A h \in hidden, s \in shown : Fig!Apart(delta(h), 0) <= Fig!Apart(delta(s), 0)
                    /\ (\E h \in hidden : delta(h) # 0) => Len(c.changes) = CategoryLimit
  BY DEF Fig!ChangesExplainDifference
<1>1. m \in Fig!Period /\ p \in Fig!Period /\ IsTable(figRows) /\ AllRows(figRows)
  <2>1. m \in Month
    BY GotAll
  <2> QED  BY <2>1, Previous, RowsTyped, ServicesAssumption DEF FigInv, AllRows
<1>2. \A k \in {1, 2, 3, 4} : PartStands("comparison", k, got[k])
  BY GotAll DEF Fig!Parts
<1>6. reading.quiet => \A k \in {1, 2, 3, 4} : got[k] = Fig!Part("comparison", k, m)
  BY GotAll DEF Fig!Parts
<1>3. NamedSums(got[3]) /\ NamedSums(got[4])
  <2> HIDE DEF got
  <2>1. PartStands("comparison", 3, got[3]) /\ PartStands("comparison", 4, got[4])
    BY <1>2
  <2> QED  BY <2>1 DEF PartStands
<1>4. /\ c.difference = got[2] - got[1]
      /\ sum = SumOver([name \in CategoryName |-> Fig!Had(got[4], name)])
                 - SumOver([name \in CategoryName |-> Fig!Had(got[3], name)])
      /\ \A h \in hidden, s \in shown : Fig!Apart(delta(h), 0) <= Fig!Apart(delta(s), 0)
      /\ (\E h \in hidden : delta(h) # 0) => Len(c.changes) = CategoryLimit
  <2>1. c = Fig!Compared(got[1], got[2], got[3], got[4])
    BY DEF Fig!ShownComparison
  <2>2. Explained(Fig!Compared(got[1], got[2], got[3], got[4]), got[1], got[2], got[3], got[4])
    <3> HIDE DEF got
    <3> QED  BY <1>3, ChangesExplain
  <2>3. Explained(c, got[1], got[2], got[3], got[4])
    BY <2>1, <2>2
  <2> HIDE DEF c, got
  <2> QED  BY <2>3 DEF Explained
<1>5. ASSUME reading.quiet
      PROVE  /\ sum = c.difference
             /\ c.difference = Fig!Report(figRows, m).expenses - Fig!Report(figRows, p).expenses
  <2>1. /\ got[1] = Fig!ComparisonPart(1, m) /\ got[2] = Fig!ComparisonPart(2, m)
        /\ got[3] = Fig!ComparisonPart(3, m) /\ got[4] = Fig!ComparisonPart(4, m)
    <3>1. \A k \in {1, 2, 3, 4} : got[k] = Fig!Part("comparison", k, m)
      BY <1>5, <1>6
    <3>2. \A k \in {1, 2, 3, 4} : Fig!Part("comparison", k, m) = Fig!ComparisonPart(k, m)
      BY DEF Fig!Part
    <3> HIDE DEF got, m
    <3> QED  BY <3>1, <3>2
  <2>2. /\ Fig!ComparisonPart(1, m) = Fig!Summary(figRows, Fig!FirstDay(p), Fig!LastDay(p)).expenses
        /\ Fig!ComparisonPart(2, m) = Fig!Summary(figRows, Fig!FirstDay(m), Fig!LastDay(m)).expenses
        /\ Fig!ComparisonPart(3, m) = Fig!SpentByName(figRows, p)
        /\ Fig!ComparisonPart(4, m) = Fig!SpentByName(figRows, m)
    BY DEF Fig!ComparisonPart
  <2> HIDE DEF m, p, got, c, sum
  <2>3. /\ got[1] = Amount(figRows, Kind(figRows, p, "expense"))
        /\ got[2] = Amount(figRows, Kind(figRows, m, "expense"))
    BY <1>1, <2>1, <2>2, SummaryIsReport
  <2>4. /\ Fig!Report(figRows, m).expenses = Amount(figRows, Kind(figRows, m, "expense"))
        /\ Fig!Report(figRows, p).expenses = Amount(figRows, Kind(figRows, p, "expense"))
    BY <1>1, ReportIs
  <2>5. /\ [name \in CategoryName |-> Fig!Had(got[3], name)]
             = [name \in CategoryName |-> Amount(figRows, OnName(figRows, p, name))]
        /\ [name \in CategoryName |-> Fig!Had(got[4], name)]
             = [name \in CategoryName |-> Amount(figRows, OnName(figRows, m, name))]
    BY <1>1, <2>1, <2>2, SumsByName
  <2>6. /\ SumOver([name \in CategoryName |-> Amount(figRows, OnName(figRows, p, name))])
             = Amount(figRows, Kind(figRows, p, "expense"))
        /\ SumOver([name \in CategoryName |-> Amount(figRows, OnName(figRows, m, name))])
             = Amount(figRows, Kind(figRows, m, "expense"))
    BY <1>1, NamesAddUp
  <2> QED  BY <1>4, <2>3, <2>4, <2>5, <2>6
<1> QED  BY <1>4, <1>5

\* The invariant gives what is asked.
LEMMA FiguresHold == FigInv => Fig!FiguresAgree
<1> SUFFICES ASSUME FigInv PROVE Fig!FiguresAgree
  OBVIOUS
<1>1. AllRows(figRows)
  BY RowsTyped DEF FigInv
<1>2. Fig!PagingSkipsNothing
  BY DEF FigInv, BrowseStands, Fig!PagingSkipsNothing
<1> QED  BY <1>1, <1>2, MonthlyFigures, ComparisonExplains, CardsHold, QuietAgrees DEF FigInv, Fig!FiguresAgree

-----------------------------------------------------------------------------
(* Writes *)

BrowseSet ==
    [status : {"all", "review", "normal"}, sort : {"newest", "dearest"}, page : Nat,
     pages : Nat \cup {Nil}, counted : BOOLEAN, shown : SUBSET (1..MaxTransactions),
     there : SUBSET (1..MaxTransactions), moved : BOOLEAN]

ReadTyped ==
    reading # Nil => /\ reading.kind \in {"insights", "comparison"} /\ reading.month \in Month
                     /\ Len(reading.got) \in 1..Fig!Parts(reading.kind) /\ reading.quiet \in BOOLEAN

\* What a write leaves to the readers.
LEMMA ReadersNoticed ==
    ASSUME FigInv, NEW moved \in BOOLEAN, Fig!Noticed(moved)
    PROVE  /\ browse' # Nil => /\ browse # Nil /\ browse' \in BrowseSet
                               /\ ~ browse'.moved => ~ moved /\ ~ browse.counted /\ browse' = browse
           /\ ReadTyped'
           /\ figCount' \in 0..MaxTxWrites
           /\ ReadStands'
<1>1. /\ figCount < MaxTxWrites /\ figCount' = figCount + 1
      /\ browse' = IF browse = Nil THEN Nil ELSE [browse EXCEPT !.moved = @ \/ moved \/ browse.counted]
      /\ reading' = IF reading = Nil THEN Nil ELSE [reading EXCEPT !.quiet = FALSE]
  BY DEF Fig!Noticed
<1>2. /\ browse # Nil => browse \in BrowseSet
      /\ ReadTyped
      /\ figCount \in 0..MaxTxWrites /\ MaxTxWrites \in Nat
  BY ServicesAssumption DEF FigInv, Fig!TypeOK, BrowseSet, ReadTyped
<1>3. browse' # Nil => /\ browse # Nil /\ browse' \in BrowseSet
                       /\ ~ browse'.moved => ~ moved /\ ~ browse.counted /\ browse' = browse
  <2> SUFFICES ASSUME browse' # Nil
               PROVE  /\ browse # Nil /\ browse' \in BrowseSet
                      /\ ~ browse'.moved => ~ moved /\ ~ browse.counted /\ browse' = browse
    OBVIOUS
  <2>1. browse # Nil /\ browse' = [browse EXCEPT !.moved = browse.moved \/ moved \/ browse.counted]
        /\ browse \in BrowseSet
    BY <1>1, <1>2
  <2>2. browse' \in BrowseSet /\ browse'.moved = (browse.moved \/ moved \/ browse.counted)
        /\ browse.moved \in BOOLEAN /\ browse.counted \in BOOLEAN
    BY <2>1 DEF BrowseSet
  <2>3. ASSUME ~ browse'.moved PROVE ~ moved /\ ~ browse.counted /\ browse.moved = FALSE
    BY <2>2, <2>3
  <2>4. ASSUME ~ browse'.moved PROVE browse' = browse
    <3>1. browse' = [browse EXCEPT !.moved = FALSE] /\ browse.moved = FALSE
      <4>1. (browse.moved \/ moved \/ browse.counted) = FALSE
        BY <2>3, <2>4
      <4> QED  BY <2>1, <2>3, <2>4, <4>1
    <3> QED  BY <2>1, <3>1 DEF BrowseSet
  <2> QED  BY <2>1, <2>2, <2>3, <2>4
<1>4. ASSUME reading' # Nil
      PROVE  /\ reading # Nil /\ reading'.kind = reading.kind /\ reading'.month = reading.month
             /\ reading'.got = reading.got /\ reading'.quiet = FALSE
             /\ reading' = [kind |-> reading'.kind, month |-> reading'.month, got |-> reading'.got,
                            quiet |-> reading'.quiet]
  <2>1. reading # Nil /\ reading' = [reading EXCEPT !.quiet = FALSE]
        /\ reading = [kind |-> reading.kind, month |-> reading.month, got |-> reading.got, quiet |-> reading.quiet]
    BY <1>1, <1>4 DEF FigInv, ReadStands
  <2>2. reading' = [kind |-> reading.kind, month |-> reading.month, got |-> reading.got, quiet |-> FALSE]
    BY <2>1
  <2> QED  BY <2>1, <2>2
<1>5. ReadStands'
  <2> SUFFICES ASSUME reading' # Nil
               PROVE  /\ reading' = [kind |-> reading'.kind, month |-> reading'.month, got |-> reading'.got,
                                     quiet |-> reading'.quiet]
                      /\ \E n \in 1..Fig!Parts(reading'.kind) : reading'.got = [k \in 1..n |-> reading'.got[k]]
                      /\ \A k \in DOMAIN reading'.got :
                           /\ PartStands(reading'.kind, k, reading'.got[k])
                           /\ reading'.quiet => reading'.got[k] = Fig!Part(reading.kind, k, reading.month)'
    BY DEF ReadStands
  <2>1. /\ \E n \in 1..Fig!Parts(reading.kind) : reading.got = [k \in 1..n |-> reading.got[k]]
        /\ \A k \in DOMAIN reading.got : PartStands(reading.kind, k, reading.got[k])
    BY <1>4 DEF FigInv, ReadStands
  <2> QED  BY <1>4, <2>1
<1>6. figCount' \in 0..MaxTxWrites
  BY <1>1, <1>2
<1>7. ReadTyped'
  BY <1>2, <1>4 DEF ReadTyped
<1> QED  BY <1>3, <1>5, <1>6, <1>7

\* A write after which rows and budgets are typed keeps the invariant, if it moves
\* rows or leaves what was listed where it was.
LEMMA Written ==
    ASSUME FigInv, NEW moved \in BOOLEAN, Fig!Noticed(moved),
           DOMAIN figRows' \subseteq 1..MaxTransactions, figRows' \in [DOMAIN figRows' -> Transaction],
           IsFiniteSet(DOMAIN budgets'), budgets' \in [DOMAIN budgets' -> Limit],
           DOMAIN budgets' \subseteq [month : Month, scope : Fig!Category \cup {Nil}],
           ~ moved => \A status, sort :
             /\ On(figRows, status) \subseteq On(figRows', status)
             /\ \A x \in On(figRows, status) :
                  RankIn(figRows', status, sort, x) >= RankIn(figRows, status, sort, x)
    PROVE  FigInv'
<1>1. /\ browse' # Nil => /\ browse # Nil /\ browse' \in BrowseSet
                          /\ ~ browse'.moved => ~ moved /\ ~ browse.counted /\ browse' = browse
      /\ ReadTyped'
      /\ figCount' \in 0..MaxTxWrites
      /\ ReadStands'
  BY ReadersNoticed
<1>2. Fig!TypeOK'
  BY <1>1, FigFinite DEF Fig!TypeOK, BrowseSet, ReadTyped
<1>3. BrowseStands'
  <2> SUFFICES ASSUME browse' # Nil, ~ browse'.moved
               PROVE  /\ browse'.there \subseteq On(figRows', browse'.status)
                      /\ \A x \in browse'.there \ browse'.shown :
                           RankIn(figRows', browse'.status, browse'.sort, x) >= Fig!Offset(browse'.page + 1)
                      /\ ~ browse'.counted
                      /\ browse'.pages # Nil /\ browse'.page >= browse'.pages
                           => browse'.there \subseteq browse'.shown
    <3>1. ASSUME browse' # Nil, browse'.moved PROVE browse'.counted => browse'.page # 0
      <4>1. browse # Nil /\ browse \in BrowseSet
            /\ browse' = [browse EXCEPT !.moved = @ \/ moved \/ browse.counted]
        BY <1>1, <3>1 DEF FigInv, Fig!TypeOK, Fig!Noticed, BrowseSet
      <4>2. browse'.counted = browse.counted /\ browse'.page = browse.page
        BY <4>1 DEF BrowseSet
      <4> QED  BY <4>1, <4>2 DEF FigInv, BrowseStands
    <3> QED  BY <3>1 DEF BrowseStands
  <2>1. browse # Nil /\ browse' = browse /\ ~ moved /\ ~ browse.counted /\ browse \in BrowseSet
    BY <1>1
  <2>2. /\ browse.there \subseteq On(figRows, browse.status)
        /\ \A x \in browse.there \ browse.shown :
             RankIn(figRows, browse.status, browse.sort, x) >= Fig!Offset(browse.page + 1)
        /\ browse.pages # Nil /\ browse.page >= browse.pages => browse.there \subseteq browse.shown
    BY <2>1 DEF FigInv, BrowseStands
  <2>3. IdTable(figRows) /\ IdTable(figRows')
    BY RowsTyped, TypedRows DEF FigInv
  <2> DEFINE old(x) == RankIn(figRows, browse.status, browse.sort, x)
             new(x) == RankIn(figRows', browse.status, browse.sort, x)
             from == Fig!Offset(browse.page + 1)
  <2>4. from \in Nat
    <3>1. browse.page + 1 \in Nat \ {0}
      BY <2>1 DEF BrowseSet
    <3> QED  BY <2>3, <3>1, RanksTyped
  <2>5. \A x \in On(figRows, browse.status) : /\ old(x) \in Nat /\ new(x) \in Nat /\ new(x) >= old(x)
                                              /\ x \in On(figRows', browse.status)
    BY <2>1, <2>3, RanksTyped
  <2>6. \A x \in browse.there \ browse.shown : old(x) >= from
    BY <2>2
  <2> HIDE DEF old, new, from
  <2>7. browse.there \subseteq On(figRows', browse.status)
        /\ \A x \in browse.there \ browse.shown : new(x) >= from
    BY <2>2, <2>4, <2>5, <2>6
  <2> QED  BY <2>1, <2>2, <2>7 DEF new, from
<1> QED  BY <1>1, <1>2, <1>3 DEF FigInv

\* New rows may only come before others.
LEMMA MoreRows ==
    ASSUME NEW rs, IdTable(rs), NEW more, IdTable(more), DOMAIN rs \subseteq DOMAIN more,
           \A i \in DOMAIN rs : more[i] = rs[i], NEW status, NEW sort
    PROVE  /\ On(rs, status) \subseteq On(more, status)
           /\ \A x \in On(rs, status) : RankIn(more, status, sort, x) >= RankIn(rs, status, sort, x)
<1>1. On(rs, status) \subseteq On(more, status)
  BY DEF On
<1>2. ASSUME NEW x \in On(rs, status) PROVE RankIn(more, status, sort, x) >= RankIn(rs, status, sort, x)
  <2> DEFINE B == Before(ListOrder(rs, status, sort), On(rs, status), x)
             M == Before(ListOrder(more, status, sort), On(more, status), x)
  <2>1. \A i \in On(rs, status) : Worth(more, sort, i) = Worth(rs, sort, i)
    BY DEF Worth, On
  <2>2. B \subseteq M
    BY <1>1, <2>1 DEF Before, ListOrder, AheadOf
  <2>3. IsFiniteSet(M)
    <3>1. M \subseteq On(more, status) /\ IsFiniteSet(On(more, status))
      BY ListOrdered DEF Before
    <3> HIDE DEF M
    <3> QED  BY <3>1, FS_Subset
  <2> HIDE DEF B, M
  <2>4. Cardinality(B) <= Cardinality(M) /\ Cardinality(B) \in Nat /\ Cardinality(M) \in Nat
    BY <2>2, <2>3, FS_Subset, FS_CardinalityType
  <2>5. RankIn(rs, status, sort, x) = Cardinality(B) /\ RankIn(more, status, sort, x) = Cardinality(M)
    BY DEF RankIn, RankOf, B, M
  <2> QED  BY <2>4, <2>5
<1> QED  BY <1>1, <1>2

\* max(id) + 1 is a new number.
LEMMA NextId ==
    ASSUME NEW D \in SUBSET Nat, IsFiniteSet(D)
    PROVE  LET i == Fig!Max({0} \cup D) + 1 IN i \in Nat \ {0} /\ i \notin D
<1> DEFINE S == {0} \cup D
           m == Fig!Max(S)
<1>1. S \in SUBSET Nat /\ S # {} /\ IsFiniteSet(S) /\ D \subseteq S
  <2>1. IsFiniteSet(D \cup {0})
    BY FS_AddElement
  <2>2. S = D \cup {0}
    OBVIOUS
  <2> QED  BY <2>1, <2>2
<1> HIDE DEF S
<1>2. m \in S /\ \A y \in S : m >= y
  <2>1. \E x \in S : \A y \in S : x >= y
    BY <1>1, FiniteGreatest
  <2> QED  BY <2>1 DEF Fig!Max
<1> HIDE DEF m
<1>3. m \in Nat /\ \A y \in D : y \in Nat /\ m >= y
  BY <1>1, <1>2
<1>4. m + 1 \in Nat \ {0} /\ m + 1 \notin D
  BY <1>3
<1> QED  BY <1>4 DEF m, S

\* A new row moves none that a reader was shown.
LEMMA CreateKeeps ==
    ASSUME FigInv, NEW row \in Transaction, Fig!Create(row)
    PROVE  FigInv'
<1> DEFINE i == Fig!Max({0} \cup DOMAIN figRows) + 1
<1>1. /\ i <= MaxTransactions /\ Fig!Noticed(FALSE) /\ budgets' = budgets
      /\ figRows' = [j \in DOMAIN figRows \cup {i} |-> IF j = i THEN row ELSE figRows[j]]
  BY DEF Fig!Create, Fig!Write
<1>2. /\ DOMAIN figRows \subseteq 1..MaxTransactions /\ figRows \in [DOMAIN figRows -> Transaction]
      /\ IsFiniteSet(DOMAIN budgets) /\ budgets \in [DOMAIN budgets -> Limit]
      /\ DOMAIN budgets \subseteq [month : Month, scope : Fig!Category \cup {Nil}]
      /\ IdTable(figRows) /\ MaxTransactions \in Nat
  BY RowsTyped, FigFinite, ServicesAssumption DEF FigInv, Fig!TypeOK
<1>3. i \in Nat \ {0} /\ i \notin DOMAIN figRows
  BY <1>2, NextId DEF IdTable, IsTable
<1> HIDE DEF i
<1>4. /\ DOMAIN figRows' \subseteq 1..MaxTransactions /\ figRows' \in [DOMAIN figRows' -> Transaction]
      /\ DOMAIN figRows \subseteq DOMAIN figRows' /\ \A j \in DOMAIN figRows : figRows'[j] = figRows[j]
  BY <1>1, <1>2, <1>3
<1>5. IdTable(figRows')
  BY <1>4, TypedRows
<1>6. \A status, sort : /\ On(figRows, status) \subseteq On(figRows', status)
                        /\ \A x \in On(figRows, status) :
                             RankIn(figRows', status, sort, x) >= RankIn(figRows, status, sort, x)
  BY <1>2, <1>4, <1>5, MoreRows
<1> QED  BY <1>1, <1>2, <1>4, <1>6, Written

\* A changed row may move others.
LEMMA UpdateKeeps ==
    ASSUME FigInv, NEW i, NEW row \in Transaction, Fig!Update(i, row)
    PROVE  FigInv'
<1>1. /\ i \in DOMAIN figRows /\ Fig!Noticed(TRUE) /\ budgets' = budgets
      /\ figRows' = [j \in DOMAIN figRows \cup {i} |-> IF j = i THEN row ELSE figRows[j]]
  BY DEF Fig!Update, Fig!Write
<1>2. /\ DOMAIN figRows \subseteq 1..MaxTransactions /\ figRows \in [DOMAIN figRows -> Transaction]
      /\ IsFiniteSet(DOMAIN budgets) /\ budgets \in [DOMAIN budgets -> Limit]
      /\ DOMAIN budgets \subseteq [month : Month, scope : Fig!Category \cup {Nil}]
  BY FigFinite DEF FigInv, Fig!TypeOK
<1>3. DOMAIN figRows' \subseteq 1..MaxTransactions /\ figRows' \in [DOMAIN figRows' -> Transaction]
  BY <1>1, <1>2
<1> QED  BY <1>1, <1>2, <1>3, Written

\* So may a deleted one.
LEMMA DeleteKeeps ==
    ASSUME FigInv, NEW i, Fig!Delete(i)
    PROVE  FigInv'
<1>1. /\ Fig!Noticed(TRUE) /\ budgets' = budgets
      /\ figRows' = [j \in DOMAIN figRows \ {i} |-> figRows[j]]
  BY DEF Fig!Delete
<1>2. /\ DOMAIN figRows \subseteq 1..MaxTransactions /\ figRows \in [DOMAIN figRows -> Transaction]
      /\ IsFiniteSet(DOMAIN budgets) /\ budgets \in [DOMAIN budgets -> Limit]
      /\ DOMAIN budgets \subseteq [month : Month, scope : Fig!Category \cup {Nil}]
  BY FigFinite DEF FigInv, Fig!TypeOK
<1>3. DOMAIN figRows' \subseteq 1..MaxTransactions /\ figRows' \in [DOMAIN figRows' -> Transaction]
  BY <1>1, <1>2
<1> QED  BY <1>1, <1>2, <1>3, Written

\* A write that leaves the rows leaves the lists.
LEMMA SameRows ==
    ASSUME FigInv, Fig!Noticed(FALSE), figRows' = figRows,
           IsFiniteSet(DOMAIN budgets'), budgets' \in [DOMAIN budgets' -> Limit],
           DOMAIN budgets' \subseteq [month : Month, scope : Fig!Category \cup {Nil}]
    PROVE  FigInv'
<1>1. /\ DOMAIN figRows \subseteq 1..MaxTransactions /\ figRows \in [DOMAIN figRows -> Transaction]
      /\ IdTable(figRows)
  BY RowsTyped DEF FigInv, Fig!TypeOK
<1>2. \A status, sort : /\ On(figRows, status) \subseteq On(figRows', status)
                        /\ \A x \in On(figRows, status) :
                             RankIn(figRows', status, sort, x) >= RankIn(figRows, status, sort, x)
  BY <1>1, MoreRows
<1> QED  BY <1>1, <1>2, Written

\* Writing budgets.
LEMMA BudgetKeeps ==
    ASSUME FigInv
    PROVE  /\ \A m \in Month, scope \in Fig!Category \cup {Nil}, limit \in Limit :
                Fig!SetBudget(m, scope, limit) => FigInv'
           /\ \A b : Fig!DeleteBudget(b) => FigInv'
<1>1. /\ IsFiniteSet(DOMAIN budgets) /\ budgets \in [DOMAIN budgets -> Limit]
      /\ DOMAIN budgets \subseteq [month : Month, scope : Fig!Category \cup {Nil}]
  BY FigFinite DEF FigInv, Fig!TypeOK
<1>2. ASSUME NEW m \in Month, NEW scope \in Fig!Category \cup {Nil}, NEW limit \in Limit,
             Fig!SetBudget(m, scope, limit)
      PROVE  FigInv'
  <2> DEFINE b == [month |-> m, scope |-> scope]
  <2>1. /\ Fig!Noticed(FALSE) /\ figRows' = figRows
        /\ budgets' = [c \in DOMAIN budgets \cup {b} |-> IF c = b THEN limit ELSE budgets[c]]
    BY <1>2 DEF Fig!SetBudget
  <2>2. b \in [month : Month, scope : Fig!Category \cup {Nil}]
    OBVIOUS
  <2> HIDE DEF b
  <2>3. IsFiniteSet(DOMAIN budgets \cup {b})
    BY <1>1, FS_AddElement
  <2>4. DOMAIN budgets' = DOMAIN budgets \cup {b} /\ budgets' \in [DOMAIN budgets' -> Limit]
    BY <1>1, <2>1
  <2> QED  BY <1>1, <2>1, <2>2, <2>3, <2>4, SameRows
<1>3. ASSUME NEW b, Fig!DeleteBudget(b) PROVE FigInv'
  <2>1. /\ Fig!Noticed(FALSE) /\ figRows' = figRows
        /\ budgets' = [c \in DOMAIN budgets \ {b} |-> budgets[c]]
    BY <1>3 DEF Fig!DeleteBudget
  <2>2. IsFiniteSet(DOMAIN budgets \ {b})
    BY <1>1, FS_Subset
  <2>3. DOMAIN budgets' = DOMAIN budgets \ {b} /\ budgets' \in [DOMAIN budgets' -> Limit]
    BY <1>1, <2>1
  <2> QED  BY <1>1, <2>1, <2>2, <2>3, SameRows
<1> QED  BY <1>2, <1>3

-----------------------------------------------------------------------------
(* Reads *)

\* A step of a reader of a list.
LEMMA Browsed ==
    ASSUME FigInv, UNCHANGED <<figRows, budgets, reading, figCount>>,
           browse' \in BrowseSet, BrowseStands'
    PROVE  FigInv'
<1>1. Fig!TypeOK'
  BY DEF FigInv, Fig!TypeOK, BrowseSet
<1>2. ReadStands'
  <2>1. \A kind, k, m : Fig!Part(kind, k, m)' = Fig!Part(kind, k, m)
    BY DEF Fig!Part, Fig!InsightPart, Fig!ComparisonPart
  <2> QED  BY <2>1 DEF FigInv, ReadStands
<1> QED  BY <1>1, <1>2 DEF FigInv

\* Counting the pages before the next is read.
LEMMA CountKeeps == FigInv /\ Fig!Count => FigInv'
<1> SUFFICES ASSUME FigInv, Fig!Count PROVE FigInv'
  OBVIOUS
<1> DEFINE E == On(figRows, browse.status)
<1>1. /\ browse # Nil /\ ~ browse.counted /\ browse \in BrowseSet
      /\ UNCHANGED <<figRows, budgets, reading, figCount>>
      /\ browse' = [browse EXCEPT !.counted = TRUE, !.page = browse.page + 1, !.pages = Fig!Pages(Cardinality(E))]
  <2>1. DOMAIN Fig!Listed(figRows, browse.status) = E
    BY RowsTyped, ListedIs DEF FigInv
  <2> QED  BY <2>1, FigCounts DEF FigInv, Fig!TypeOK, Fig!Count, BrowseSet
<1>2. IdTable(figRows)
  BY RowsTyped DEF FigInv
<1>3. Fig!Pages(Cardinality(E)) \in Nat
  <2>1. 1 \in Nat \ {0}
    OBVIOUS
  <2> QED  BY <1>2, <2>1, PageShows
<1>4. /\ browse' \in BrowseSet /\ browse'.counted /\ browse'.page = browse.page + 1
      /\ browse'.pages = Fig!Pages(Cardinality(E)) /\ browse'.status = browse.status /\ browse'.sort = browse.sort
      /\ browse'.there = browse.there /\ browse'.shown = browse.shown /\ browse'.moved = browse.moved
  <2> DEFINE pages == Fig!Pages(Cardinality(E))
  <2> HIDE DEF pages
  <2>1. browse' = [browse EXCEPT !.counted = TRUE, !.page = browse.page + 1, !.pages = pages] /\ pages \in Nat
    BY <1>1, <1>3 DEF pages
  <2>2. browse.page + 1 \in Nat /\ TRUE \in BOOLEAN
    BY <1>1 DEF BrowseSet
  <2> DEFINE next == browse.page + 1
  <2> HIDE DEF next
  <2>3. browse' = [browse EXCEPT !.counted = TRUE, !.page = next, !.pages = pages] /\ next \in Nat
    BY <2>1, <2>2 DEF next
  <2>4. browse' \in BrowseSet
    BY <1>1, <2>1, <2>3 DEF BrowseSet
  <2>5. /\ browse'.counted /\ browse'.page = next
        /\ browse'.pages = pages /\ browse'.status = browse.status /\ browse'.sort = browse.sort
        /\ browse'.there = browse.there /\ browse'.shown = browse.shown /\ browse'.moved = browse.moved
    BY <1>1, <2>3 DEF BrowseSet
  <2> QED  BY <2>4, <2>5 DEF pages, next
<1>5. BrowseStands'
  <2>1. browse'.page # 0
    BY <1>1, <1>4 DEF BrowseSet
  <2>2. ~ browse.moved => /\ browse.there \subseteq E
                          /\ \A x \in browse.there \ browse.shown :
                               RankIn(figRows, browse.status, browse.sort, x) >= Fig!Offset(browse.page + 1)
    BY <1>1 DEF FigInv, BrowseStands
  <2> QED  BY <1>1, <1>4, <2>1, <2>2 DEF BrowseStands
<1> QED  BY <1>1, <1>4, <1>5, Browsed

\* Reading the page.
LEMMA FetchKeeps == FigInv /\ Fig!Fetch => FigInv'
<1> SUFFICES ASSUME FigInv, Fig!Fetch PROVE FigInv'
  OBVIOUS
<1> DEFINE E == On(figRows, browse.status)
           rank(x) == RankIn(figRows, browse.status, browse.sort, x)
           new == Fig!Range(Fig!PageOf(Fig!InListOrder(Fig!Listed(figRows, browse.status), browse.sort), browse.page))
<1>1. /\ browse # Nil /\ browse.counted /\ browse \in BrowseSet
      /\ UNCHANGED <<figRows, budgets, reading, figCount>>
      /\ browse' = [browse EXCEPT !.counted = FALSE, !.shown = browse.shown \cup new]
  BY DEF FigInv, Fig!TypeOK, Fig!Fetch, BrowseSet
<1>2. IdTable(figRows) /\ E \subseteq 1..MaxTransactions
  <2>1. IdTable(figRows) /\ DOMAIN figRows \subseteq 1..MaxTransactions
    BY RowsTyped DEF FigInv, Fig!TypeOK
  <2> QED  BY <2>1 DEF On
<1>3. browse.page \in Nat \ {0}
  BY <1>1 DEF FigInv, BrowseStands, BrowseSet
<1>4. /\ new \subseteq E
      /\ \A x \in E : rank(x) >= Fig!Offset(browse.page) => x \in new \/ rank(x) >= Fig!Offset(browse.page + 1)
      /\ browse.page >= Fig!Pages(Cardinality(E)) => \A x \in E : rank(x) < Fig!Offset(browse.page + 1)
  BY <1>2, <1>3, PageShows
<1>5. \A x \in E : rank(x) \in Nat /\ Fig!Offset(browse.page + 1) \in Nat
  <2>1. browse.page + 1 \in Nat \ {0}
    BY <1>3
  <2> QED  BY <1>2, <2>1, RanksTyped
<1> HIDE DEF E, rank, new
<1>6. /\ browse' \in BrowseSet /\ browse'.counted = FALSE /\ browse'.page = browse.page
      /\ browse'.pages = browse.pages /\ browse'.status = browse.status /\ browse'.sort = browse.sort
      /\ browse'.there = browse.there /\ browse'.shown = browse.shown \cup new /\ browse'.moved = browse.moved
  <2>1. new \subseteq 1..MaxTransactions
    BY <1>2, <1>4
  <2>2. browse.shown \cup new \in SUBSET (1..MaxTransactions)
    BY <1>1, <2>1 DEF BrowseSet
  <2> QED  BY <1>1, <2>2 DEF BrowseSet
<1>7. BrowseStands'
  <2> SUFFICES ASSUME ~ browse.moved
               PROVE  /\ browse.there \subseteq E
                      /\ \A x \in browse.there \ (browse.shown \cup new) : rank(x) >= Fig!Offset(browse.page + 1)
                      /\ browse.page >= browse.pages => browse.there \subseteq browse.shown \cup new
    BY <1>1, <1>6 DEF BrowseStands, E, rank
  <2>1. /\ browse.there \subseteq E /\ browse.pages = Fig!Pages(Cardinality(E))
        /\ \A x \in browse.there \ browse.shown : rank(x) >= Fig!Offset(browse.page)
    BY <1>1 DEF FigInv, BrowseStands, E, rank
  <2>2. \A x \in browse.there \ (browse.shown \cup new) : rank(x) >= Fig!Offset(browse.page + 1)
    BY <1>4, <2>1
  <2>3. ASSUME browse.page >= browse.pages, NEW x \in browse.there PROVE x \in browse.shown \cup new
    <3>1. x \in E /\ rank(x) < Fig!Offset(browse.page + 1)
      BY <1>4, <2>1, <2>3
    <3> QED  BY <1>5, <2>2, <3>1
  <2> QED  BY <2>1, <2>2, <2>3
<1> QED  BY <1>1, <1>6, <1>7, Browsed

\* Opening a list.
LEMMA OpenKeeps ==
    ASSUME FigInv, NEW status \in {"all", "review", "normal"}, NEW sort \in {"newest", "dearest"},
           Fig!Open(status, sort)
    PROVE  FigInv'
<1> DEFINE E == On(figRows, status)
<1>1. /\ UNCHANGED <<figRows, budgets, reading, figCount>>
      /\ browse' = [status |-> status, sort |-> sort, page |-> 0, pages |-> Nil, counted |-> FALSE,
                    shown |-> {}, there |-> E, moved |-> FALSE]
  <2>1. DOMAIN Fig!Listed(figRows, status) = E
    BY RowsTyped, ListedIs DEF FigInv
  <2> QED  BY <2>1 DEF Fig!Open
<1>2. IdTable(figRows) /\ E \subseteq 1..MaxTransactions
  <2>1. IdTable(figRows) /\ DOMAIN figRows \subseteq 1..MaxTransactions
    BY RowsTyped DEF FigInv, Fig!TypeOK
  <2> QED  BY <2>1 DEF On
<1>3. \A x \in E : RankIn(figRows, status, sort, x) >= Fig!Offset(1)
  <2>1. Fig!Offset(1) = 0
    BY ServicesAssumption DEF Fig!Offset
  <2>2. \A x \in E : RankIn(figRows, status, sort, x) \in Nat
    BY <1>2, RanksTyped
  <2> QED  BY <2>1, <2>2
<1> HIDE DEF E
<1>4. /\ browse' \in BrowseSet /\ browse'.counted = FALSE /\ browse'.page = 0 /\ browse'.pages = Nil
      /\ browse'.status = status /\ browse'.sort = sort /\ browse'.there = E /\ browse'.shown = {}
  BY <1>1, <1>2 DEF BrowseSet
<1>5. BrowseStands'
  <2>1. 0 + 1 = 1
    OBVIOUS
  <2> QED  BY <1>1, <1>3, <1>4, <2>1 DEF BrowseStands, E
<1> QED  BY <1>1, <1>4, <1>5, Browsed

\* Reading begins with a query.
LEMMA ReadKeeps ==
    ASSUME FigInv, NEW kind \in {"insights", "comparison"}, NEW m \in Month, Fig!Read(kind, m)
    PROVE  FigInv'
<1> DEFINE part == Fig!Part(kind, 1, m)
<1>1. /\ UNCHANGED <<figRows, budgets, browse, figCount>>
      /\ reading' = [kind |-> kind, month |-> m, got |-> <<part>>, quiet |-> TRUE]
  BY DEF Fig!Read
<1>2. \A k : Fig!Part(kind, k, m)' = Fig!Part(kind, k, m)
  BY <1>1 DEF Fig!Part, Fig!InsightPart, Fig!ComparisonPart
<1>3. PartStands(kind, 1, part) /\ 1 \in 1..Fig!Parts(kind)
  <2>1. 1 \in 1..Fig!Parts(kind)
    BY DEF Fig!Parts
  <2> QED  BY <2>1, PartsStand DEF FigInv
<1> HIDE DEF part
<1>4. reading'.kind = kind /\ reading'.month = m /\ reading'.got = <<part>> /\ reading'.quiet = TRUE
  BY <1>1
<1>5. Len(reading'.got) = 1 /\ reading'.got = [k \in 1..1 |-> reading'.got[k]]
      /\ DOMAIN reading'.got = 1..1 /\ reading'.got[1] = part
  BY <1>4
<1>6. Fig!TypeOK'
  BY <1>1, <1>3, <1>4, <1>5 DEF FigInv, Fig!TypeOK
<1>7. ReadStands'
  <2>1. \A k \in DOMAIN reading'.got :
          PartStands(kind, k, reading'.got[k]) /\ reading'.got[k] = Fig!Part(kind, k, m)'
    <3>1. \A k \in DOMAIN reading'.got : k = 1
      BY <1>5
    <3>2. part = Fig!Part(kind, 1, m)'
      BY <1>2 DEF part
    <3> QED  BY <1>3, <1>5, <3>1, <3>2
  <2>2. \E n \in 1..Fig!Parts(kind) : reading'.got = [k \in 1..n |-> reading'.got[k]]
    BY <1>3, <1>5
  <2> QED  BY <1>1, <1>4, <2>1, <2>2 DEF ReadStands
<1>8. BrowseStands'
  BY <1>1 DEF FigInv, BrowseStands
<1> QED  BY <1>6, <1>7, <1>8 DEF FigInv

\* They read on, whatever was written since.
LEMMA ReadOnKeeps ==
    ASSUME FigInv, Fig!ReadOn
    PROVE  FigInv'
<1> DEFINE kind == reading.kind
           last == Fig!Parts(kind)
           m == reading.month
           got == reading.got
           n == Len(got)
           part == Fig!Part(kind, n + 1, m)
<1>1. /\ UNCHANGED <<figRows, budgets, browse, figCount>>
      /\ reading # Nil /\ n < last /\ n \in 1..last /\ last \in Nat /\ m \in Month /\ reading.quiet \in BOOLEAN
      /\ kind \in {"insights", "comparison"}
      /\ reading = [kind |-> kind, month |-> m, got |-> got, quiet |-> reading.quiet]
      /\ reading' = [reading EXCEPT !.got = Append(got, part)]
  BY DEF FigInv, Fig!TypeOK, ReadStands, Fig!ReadOn, Fig!Parts
<1>2. got = [k \in 1..n |-> got[k]]
  <2>1. PICK j \in 1..last : got = [k \in 1..j |-> got[k]]
    BY <1>1 DEF FigInv, ReadStands
  <2> HIDE DEF got, last
  <2>2. Len(got) = j
    BY <1>1, <2>1, Appended
  <2> QED  BY <2>1, <2>2
<1>3. \A k \in 1..n : PartStands(kind, k, got[k]) /\ (reading.quiet => got[k] = Fig!Part(kind, k, m))
  <2>1. DOMAIN got = 1..n
    BY <1>2
  <2> QED  BY <1>1, <2>1 DEF FigInv, ReadStands
<1>4. PartStands(kind, n + 1, part) /\ n + 1 \in 1..last
  <2>1. n + 1 \in 1..last
    BY <1>1
  <2> QED  BY <1>1, <2>1, PartsStand DEF FigInv
<1>5. \A k : Fig!Part(kind, k, m)' = Fig!Part(kind, k, m)
  <2>1. m' = m /\ kind' = kind
    BY <1>1
  <2> QED  BY <1>1, <2>1 DEF Fig!Part, Fig!InsightPart, Fig!ComparisonPart
<1> HIDE DEF m, got, n, part, kind, last
<1> DEFINE more == [k \in 1..(n + 1) |-> IF k = n + 1 THEN part ELSE got[k]]
<1>6. Append(got, part) = more
  BY <1>1, <1>2, Appended
<1>7. /\ reading'.kind = kind /\ reading'.month = m /\ reading'.got = more /\ reading'.quiet = reading.quiet
      /\ reading' = [kind |-> kind, month |-> m, got |-> more, quiet |-> reading.quiet]
  <2> DEFINE quiet == reading.quiet
  <2>1. reading = [kind |-> kind, month |-> m, got |-> got, quiet |-> quiet] /\ reading' = [reading EXCEPT !.got = more]
    BY <1>1, <1>6
  <2> HIDE DEF more, quiet
  <2>2. reading' = [kind |-> kind, month |-> m, got |-> more, quiet |-> quiet]
    BY <2>1
  <2> QED  BY <2>2 DEF quiet
<1>8. more = [k \in 1..(n + 1) |-> more[k]] /\ n + 1 \in 1..last /\ DOMAIN more = 1..(n + 1) /\ n + 1 \in Nat
  BY <1>1, <1>4
<1>9. \A k \in 1..(n + 1) : PartStands(kind, k, more[k]) /\ (reading.quiet => more[k] = Fig!Part(kind, k, m))
  <2> SUFFICES ASSUME NEW k \in 1..(n + 1)
               PROVE  PartStands(kind, k, more[k]) /\ (reading.quiet => more[k] = Fig!Part(kind, k, m))
    OBVIOUS
  <2>1. CASE k = n + 1
    BY <1>4, <2>1 DEF part
  <2>2. CASE k # n + 1
    BY <1>1, <1>3, <2>2
  <2> QED  BY <2>1, <2>2
<1> HIDE DEF more
<1>10. Len(more) = n + 1
  BY <1>8, Appended
<1>11. Fig!TypeOK'
  BY <1>1, <1>7, <1>8, <1>10 DEF FigInv, Fig!TypeOK, last
<1>12. ReadStands'
  <2>1. \E j \in 1..last : more = [k \in 1..j |-> more[k]]
    BY <1>8
  <2>2. \A k \in DOMAIN more : PartStands(kind, k, more[k]) /\ (reading.quiet => more[k] = Fig!Part(kind, k, m)')
    BY <1>5, <1>8, <1>9
  <2>3. \A k : Fig!Part(reading.kind, k, reading.month)' = Fig!Part(kind, k, m)'
    BY <1>1, <1>7 DEF Fig!Part, Fig!InsightPart, Fig!ComparisonPart, m, kind
  <2> QED  BY <1>7, <2>1, <2>2, <2>3 DEF ReadStands, last
<1>13. BrowseStands'
  BY <1>1 DEF FigInv, BrowseStands
<1> QED  BY <1>11, <1>12, <1>13 DEF FigInv

-----------------------------------------------------------------------------
(* The theorem *)

\* It holds of an account without rows.
LEMMA FigStart == Fig!Init => FigInv
<1> SUFFICES ASSUME Fig!Init PROVE FigInv
  OBVIOUS
<1>1. figRows = <<>> /\ budgets = <<>> /\ browse = Nil /\ reading = Nil /\ figCount = 0
  BY DEF Fig!Init
<1>2. DOMAIN figRows = {} /\ DOMAIN budgets = {} /\ IsFiniteSet({})
  BY <1>1, FS_EmptySet
<1>3. figRows \in [DOMAIN figRows -> Transaction] /\ budgets \in [DOMAIN budgets -> Limit]
  BY <1>1
<1>4. Fig!TypeOK
  BY <1>1, <1>2, <1>3, FigFinite, ServicesAssumption DEF Fig!TypeOK
<1> QED  BY <1>1, <1>4 DEF FigInv, BrowseStands, ReadStands

\* Every step keeps it.
LEMMA FigStep == FigInv /\ [Fig!Next]_figuresVars => FigInv'
<1> SUFFICES ASSUME FigInv, [Fig!Next]_figuresVars PROVE FigInv'
  OBVIOUS
<1>1. CASE \E row \in Transaction : Fig!Create(row)
  BY <1>1, CreateKeeps
<1>2. CASE \E i \in DOMAIN figRows : Fig!Delete(i) \/ \E row \in Transaction : Fig!Update(i, row)
  BY <1>2, DeleteKeeps, UpdateKeeps
<1>3. CASE \E b \in DOMAIN budgets : Fig!DeleteBudget(b)
  BY <1>3, BudgetKeeps
<1>4. CASE \E m \in Month, scope \in Fig!Category \cup {Nil}, limit \in Limit : Fig!SetBudget(m, scope, limit)
  BY <1>4, BudgetKeeps
<1>5. CASE \E status \in {"all", "review", "normal"}, sort \in {"newest", "dearest"} : Fig!Open(status, sort)
  BY <1>5, OpenKeeps
<1>6. CASE \E kind \in {"insights", "comparison"}, m \in Month : Fig!Read(kind, m)
  BY <1>6, ReadKeeps
<1>7. CASE Fig!Count
  BY <1>7, CountKeeps
<1>8. CASE Fig!Fetch
  BY <1>8, FetchKeeps
<1>9. CASE Fig!ReadOn
  BY <1>9, ReadOnKeeps
<1>10. CASE UNCHANGED figuresVars
  <2>1. UNCHANGED <<figRows, budgets, browse, reading, figCount>>
    BY <1>10 DEF figuresVars
  <2>2. Fig!TypeOK' /\ BrowseStands'
    BY <2>1 DEF FigInv, Fig!TypeOK, BrowseStands
  <2>3. ReadStands'
    <3>1. \A kind, k, m : Fig!Part(kind, k, m)' = Fig!Part(kind, k, m)
      BY <2>1 DEF Fig!Part, Fig!InsightPart, Fig!ComparisonPart
    <3> QED  BY <2>1, <3>1 DEF FigInv, ReadStands
  <2> QED  BY <2>2, <2>3 DEF FigInv
<1> QED  BY <1>1, <1>2, <1>3, <1>4, <1>5, <1>6, <1>7, <1>8, <1>9, <1>10 DEF Fig!Next

\* Report, summary, series and budgets give a month the same spending; the changes
\* of a comparison, shown and hidden, add up to its difference unless something was
\* written between its four queries; a reader who follows the pages to the last
\* misses no row unless one moved; and the insight cards say what the reports and
\* budgets they were made from say, whatever is written while they are read.
THEOREM FiguresTellOneStory == Spec => []FiguresAgree
<1>1. Init => FigInv
  BY FigStart DEF Init
<1>2. [Next]_vars => [Fig!Next]_figuresVars
  BY DEF Next, vars, figuresVars
<1>3. FigInv /\ [Next]_vars => FigInv'
  BY <1>2, FigStep
<1>4. FigInv => FiguresAgree
  BY FiguresHold DEF FiguresAgree
<1> QED  BY <1>1, <1>3, <1>4, PTL DEF Spec
=============================================================================
