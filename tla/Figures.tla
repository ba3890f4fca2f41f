------------------------------ MODULE Figures ------------------------------
(***************************************************************************)
(* The figures of a month: the report, the summary, the comparison of two  *)
(* months, the budgets and the insights are each computed by queries of    *)
(* their own from the transactions, which other requests change meanwhile. *)
(* A list of transactions is read page by page.  Amounts are in cents.     *)
(***************************************************************************)
EXTENDS Integers, Sequences, FiniteSetsExt, Samples

CONSTANTS
    Transaction,    \* transactions: a category (name and type), an amount, a date
                    \* (year y, month n, day d)
    NameOrder,      \* names of categories in alphabetical order
    Month,          \* months that are looked at
    Limit,          \* limits of budgets
    Threshold,      \* above it an expense is to be reviewed
    CategoryLimit,  \* how many changes of categories are shown
    PageSize,
    MaxRows,        \* bound
    MaxWrites,      \* bound
    Nil

VARIABLES
    rows,      \* transactions by id, in the order of their creation
    budgets,   \* limits by scope: a category, or Nil for all spending
    browse,    \* a list being read, or Nil
    reading,   \* insights or a comparison being read, query by query, or Nil
    figCount   \* writes so far

Category == {r.cat : r \in Transaction}

figVars == <<rows, budgets, browse, reading, figCount>>

-----------------------------------------------------------------------------
(* Months *)

At(t) == 372 * t.y + 31 * t.n + t.d \* orders dates

NextMonth(p) == IF p.n = 12 THEN [y |-> p.y + 1, n |-> 1] ELSE [p EXCEPT !.n = @ + 1]

PreviousMonth(p) == IF p.n = 1 THEN [y |-> p.y - 1, n |-> 12] ELSE [p EXCEPT !.n = @ - 1]

FirstDay(p) == [y |-> p.y, n |-> p.n, d |-> 1]

DaysOf(p) == IF p.n = 2 THEN (IF p.y % 4 = 0 THEN 29 ELSE 28)
             ELSE IF p.n \in {4, 6, 9, 11} THEN 30 ELSE 31

LastDay(p) == [y |-> p.y, n |-> p.n, d |-> DaysOf(p)]

-----------------------------------------------------------------------------
(* Sums of transactions *)

Place(order, x) == CHOOSE k \in DOMAIN order : order[k] = x

Below(a, b) == Place(NameOrder, a) < Place(NameOrder, b)

Sum(rs) == SumFunction([i \in DOMAIN rs |-> rs[i].amt])

Where(rs, Test(_)) == [i \in {j \in DOMAIN rs : Test(rs[j])} |-> rs[i]]

OfType(rs, type) == Where(rs, LAMBDA r : r.cat.type = type)

InMonth(rs, p) ==
    Where(rs, LAMBDA r : At(FirstDay(p)) <= At(r.on) /\ At(r.on) < At(FirstDay(NextMonth(p))))

InReview(r) == r.cat.type = "expense" /\ r.amt > Threshold

\* summarize_transactions: both dates are included.
Summary(rs, from, to) ==
    LET within == Where(rs, LAMBDA r : At(from) <= At(r.on) /\ At(r.on) <= At(to))
    IN [income |-> Sum(OfType(within, "income")), expenses |-> Sum(OfType(within, "expense")),
        review |-> Cardinality(DOMAIN Where(within, InReview)), count |-> Cardinality(DOMAIN within)]

\* The first of the last k months.
StartMonth(p, k) == [y |-> p.y + (p.n - k) \div 12, n |-> ((p.n - k) % 12) + 1]

\* monthly_expenses: months without expenses are zero.
MonthlyExpenses(rs, k, through) ==
    LET from == StartMonth([y |-> through.y, n |-> through.n], k)
        month[i \in 1..k] == IF i = 1 THEN from ELSE NextMonth(month[i - 1])
        spent == OfType(Where(rs, LAMBDA r : At(FirstDay(from)) <= At(r.on) /\ At(r.on) <= At(through)), "expense")
    IN [i \in 1..k |->
          [month |-> month[i],
           amount |-> Sum(Where(spent, LAMBDA r : r.on.y = month[i].y /\ r.on.n = month[i].n))]]

-----------------------------------------------------------------------------
(* The report *)

Keys(rs) == {[type |-> rs[i].cat.type, name |-> rs[i].cat.name] : i \in DOMAIN rs}

EntriesOf(rs, key) == Where(rs, LAMBDA r : r.cat.type = key.type /\ r.cat.name = key.name)

\* Totals by type and name: expenses first, then the largest.
Breakdown(rs) ==
    LET entry(key) == [type |-> key.type, name |-> key.name, total |-> Sum(EntriesOf(rs, key)),
                       count |-> Cardinality(DOMAIN EntriesOf(rs, key))]
        above(a, b) == \/ a.type = "expense" /\ b.type = "income"
                       \/ a.type = b.type /\ a.total > b.total
                       \/ a.type = b.type /\ a.total = b.total /\ Below(a.name, b.name)
    IN Ranked({entry(key) : key \in Keys(rs)}, above)

ReportOf(rs) ==
    [income |-> Sum(OfType(rs, "income")), expenses |-> Sum(OfType(rs, "expense")),
     count |-> Cardinality(DOMAIN rs), breakdown |-> Breakdown(rs)]

Report(rs, p) == ReportOf(InMonth(rs, p))

-----------------------------------------------------------------------------
(* The comparison of two months *)

\* To the nearest, halves away from zero.
Rounded(n, d) == IF n < 0 THEN -((d - 2 * n) \div (2 * d)) ELSE (2 * n + d) \div (2 * d)

SpentOn(rs, p, name) == Sum(Where(OfType(InMonth(rs, p), "expense"), LAMBDA r : r.cat.name = name))

SpentNames(rs, p) == {key.name : key \in Keys(OfType(InMonth(rs, p), "expense"))}

\* _category_expenses
SpentByName(rs, p) == [name \in SpentNames(rs, p) |-> SpentOn(rs, p, name)]

Had(spent, x) == IF x \in DOMAIN spent THEN spent[x] ELSE 0

Delta(a, b, name) == Had(b, name) - Had(a, name)

\* The changes from what was spent on names to what is, the largest first.
Changes(a, b) ==
    LET all == {[name |-> name, delta |-> Delta(a, b, name)] : name \in DOMAIN a \cup DOMAIN b}
        above(c, d) == \/ Apart(c.delta, 0) > Apart(d.delta, 0)
                       \/ Apart(c.delta, 0) = Apart(d.delta, 0) /\ Below(c.name, d.name)
    IN Ranked({c \in all : c.delta # 0}, above)

\* A comparison, from two summaries and from what was spent on names.
Compared(before, after, a, b) ==
    LET changes == Changes(a, b)
    IN [before |-> before, after |-> after, difference |-> after - before,
        percent |-> IF before = 0 THEN Nil ELSE Rounded(10000 * (after - before), before),
        changes |-> SubSeq(changes, 1, Smaller(CategoryLimit, Len(changes)))]

-----------------------------------------------------------------------------
(* Budgets *)

SpentFor(rs, scope) ==
    IF scope = Nil THEN Sum(OfType(rs, "expense")) ELSE Sum(Where(rs, LAMBDA r : r.cat = scope))

Over(spent, limit) == spent > limit

\* What is spent of a limit, in tenths of a percent.
Progress(scope, spent, limit) ==
    [scope |-> scope, spent |-> spent, remaining |-> limit - spent,
     percent |-> Rounded(1000 * spent, limit), over |-> Over(spent, limit)]

Limits(bs, p) == [scope \in {b.scope : b \in {c \in DOMAIN bs : c.month = p}} |->
                    bs[[month |-> p, scope |-> scope]]]

SpentByCategory(rs) == [c \in {rs[i].cat : i \in DOMAIN OfType(rs, "expense")} |-> SpentFor(rs, c)]

\* The budgets of a month, from their limits, all that was spent, and what was
\* spent on each category.
BudgetItems(limits, total, spent) ==
    {Progress(s, IF s = Nil THEN total ELSE Had(spent, s), limits[s]) : s \in DOMAIN limits}

-----------------------------------------------------------------------------
(* Insights *)

ExpenseEntries(report) == {k \in DOMAIN report.breakdown : report.breakdown[k].type = "expense"}

Sign(n) == IF n > 0 THEN "more" ELSE IF n < 0 THEN "less" ELSE "same"

\* Whether a rise deserves attention or is good news.
Priority(n, rise) ==
    IF n = 0 THEN "info" ELSE IF Sign(n) = "more" THEN rise ELSE IF rise = "positive" THEN "attention" ELSE "positive"

Highest(items) == Max({b.percent : b \in items})

\* Tenths, of a positive denominator, or Nil.
Tenths(n, d) == IF d <= 0 THEN Nil ELSE Rounded(10 * n, d)

Card(kind, priority, evidence) == [kind |-> kind, priority |-> priority, evidence |-> evidence]

BudgetCards(items) ==
    LET over == Cardinality({b \in items : b.over})
    IN IF items = {} THEN {}
       ELSE {Card("budget_pressure", IF over > 0 THEN "attention" ELSE "info",
                  <<Cardinality(items), over, Highest(items)>>)}

MonthCards(current, previous, open) ==
    LET delta == current.expenses - previous.expenses
        entries == ExpenseEntries(current)
        top == current.breakdown[Min(entries)]
    IN {Card("open_findings", IF open > 0 THEN "attention" ELSE "info", <<open>>),
        Card("cash_flow", Priority(current.income - current.expenses, "positive"),
             <<current.income, current.expenses, current.count>>),
        Card("expense_change", Priority(delta, "attention"),
             <<delta, IF previous.expenses = 0 THEN Nil ELSE Rounded(1000 * delta, previous.expenses)>>)}
       \cup (IF entries = {} \/ current.expenses = 0 THEN {}
             ELSE {Card("category_concentration", "info",
                        <<top.name, top.total, Rounded(1000 * top.total, current.expenses)>>)})

\* What the accounts hold, of them how many months of recent spending.
WorthCards(spent3, worth) ==
    {Card("net_worth_liquidity", "info", <<Tenths(3 * (worth.available + worth.reserved), spent3)>>),
     Card("emergency_coverage", "info", <<Tenths(3 * worth.emergency, spent3)>>),
     Card("investment_share", "info", <<worth.invested, worth.total>>),
     Card("opportunity_capital", "info", <<worth.opportunities, worth.total>>),
     Card("net_worth_growth", Priority(worth.growth, "positive"), <<worth.growth>>)}

AccountCards(worth) ==
    IF worth.largest = Nil THEN {} ELSE {Card("account_concentration", "info", <<worth.largest>>)}

\* The cards, from three reports, the budgets, how many findings are open, and the
\* figures of the accounts.
Cards(current, previous, before, items, open, worth) ==
    BudgetCards(items) \cup MonthCards(current, previous, open) \cup AccountCards(worth)
    \cup WorthCards(current.expenses + previous.expenses + before.expenses, worth)

KindOrder == <<"budget_pressure", "open_findings", "cash_flow", "expense_change", "net_worth_growth",
               "net_worth_liquidity", "emergency_coverage", "investment_share", "opportunity_capital",
               "account_concentration", "category_concentration">>

\* What needs attention first, then good news.
InsightOrder(cards) ==
    LET rank(c) == 100 * Place(<<"attention", "positive", "info">>, c.priority) + Place(KindOrder, c.kind)
    IN Ranked(cards, LAMBDA c, d : rank(c) < rank(d))

-----------------------------------------------------------------------------
(* Lists of transactions *)

Listed(rs, status) ==
    Where(rs, LAMBDA r : (status = "review" => InReview(r)) /\ (status = "normal" => ~ InReview(r)))

\* Newest first or dearest first, then the last created first.
InListOrder(rs, sort) ==
    LET worth(i) == IF sort = "newest" THEN At(rs[i].on) ELSE rs[i].amt
    IN Ranked(DOMAIN rs, LAMBDA i, j : worth(i) > worth(j) \/ (worth(i) = worth(j) /\ i > j))

Offset(page) == (page - 1) * PageSize

PageOf(list, page) == SubSeq(list, Offset(page) + 1, Smaller(Offset(page) + PageSize, Len(list)))

Pages(total) == (total + PageSize - 1) \div PageSize

-----------------------------------------------------------------------------
Init ==
    /\ rows = <<>>
    /\ budgets = <<>>
    /\ browse = Nil
    /\ reading = Nil
    /\ figCount = 0

\* What a write means to those who read meanwhile: moved says that a row may have
\* left its place in the list, torn that it came between a count and its page.
Noticed(moved) ==
    /\ figCount < MaxWrites
    /\ figCount' = figCount + 1
    /\ browse' = IF browse = Nil THEN Nil
                 ELSE [browse EXCEPT !.moved = @ \/ moved \/ browse.counted]
    /\ reading' = IF reading = Nil THEN Nil ELSE [reading EXCEPT !.quiet = FALSE]

Write(i, row) == rows' = [j \in DOMAIN rows \cup {i} |-> IF j = i THEN row ELSE rows[j]]

Create(row) ==
    LET i == Max({0} \cup DOMAIN rows) + 1
    IN /\ i <= MaxRows
       /\ Write(i, row)
       /\ Noticed(FALSE)
       /\ UNCHANGED budgets

Update(i, row) ==
    /\ i \in DOMAIN rows
    /\ Write(i, row)
    /\ Noticed(TRUE)
    /\ UNCHANGED budgets

Delete(i) ==
    /\ i \in DOMAIN rows
    /\ rows' = [j \in DOMAIN rows \ {i} |-> rows[j]]
    /\ Noticed(TRUE)
    /\ UNCHANGED budgets

\* create_budget and update_budget: one limit for a month and scope.
SetBudget(month, scope, limit) ==
    LET b == [month |-> month, scope |-> scope]
    IN /\ scope # Nil => scope.type = "expense"
       /\ budgets' = [c \in DOMAIN budgets \cup {b} |-> IF c = b THEN limit ELSE budgets[c]]
       /\ Noticed(FALSE)
       /\ UNCHANGED rows

DeleteBudget(b) ==
    /\ b \in DOMAIN budgets
    /\ budgets' = [c \in DOMAIN budgets \ {b} |-> budgets[c]]
    /\ Noticed(FALSE)
    /\ UNCHANGED rows

\* A page is read in two queries: how many rows there are, and the rows of the page.
Count ==
    /\ browse # Nil /\ ~ browse.counted
    /\ browse.pages # Nil => browse.page < browse.pages
    /\ browse' = [browse EXCEPT !.counted = TRUE, !.page = @ + 1,
                                !.pages = Pages(Cardinality(DOMAIN Listed(rows, browse.status)))]
    /\ UNCHANGED <<rows, budgets, reading, figCount>>

Fetch ==
    /\ browse # Nil /\ browse.counted
    /\ LET list == InListOrder(Listed(rows, browse.status), browse.sort)
       IN browse' = [browse EXCEPT !.counted = FALSE, !.shown = @ \cup Range(PageOf(list, browse.page))]
    /\ UNCHANGED <<rows, budgets, reading, figCount>>

Open(status, sort) ==
    /\ browse = Nil /\ reading = Nil
    /\ browse' = [status |-> status, sort |-> sort, page |-> 0, pages |-> Nil, counted |-> FALSE,
                  shown |-> {}, there |-> DOMAIN Listed(rows, status), moved |-> FALSE]
    /\ UNCHANGED <<rows, budgets, reading, figCount>>

\* Mutant: the two months before are swapped.
MonthReadSwapped(n, month) ==
    CASE n = 2 -> PreviousMonth(PreviousMonth(month))
      [] n = 3 -> PreviousMonth(month)
      [] OTHER -> month

MonthRead(n, month) ==
    CASE n = 2 -> PreviousMonth(month)
      [] n = 3 -> PreviousMonth(PreviousMonth(month))
      [] OTHER -> month

\* The insights of a month read its report, those of the two months before, and its
\* budgets in three queries: limits, all spending, spending by category.
InsightPart(n, month) ==
    CASE n = 4 -> Limits(budgets, month)
      [] n = 5 -> SpentFor(InMonth(rows, month), Nil)
      [] n = 6 -> SpentByCategory(InMonth(rows, month))
      [] OTHER -> Report(rows, MonthRead(n, month))

\* A comparison with the month before reads two summaries, then twice what was
\* spent on names.
ComparisonPart(n, month) ==
    LET p == IF n \in {1, 3} THEN PreviousMonth(month) ELSE month
    IN IF n < 3 THEN Summary(rows, FirstDay(p), LastDay(p)).expenses ELSE SpentByName(rows, p)

Part(kind, n, month) == IF kind = "insights" THEN InsightPart(n, month) ELSE ComparisonPart(n, month)

Parts(kind) == IF kind = "insights" THEN 6 ELSE 4

\* Each query is a step of its own: it sees what was committed before it.
Read(kind, month) ==
    /\ reading = Nil /\ browse = Nil
    /\ reading' = [kind |-> kind, month |-> month, got |-> <<Part(kind, 1, month)>>, quiet |-> TRUE]
    /\ UNCHANGED <<rows, budgets, browse, figCount>>

ReadOn ==
    /\ reading # Nil /\ Len(reading.got) < Parts(reading.kind)
    /\ reading' = [reading EXCEPT !.got = Append(@, Part(reading.kind, Len(@) + 1, reading.month))]
    /\ UNCHANGED <<rows, budgets, browse, figCount>>

Next ==
    \/ \E row \in Transaction : Create(row)
    \/ \E i \in DOMAIN rows : Delete(i) \/ \E row \in Transaction : Update(i, row)
    \/ \E b \in DOMAIN budgets : DeleteBudget(b)
    \/ \E month \in Month, scope \in Category \cup {Nil}, limit \in Limit : SetBudget(month, scope, limit)
    \/ \E status \in {"all", "review", "normal"}, sort \in {"newest", "dearest"} : Open(status, sort)
    \/ \E kind \in {"insights", "comparison"}, month \in Month : Read(kind, month)
    \/ Count \/ Fetch \/ ReadOn

Spec == Init /\ [][Next]_figVars

-----------------------------------------------------------------------------
(* Properties *)

\* Transactions of any day, with names that have an order.
CalendarDay == {t \in [y : Int, n : 1..12, d : 1..31] : t.d <= DaysOf(t)}

Period == [y : Int, n : 1..12]

Name == Range(NameOrder)

Row == [cat : [name : Name, type : {"income", "expense"}], amt : Nat, on : CalendarDay]

\* Rows and budgets are what requests may create; a reader's page and what it was
\* shown are of the rows there can be.
TypeOK ==
    /\ DOMAIN rows \subseteq 1..MaxRows /\ rows \in [DOMAIN rows -> Transaction]
    /\ IsFiniteSet(DOMAIN budgets) /\ budgets \in [DOMAIN budgets -> Limit]
    /\ DOMAIN budgets \subseteq [month : Month, scope : Category \cup {Nil}]
    /\ browse # Nil =>
         browse \in [status : {"all", "review", "normal"}, sort : {"newest", "dearest"}, page : Nat,
                     pages : Nat \cup {Nil}, counted : BOOLEAN, shown : SUBSET (1..MaxRows),
                     there : SUBSET (1..MaxRows), moved : BOOLEAN]
    /\ reading # Nil => /\ reading.kind \in {"insights", "comparison"} /\ reading.month \in Month
                        /\ Len(reading.got) \in 1..Parts(reading.kind) /\ reading.quiet \in BOOLEAN
    /\ figCount \in 0..MaxWrites

Totals(entries, type) ==
    LET of == {k \in DOMAIN entries : entries[k].type = type}
    IN SumFunction([k \in of |-> entries[k].total])

\* Six computations of a month's spending agree, over the turn of a year too: the
\* report's total, its entries, the summary, the series of months, the overall
\* budget, and the budgets of the categories together.
MonthlyFiguresAgree ==
    (browse = Nil /\ reading = Nil) => \A p \in Month \cup {PreviousMonth(m) : m \in Month} :
        LET report == Report(rows, p)
            summary == Summary(rows, FirstDay(p), LastDay(p))
            series == MonthlyExpenses(rows, 3, LastDay(p))
            within == InMonth(rows, p)
        IN /\ report.expenses = summary.expenses /\ report.income = summary.income
           /\ \A type \in {"income", "expense"} :
                Totals(report.breakdown, type) = IF type = "income" THEN report.income ELSE report.expenses
           /\ series[3] = [month |-> p, amount |-> report.expenses]
           /\ series[2] = [month |-> PreviousMonth(p), amount |-> Report(rows, PreviousMonth(p)).expenses]
           /\ report.expenses = SpentFor(within, Nil)
           /\ report.expenses =
                SumFunction([c \in {c \in Category : c.type = "expense"} |-> SpentFor(within, c)])

AllRead(kind) == reading # Nil /\ reading.kind = kind /\ Len(reading.got) = Parts(kind)

ShownComparison == Compared(reading.got[1], reading.got[2], reading.got[3], reading.got[4])

\* The changes that a comparison shows add up to its difference, and that is the
\* difference of the months' reports, unless some are hidden or something was
\* written between its queries.  Whatever was written, no change is hidden that is
\* larger than one that is shown, and none before as many are shown as may be.
ChangesExplainDifference ==
    AllRead("comparison") =>
        LET c == ShownComparison
            delta(name) == Delta(reading.got[3], reading.got[4], name)
            shown == {c.changes[k].name : k \in DOMAIN c.changes}
            hidden == {cat.name : cat \in Category} \ shown
        IN /\ reading.quiet =>
                /\ SumFunction([name \in shown |-> delta(name)])
                     + SumFunction([name \in hidden |-> delta(name)]) = c.difference
                /\ c.difference = Report(rows, reading.month).expenses
                                    - Report(rows, PreviousMonth(reading.month)).expenses
           /\ \A h \in hidden, s \in shown : Apart(delta(h), 0) <= Apart(delta(s), 0)
           /\ (\E h \in hidden : delta(h) # 0) => Len(c.changes) = CategoryLimit

\* A reader who follows a list to its last page has seen every row that was there
\* when it began, if no row was deleted and none came between a count and its
\* page; new rows may only show some twice.
PagingSkipsNothing ==
    (browse # Nil /\ ~ browse.counted /\ browse.pages # Nil /\ browse.page >= browse.pages /\ ~ browse.moved)
    => browse.there \subseteq browse.shown

ShownItems == BudgetItems(reading.got[4], reading.got[5], reading.got[6])

ShownCards == Cards(reading.got[1], reading.got[2], reading.got[3], ShownItems, 0,
                    [available |-> 0, reserved |-> 0, emergency |-> 0, invested |-> 0, total |-> 0,
                     opportunities |-> 0, growth |-> 0, largest |-> Nil])

\* Whatever was written while insights were read, each card is true to the report
\* or the budgets it names: a category has no more than the month's expenses, and
\* no budget is over unless the highest utilization is at least 100.0%.  A kind
\* is shown once, and what needs attention comes first.
CardsAreConsistent ==
    AllRead("insights") =>
        \A c \in ShownCards :
            /\ c.kind = "category_concentration" =>
                 /\ c.evidence[2] <= reading.got[1].expenses
                 /\ \E k \in DOMAIN reading.got[1].breakdown :
                      /\ reading.got[1].breakdown[k].type = "expense"
                      /\ reading.got[1].breakdown[k].name = c.evidence[1]
            /\ c.kind = "budget_pressure" =>
                 /\ c.evidence[2] > 0 => c.evidence[3] >= 1000
                 /\ c.evidence[2] = 0 => c.evidence[3] <= 1000
            /\ \A d \in ShownCards : c.kind = d.kind => c = d
            /\ c.priority = "attention" /\ (\A d \in ShownCards : d.priority = "attention" => d = c)
                 => InsightOrder(ShownCards)[1] = c

\* If nothing was written meanwhile, the insights agree with the summaries of the
\* two months, as a comparison does, and an overall budget counts the expenses of
\* the cash flow.
QuietInsightsAgree ==
    (AllRead("insights") /\ reading.quiet) =>
        LET before == PreviousMonth(reading.month)
            spent(p) == Summary(rows, FirstDay(p), LastDay(p)).expenses
        IN \A card \in ShownCards :
             /\ card.kind = "expense_change" => card.evidence[1] = spent(reading.month) - spent(before)
             /\ card.kind = "cash_flow" =>
                  /\ card.evidence[2] = spent(reading.month)
                  /\ \A b \in ShownItems : b.scope = Nil => b.spent = card.evidence[2]

\* Dashboard, reports, comparison, budgets, pages and insights tell one story of
\* the same rows, and as much of it as they can when rows change meanwhile.
FiguresAgree ==
    /\ TypeOK
    /\ MonthlyFiguresAgree
    /\ ChangesExplainDifference
    /\ PagingSkipsNothing
    /\ CardsAreConsistent
    /\ QuietInsightsAgree

=============================================================================
