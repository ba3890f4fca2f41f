------------------------------- MODULE NetWorth -------------------------------
(***************************************************************************)
(* The accounts of a user on the web, the snapshots their changes leave,   *)
(* and the net worth and its history that the server computes from the     *)
(* rows and from the snapshots.  Snapshots dated by a phone are            *)
(* FinancialAccounts.                                                      *)
(***************************************************************************)
EXTENDS Integers, Sequences, FiniteSetsExt

CONSTANTS
    Account,   \* ids
    Opening,   \* accounts a request may open
    Patch,     \* the fields an update may carry
    PerDay,    \* moments of a day
    Window,    \* days of the history shown
    MaxClock,  \* bound: moments
    Nil

VARIABLES
    accounts,  \* the rows
    snapshots, \* in the order of their dates
    clock,     \* the moment of the last change or midnight
    worth      \* history: the net worth after each moment

netVars == <<accounts, snapshots, clock, worth>>

AccountType == {"checking", "savings", "broker", "wallet", "cash", "other"}

Purpose == {"daily", "savings", "emergency_fund", "opportunities", "investment", "other"}

Day(t) == t \div PerDay

\* The balances that count.
Held(rows) ==
    [a \in {a \in DOMAIN rows : rows[a] # Nil /\ rows[a].inc /\ ~ rows[a].arch} |-> rows[a].bal]

Total(rows) ==
    LET held == Held(rows) IN MapThenSumSet(LAMBDA a : held[a], DOMAIN held)

\* get_net_worth_summary: the counted accounts by purpose.
Summary ==
    LET Of(as) == Total([a \in {a \in Account : accounts[a] # Nil /\ accounts[a].purpose \in as}
                           |-> accounts[a]])
        invested == Of({"investment"})
        rest == Of(Purpose \ {"investment"})
    IN [invested |-> invested, rest |-> rest, total |-> invested + rest]

Init ==
    /\ accounts = [a \in Account |-> Nil]
    /\ snapshots = <<>>
    /\ clock = 0
    /\ worth = <<>>

-----------------------------------------------------------------------------

\* Mutant: only a new balance is history.
IsHistoryOfBalance(old, new) == old.bal # new.bal

\* A change of the balance or of whether it counts.
IsHistory(old, new) == old.bal # new.bal \/ old.inc # new.inc \/ old.arch # new.arch

\* A broker is always an investment.
Normal(row) == IF row.type = "broker" THEN [row EXCEPT !.purpose = "investment"] ELSE row

\* A row is written at the next moment of the day, with a snapshot if asked.
Write(a, row, snap) ==
    /\ clock < MaxClock /\ Day(clock + 1) = Day(clock)
    /\ clock' = clock + 1
    /\ accounts' = [accounts EXCEPT ![a] = row]
    /\ snapshots' = IF snap THEN Append(snapshots, [acc |-> a, bal |-> row.bal, inc |-> row.inc,
                                                    arch |-> row.arch, at |-> clock + 1])
                    ELSE snapshots
    /\ worth' = Append(worth, Total(accounts'))

Create(a, row) ==
    /\ accounts[a] = Nil
    /\ Write(a, Normal(row), TRUE)

Patched(row, patch) ==
    [f \in DOMAIN row |-> IF f \in DOMAIN patch THEN patch[f] ELSE row[f]]

Update(a, patch) ==
    LET old == accounts[a]
        new == Normal(Patched(old, patch))
    IN
    /\ old # Nil /\ new # old
    /\ Write(a, new, IsHistory(old, new))

Archive(a) ==
    /\ accounts[a] # Nil /\ ~ accounts[a].arch
    /\ Write(a, [accounts[a] EXCEPT !.arch = TRUE], TRUE)

Record(a, bal) ==
    /\ accounts[a] # Nil /\ ~ accounts[a].arch
    /\ Write(a, [accounts[a] EXCEPT !.bal = bal], TRUE)

\* Midnight.
NextDay ==
    /\ clock < MaxClock
    /\ LET next == (Day(clock) + 1) * PerDay IN
       /\ next <= MaxClock
       /\ clock' = next
       /\ worth' = worth \o [i \in 1..(next - clock) |-> Total(accounts)]
    /\ UNCHANGED <<accounts, snapshots>>

Next ==
    \/ NextDay
    \/ \E a \in Account :
         \/ \E row \in Opening : Create(a, row) \/ Record(a, row.bal)
         \/ \E patch \in Patch : Update(a, patch)
         \/ Archive(a)

Spec == Init /\ [][Next]_netVars

-----------------------------------------------------------------------------
(* The history *)

Cutoff == clock - Window * PerDay

\* The total of the latest snapshot of each account among the first n.
Replayed(n) ==
    Total([a \in {snapshots[i].acc : i \in 1..n} |->
             snapshots[Max({i \in 1..n : snapshots[i].acc = a})]])

\* The point at the start of the window: what the snapshots before it add up to.
Baseline ==
    LET before == {i \in DOMAIN snapshots : snapshots[i].at < Cutoff} IN
    IF before = {} THEN {} ELSE {[at |-> Cutoff, total |-> Replayed(Max(before))]}

\* One point a day: the last snapshot of it within the window.
Daily ==
    {[at |-> snapshots[i].at, total |-> Replayed(i)] : i \in {i \in DOMAIN snapshots :
        /\ snapshots[i].at >= Cutoff
        /\ \A j \in (i + 1)..Len(snapshots) : Day(snapshots[j].at) # Day(snapshots[i].at)}}

\* get_net_worth_history: the last point of today gives way to the current
\* total if they differ.
Points ==
    LET ps == Baseline \cup Daily
        wrong == {p \in ps : Day(p.at) = Day(clock) /\ p.total # Summary.total
                             /\ \A q \in ps : q.at <= p.at}
        today == {p \in ps \ wrong : Day(p.at) = Day(clock)}
    IN (ps \ wrong) \cup (IF today = {} THEN {[at |-> clock, total |-> Summary.total]} ELSE {})

-----------------------------------------------------------------------------
(* Properties *)

Row == [type : AccountType, purpose : Purpose, bal : Int, inc : BOOLEAN, arch : BOOLEAN]

\* What an update carries fits a row.
Fits(patch) ==
    /\ "type" \in DOMAIN patch => patch.type \in AccountType
    /\ "purpose" \in DOMAIN patch => patch.purpose \in Purpose
    /\ "bal" \in DOMAIN patch => patch.bal \in Int
    /\ "inc" \in DOMAIN patch => patch.inc \in BOOLEAN
    /\ "arch" \in DOMAIN patch => patch.arch \in BOOLEAN

Snapshot == [acc : Account, bal : Int, inc : BOOLEAN, arch : BOOLEAN, at : Nat]

TypeOK ==
    /\ accounts \in [Account -> Row \cup {Nil}]
    /\ snapshots \in Seq(Snapshot)
    /\ clock \in Nat
    /\ worth \in Seq(Int) /\ Len(worth) = clock

\* The history, read as a curve that keeps its value from one point to the
\* next, gives the net worth the user had at the end of every day of the
\* window and has now: no change of an account is missing from it.
CurveIsWhatWasHeld ==
    snapshots # <<>> =>
        \A t \in {t \in 1..clock : t >= Cutoff /\ (t = clock \/ (t + 1) % PerDay = 0)} :
            LET upto == {p \in Points : p.at <= t} IN
            IF upto = {} THEN worth[t] = 0
            ELSE \E p \in upto : p.total = worth[t] /\ \A q \in upto : q.at <= p.at

\* A broker's money counts as invested, in whichever order its type and its
\* purpose were changed: brokers and the other investments are what is invested.
BrokersAreInvested ==
    LET Of(Test(_)) == Total([a \in {a \in Account : accounts[a] # Nil /\ Test(accounts[a])}
                                |-> accounts[a]])
    IN Summary.invested = Of(LAMBDA r : r.type = "broker")
                          + Of(LAMBDA r : r.type # "broker" /\ r.purpose = "investment")

\* The net worth of today and of every day shown agrees with the accounts.
NetWorthSafe == TypeOK /\ CurveIsWhatWasHeld /\ BrokersAreInvested

=============================================================================
