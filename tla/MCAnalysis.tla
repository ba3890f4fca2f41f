----------------------------- MODULE MCAnalysis ------------------------------
(***************************************************************************)
(* The algorithms of the analysis, each on histories that grow step by step: *)
(* component names the one that runs.                                      *)
(***************************************************************************)
EXTENDS Integers, Sequences, FiniteSets, TLC

CONSTANTS Nil, p1, p2

VARIABLES component, headers, text, amounts, charges, counts, strCharges,
          dates, conCharges, today, report, plans, billed, labels, profiles,
          kind, utility, solver, pairs, data, run, frozen, reports, evalCount,
          paid

\* Columns by name: two differ only in case, and one has no letter.
HeaderTokens ==
    [h \in {"", "fecha", "Fecha", "date", "valor", "importe", "concepto", "detalle", "%"} |->
        CASE h = "Fecha" -> "fecha" [] h = "%" -> "" [] OTHER -> h]

Csv == INSTANCE CsvParsing WITH
    TokenOf <- HeaderTokens, MaxHeaders <- 4, MaxText <- 8

Rul == INSTANCE AnomalyRules WITH
    Amount <- {10, 40, 70}, MaxAmounts <- 8, BillAmount <- {10, 11, 12},
    Gap <- {0, 7, 26}, MaxCharges <- 5, MonthCount <- {1, 2, 3, 6},
    MaxMonths <- 6

Str == INSTANCE RecurringStreams WITH
    charges <- strCharges, Price <- {8, 9, 10}, Descriptor <- {1, 2},
    MaxCharges <- 4, FirstMonth <- {0, 3, 22}, MonthStep <- {1, 3},
    Payday <- {1, 29, 31}, DayStep <- {7, 14}, MaxDates <- 5

Con == INSTANCE Continuity WITH
    charges <- conCharges, Price <- {10, 14, 20}, Silence <- {3},
    MaxCharges <- 6, MaxEarly <- 2, MaxChanges <- 2, MaxOdd <- 3,
    Wait <- {4, 33}, MaxWaits <- 5

Lan == INSTANCE TemporalLanes WITH
    Payday <- {3, 16, 31}, Start <- {2, 6}, MaxLate <- 1, Delay <- {2},
    MaxBilled <- 9

\* Labels of three merchants whose names begin alike, and profiles of the same.
Label(merchant, active, more) ==
    more @@ [merchant |-> merchant, active |-> active, calendar |-> Nil, desc |-> Nil, cadence |-> Nil,
             lo |-> Nil, hi |-> Nil, date |-> 1, expected |-> Nil]

LabelList == <<
    Label(<<1>>, TRUE, [lo |-> 8, hi |-> 12]),
    Label(<<1>>, FALSE, [cadence |-> "monthly", date |-> 6]),
    Label(<<1, 2>>, TRUE, [calendar |-> 3, date |-> 12, expected |-> 10]),
    Label(<<1, 2>>, FALSE, [desc |-> "d", lo |-> 10]),
    Label(<<1, 2, 3>>, TRUE, [lo |-> 5, hi |-> 12, expected |-> 8, date |-> 9])>>

Profile(merchant, amt, date, more) ==
    more @@ [merchant |-> merchant, amt |-> amt, date |-> date, calendar |-> Nil, desc |-> Nil, cadence |-> "monthly"]

ProfileList == <<
    Profile(<<1>>, 10, 1, [cadence |-> "weekly"]),
    Profile(<<1>>, 9, 5, [desc |-> Nil]),
    Profile(<<1, 2>>, 12, 10, [calendar |-> 3]),
    Profile(<<1, 2>>, 10, 16, [desc |-> "d"]),
    Profile(<<1, 2, 3>>, 7, 4, [calendar |-> 4])>>

Mat == INSTANCE Matching WITH
    LabelOf <- LabelList, ProfileOf <- ProfileList, MaxLabels <- 3,
    MaxProfiles <- 3

\* Six transactions of two merchants over five months, the last the holdout's.
EvalRow(month, stream, expense, seen) ==
    [month |-> month, stream |-> stream, expense |-> expense, known |-> TRUE, seen |-> seen, odd |-> ~ seen]

EvalRows == {EvalRow(1, "a", TRUE, TRUE), EvalRow(2, "a", TRUE, FALSE), EvalRow(3, "a", TRUE, TRUE),
             EvalRow(4, "b", TRUE, TRUE), EvalRow(5, "b", TRUE, FALSE), EvalRow(5, "a", FALSE, TRUE)}

EvalLabels == {[stream |-> "a", from |-> Nil, until |-> Nil], [stream |-> "b", from |-> Nil, until |-> 3]}

EvalDue == {[month |-> 1, stream |-> "a", priced |-> FALSE], [month |-> 2, stream |-> "a", priced |-> FALSE],
            [month |-> 3, stream |-> "a", priced |-> TRUE], [month |-> 5, stream |-> "a", priced |-> TRUE],
            [month |-> 5, stream |-> "b", priced |-> FALSE]}

EvalSplit == [calibration |-> [first |-> 2, last |-> 2], validation |-> [first |-> 3, last |-> 4],
              holdout |-> [first |-> 5, last |-> 6]]

Evl == INSTANCE Evaluation WITH
    Row <- EvalRows, RecurringLabel <- EvalLabels, Due <- EvalDue,
    Split <- EvalSplit, DueMonths <- {3, 5}, MaxEdits <- 2, MaxRuns <- 2

\* Two payees, one of which charges once or twice a month.
Paydays == (p1 :> {5, 20} @@ p2 :> {20})

For == INSTANCE Forecast WITH
    rows <- paid, Payee <- {p1, p2}, AmountOf <- (p1 :> 10 @@ p2 :> 4),
    Payday <- Paydays, Skip <- {0, 1}, Cutoff <- {4, 15, 28}, MaxRows <- 6

parsingVars == <<headers, text>>

rulesVars == <<amounts, charges, counts>>

streamsVars == <<strCharges, dates>>

continuityVars == <<conCharges, today, report>>

lanesVars == <<plans, billed>>

matchingVars == <<labels, profiles, kind, utility, solver, pairs>>

evaluationVars == <<data, run, frozen, reports, evalCount>>

forecastVars == <<paid>>

Init ==
    /\ component \in {"parsing", "rules", "streams", "continuity", "lanes",
                       "matching", "evaluation", "forecast"}
    /\ Csv!Init
    /\ Rul!Init
    /\ Str!Init
    /\ Con!Init
    /\ Lan!Init
    /\ Mat!Init
    /\ Evl!Init
    /\ For!Init

Next ==
    \/ /\ component = "parsing" /\ Csv!Next
       /\ UNCHANGED <<component, rulesVars, streamsVars, continuityVars,
                       lanesVars, matchingVars, evaluationVars, forecastVars>>
    \/ /\ component = "rules" /\ Rul!Next
       /\ UNCHANGED <<component, parsingVars, streamsVars, continuityVars,
                       lanesVars, matchingVars, evaluationVars, forecastVars>>
    \/ /\ component = "streams" /\ Str!Next
       /\ UNCHANGED <<component, parsingVars, rulesVars, continuityVars,
                       lanesVars, matchingVars, evaluationVars, forecastVars>>
    \/ /\ component = "continuity" /\ Con!Next
       /\ UNCHANGED <<component, parsingVars, rulesVars, streamsVars,
                       lanesVars, matchingVars, evaluationVars, forecastVars>>
    \/ /\ component = "lanes" /\ Lan!Next
       /\ UNCHANGED <<component, parsingVars, rulesVars, streamsVars,
                       continuityVars, matchingVars, evaluationVars,
                       forecastVars>>
    \/ /\ component = "matching" /\ Mat!Next
       /\ UNCHANGED <<component, parsingVars, rulesVars, streamsVars,
                       continuityVars, lanesVars, evaluationVars, forecastVars>>
    \/ /\ component = "evaluation" /\ Evl!Next
       /\ UNCHANGED <<component, parsingVars, rulesVars, streamsVars,
                       continuityVars, lanesVars, matchingVars, forecastVars>>
    \/ /\ component = "forecast" /\ For!Next
       /\ UNCHANGED <<component, parsingVars, rulesVars, streamsVars,
                       continuityVars, lanesVars, matchingVars, evaluationVars>>

vars == <<component, parsingVars, rulesVars, streamsVars, continuityVars,
          lanesVars, matchingVars, evaluationVars, forecastVars>>

Spec == Init /\ [][Next]_vars

\* A statement is read as it was written.
ParsingRight == component = "parsing" => Csv!ParsingRight

\* The rules find what they define, and look back only.
RulesRight == Rul!RulesRight

\* Grouping, missed payments and projections agree.
StreamsRight == Str!StreamsRight

\* Streams go on through changes of price and silences.
ContinuityRight == component = "continuity" => Con!ContinuityRight

\* As many lanes as there are plans.
LanesRight == component = "lanes" => Lan!LanesRight

\* The assignment is the best, and its counts are true.
MatchingRight == component = "matching" => Mat!MatchingRight

\* The evaluation's splits, freezes and reports are kept apart.
EvaluationRight == component = "evaluation" => Evl!EvaluationRight

\* Every bill counts once, and forecasts look back only.
ForecastRight == For!ForecastRight
=============================================================================
