SPECIFICATION Spec
CONSTANTS
    Nil = Nil
    p1 = p1
    p2 = p2
CHECK_DEADLOCK FALSE
INVARIANTS ParsingRight ContinuityRight LanesRight MatchingRight EvaluationRight
PROPERTIES RulesRight StreamsRight ForecastRight
