SPECIFICATION Spec
CONSTANTS
    t1 = t1  t2 = t2
    Tells = {t1, t2}
    Activities = {"answer", "start", "finish"}
    Outcomes = {"answered"}
    Limit = 2
    Slack = 1
    TailBudget = 1
    VoiceBudget = 1
    MaxFacts = 5
    MaxBodies = 2
    None = None
SYMMETRY Interchangeable
CHECK_DEADLOCK FALSE
INVARIANT StatusAgrees
PROPERTIES PruningIsSafe RowsOnlyAppend
