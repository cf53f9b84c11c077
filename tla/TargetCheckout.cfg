SPECIFICATION LiveSpec
CONSTANTS
    p1 = p1  p2 = p2  c1 = c1  c2 = c2  w1 = w1  w2 = w2
    shared = shared  hidden = hidden  other = other
    None = None
    Contracts = {c1, c2}
    Completers = {p1, p2}
    Reconciler = Reconciler
    Checkouts = {w1, w2}
    Paths = {shared, hidden, other}
    Ignored = {hidden}
    Change <- MCChange
    Scenarios <- MCScenarios
CHECK_DEADLOCK FALSE
INVARIANT HonestOutcome
PROPERTIES UserBytesSurvive CompletionsEnd NotLeftBehind
