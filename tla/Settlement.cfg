SPECIFICATION LiveSpec
CONSTANTS
    w1 = w1  w2 = w2  a = a  b = b  t1 = t1  t2 = t2
    DebtIds = {1, 2, 3}
    Workers = {w1, w2}
    Texts = {t1, t2}
    Manual <- MCManual
    Now = 1
    Corrupt = Corrupt
    None = None
    Contracts = {a, b}
    Scenarios <- MCScenarios
CHECK_DEADLOCK FALSE
INVARIANT ViewsAgree
PROPERTIES PromiseKept HonestReport NeverClobber InvocationsEnd
