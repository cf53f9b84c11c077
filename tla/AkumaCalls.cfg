SPECIFICATION LiveSpec
CONSTANTS
    p = p  q = q  e = e  n = n  m = m  k = k  l = l
    None = None
    Callers <- MCCallers
    Elders <- MCElders
    Names <- MCNames
    Contracts <- MCContracts
    Scenarios <- MCScenarios
CHECK_DEADLOCK FALSE
INVARIANTS OneFate HonestCall
PROPERTIES RetiredUnneeded CallsEnd
