SPECIFICATION LiveSpec
CONSTANTS
    p1 = p1  p2 = p2  a = a  b = b  main = main  d1 = d1  x = x  y = y  chk = chk  rev = rev
    Contracts = {a, b}
    Branches = {main}
    Documents = {d1}
    Changes = {x, y}
    Checks = {chk}
    Reviewed = rev
    Foreign = Foreign
    None = None
    Terms <- MCTerms
    Writers = {p1, p2}
    Scenarios <- Races
    HeadRef = main
    Conflicts <- YAfterForeign
    MaxOps = 3
CHECK_DEADLOCK FALSE
INVARIANT VerdictTruthful
PROPERTIES ImplementsLedger NoRedundantFact WitnessedContent OpsEnd
