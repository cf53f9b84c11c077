SPECIFICATION Spec
CONSTANTS
    a = a  b = b  main = main  d1 = d1  d2 = d2  x = x  chk = chk  rev = rev
    Contracts = {a}
    Branches = {main}
    Documents = {d1, d2}
    Changes = {x}
    Checks = {chk}
    Reviewed = rev
    Foreign = Foreign
    None = None
    Terms <- GateTerms
    Ulids <- MCUlids
    MaxUlid = 7
    Mint <- MCMint
    HeadRef = main
    MaxHistory = 1
    Binds = 1  Amends = 1  Delivers = 1  Reintegrations = 1  Testimonies = 2  Arcs = 1  Ends = 1
    Room <- MCRoom
CHECK_DEADLOCK FALSE
INVARIANTS ClaimedJudged TerminalLast
PROPERTIES FoldNeverThrows
