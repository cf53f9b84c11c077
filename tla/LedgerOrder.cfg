SPECIFICATION Spec
CONSTANTS
    a = a  b = b  main = main  d1 = d1  d2 = d2  x = x  chk = chk  rev = rev
    Contracts = {a, b}
    Branches = {main}
    Documents = {d1}
    Changes = {x}
    Checks = {}
    Reviewed = rev
    Foreign = Foreign
    None = None
    Terms <- OrderTerms
    Ulids <- MCUlids
    MaxUlid = 5
    Mint <- MCMint
    HeadRef = main
    MaxHistory = 1
    Binds = 1  Amends = 1  Delivers = 1  Reintegrations = 1  Testimonies = 0  Arcs = 0  Ends = 1
    Room <- MCRoom
SYMMETRY Interchange
CHECK_DEADLOCK FALSE
INVARIANTS AfterAcyclic PrerequisitesLandFirst NoLostLanding
