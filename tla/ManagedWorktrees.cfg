SPECIFICATION LiveSpec
CONSTANTS
    p1 = p1  p2 = p2  a = a  b = b
    None = None
    Processes = {p1, p2}
    Contracts = {a, b}
    Places = {1, 2, 3}
    Rank <- MCRank
    Scenarios <- MCScenarios
CHECK_DEADLOCK FALSE
INVARIANT PlacesHeld
PROPERTIES OwnBytesSealed CustodyKept CleanedUp
