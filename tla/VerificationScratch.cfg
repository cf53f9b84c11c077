SPECIFICATION LiveSpec
CONSTANTS
    a1 = a1  a2 = a2  c1 = c1  c2 = c2  s1 = s1  k1 = k1
    Attempts = {a1, a2}
    Owners = {a1, a2}
    Collectors = {c1, c2}
    Slots = {s1}
    Contracts = {k1}
    SlotOf <- MCSlotOf
    ContractOf <- MCContractOf
    Commands = {0, 1}
    Scenarios <- MCScenarios
    None = None
CHECK_DEADLOCK FALSE
INVARIANTS OneHand HonestRetirement
PROPERTIES ScenesKept AttemptsEnd
