CONSTANTS
    c1 = c1
    c2 = c2
    t1 = t1
    t2 = t2
    None = None
    Tells <- MCTells
    SchemaTells = {}
    MaxHosts = 3
    Clients <- OneClient
    Agendas <- OneTell
    Providers <- Deaf
    Faults <- FailureOnly
    MaxFaults = 1
SPECIFICATION Spec
INVARIANT DispositionsSettle
