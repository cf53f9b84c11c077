CONSTANTS
    c1 = c1
    c2 = c2
    t1 = t1
    t2 = t2
    None = None
    Tells <- MCTells
    SchemaTells = {}
    MaxHosts = 3
    Clients <- MCClients
    Agendas <- FaultyAgendas
    Providers <- MCProviders
    Faults <- AnyFault
    MaxFaults = 1
SPECIFICATION Spec
INVARIANT CustodyEnds
