CONSTANTS
    c1 = c1
    c2 = c2
    t1 = t1
    t2 = t2
    None = None
    Tells <- MCTells
    SchemaTells <- SecondTell
    MaxHosts = 3
    Clients <- MCClients
    Agendas <- CalmAgendas
    Providers <- MCProviders
    Faults <- Faultless
    MaxFaults = 0
SPECIFICATION LiveSpec
INVARIANT HonestWake
INVARIANT InterruptedNeverReceives
PROPERTY EveryoneEnds
PROPERTY TakenOnce
