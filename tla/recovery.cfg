\* One process: an error, a crash and a restart; every task still ends.
SPECIFICATION FairSpec
CONSTANTS
    p1 = p1
    p2 = p2
    t1 = t1
    t2 = t2
    local = local
    routed = routed
    hub = hub
    NoAgent = NoAgent
    Procs = {p1}
    Tasks = {t1}
    Home <- OneHome
    Agents = {local, hub}
    HubAgents = {hub}
    RoutedAgents = {}
    HubUrl = TRUE
    BasePrice <- Prices
    Budget <- Budgets
    MaxMatches = 2
    MaxAttempts = 2
    SweepOn = TRUE
    Overrun = TRUE
    MaxFaults = 1
    MaxCrashes = 1
PROPERTIES
    EveryTaskEnds
    CompletedIsFinal
