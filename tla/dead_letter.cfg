\* A run that outlasts task_stale_seconds meets the sweep.
SPECIFICATION Spec
CONSTANTS
    p1 = p1
    p2 = p2
    t1 = t1
    t2 = t2
    local = local
    routed = routed
    hub = hub
    NoAgent = NoAgent
    Procs = {p1}
    Tasks = {t1}
    Home <- OneHome
    Agents = {local}
    HubAgents = {}
    RoutedAgents = {}
    HubUrl = TRUE
    BasePrice <- Prices
    Budget <- Budgets
    MaxMatches = 1
    MaxAttempts = 1
    SweepOn = TRUE
    Overrun = TRUE
    MaxFaults = 0
    MaxCrashes = 0
INVARIANTS
    DeadLetterIsRecovery
