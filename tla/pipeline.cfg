\* One task and two processes that sweep: errors and a crash anywhere.
SPECIFICATION Spec
CONSTANTS
    p1 = p1
    p2 = p2
    t1 = t1
    t2 = t2
    local = local
    routed = routed
    hub = hub
    NoAgent = NoAgent
    Procs = {p1, p2}
    Tasks = {t1}
    Home <- OneHome
    Agents = {local, routed, hub}
    HubAgents = {hub}
    RoutedAgents = {routed}
    HubUrl = TRUE
    BasePrice <- Prices
    Budget <- Budgets
    MaxMatches = 3
    MaxAttempts = 2
    SweepOn = TRUE
    Overrun = TRUE
    MaxFaults = 1
    MaxCrashes = 1
INVARIANTS
    PipelineInv
    ConsumerExposure
    CompletedIsPaid
    HoldsAreGuarded
    AnnouncedIsSettled
    TrailIsLedger
