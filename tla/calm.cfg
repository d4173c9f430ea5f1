\* Two tasks on one event loop; no crash, no statement error, no run that
\* outlasts task_stale_seconds, and no hub: a routed agent has no address.
SPECIFICATION FairSpec
CONSTANTS
    p1 = p1
    p2 = p2
    t1 = t1
    t2 = t2
    local = local
    routed = routed
    hub = hub
    NoAgent = NoAgent
    Procs = {p1}
    Tasks = {t1, t2}
    Home <- OneHome
    Agents = {local, routed}
    HubAgents = {}
    RoutedAgents = {routed}
    HubUrl = FALSE
    BasePrice <- Prices
    Budget <- Budgets
    MaxMatches = 2
    MaxAttempts = 2
    SweepOn = TRUE
    Overrun = FALSE
    MaxFaults = 0
    MaxCrashes = 0
INVARIANTS
    SpentIsLedger
    OneEnding
    PaidIsChecked
    AcceptedIsReleased
PROPERTIES
    TerminalIsFinal
    EveryHoldSettles
    LedgerSpec
