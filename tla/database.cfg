\* Two callers, four calls, every operation may fail, a crash; a pool of two.
\* One row per table, one write, two interruptions.  Two processes starting on
\* tables of any age, three faults.  Statements of up to six characters.
SPECIFICATION MCSpec
CONSTANTS
    Callers = {c1, c2}
    Pooled = TRUE
    PoolSize = 2
    Faults = {"execute", "fetch", "commit"}
    MaxCalls = 4
    MaxCrashes = 1
    Ids = {r}
    MaxVersion = 2
    HasExecutemany = TRUE
    MaxWrites = 1
    MaxFailures = 2
    Procs = {p, q}
    NTables = 4
    NColumns = 5
    MaxFaults = 3
    Characters = {"?", "'", "''", "x"}
    MaxLength = 6
INVARIANTS
    PoolSuffices
    FinishedIsCopy
    ServedTables
    OnlyPlaceholders
PROPERTIES
    AtomicSpec
    LiteIsAtomic
    NeverOlder
    StartsComeUp
CHECK_DEADLOCK FALSE
