\* A registration and its repetition on one process or two, a binding, a
\* failing statement, a crash.  Two local agents, replies of up to two entries,
\* room for two matches.  One agent and two tasks; a day that is over with
\* the next tick.
SPECIFICATION MCSpec
CONSTANTS
    Procs = {p1, p2}
    Requests = {r1, r2}
    Facts <- Typical
    Wallets = {w}
    NoWallet = none
    Crypto = TRUE
    MaxBinds = 1
    MaxFaults = 1
    MaxCrashes = 1
    Agents = {a1, a2}
    MaxListed = 2
    Budgets = {2, 4}
    MaxMatches = 2
    SkipDemo = TRUE
    NaN = NaN
    Junk = Junk
    RawMatches <- Numbers
    Members = {a1}
    Tasks = {t1, t2}
    Day = 0
    MaxHops = 1
    MaxTime = 1
INVARIANTS
    VerifiedIsEarned
    WalletsAsAsked
    FeedIsTrue
    AnswerStays
    BestFirst
    FiguresBracketed
CHECK_DEADLOCK FALSE
