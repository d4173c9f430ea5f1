\* Feed: two processes, two events per poll.  Page: a replay of two, a poll of
\* two, a list of two.  Lists: two refreshes under way, one change, one failure.
SPECIFICATION MCSpec
CONSTANTS
    Others = {q}
    Limit = 2
    MaxEvents = 4
    MaxSecond = 2
    PollLimit = 2
    Keep = 2
    PageEvents = 3
    PageSeconds = 1
    Slots = {s1, s2}
    MaxChanges = 1
    MaxFailures = 1
INVARIANTS
    StreamInv
    OnlyTiesSkipped
    ShownOnce
PROPERTIES
    SentIsShown
    ListsSettle
CHECK_DEADLOCK FALSE
