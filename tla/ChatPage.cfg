\* One submission and a message of another user, three loads, three connections.
SPECIFICATION FairSpec
CONSTANTS
    Others = {o1}
    Submits = {s1}
    HistorySize = 1
    MaxLoads = 3
    MaxConnections = 3
    MaxTexts = 3
INVARIANTS
    TwiceOnlyAcrossLoad
    MissedOnlyInGap
    TextKept
PROPERTY
    StoredIsShown
\* Stops when the bounds are reached.
CHECK_DEADLOCK FALSE
