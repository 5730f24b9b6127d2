\* Two starts, two attempts to reconnect, one invocation.
SPECIFICATION FairSpec
CONSTANTS
    Invocations = {i1}
    Retries = 2
    MaxStarts = 2
INVARIANTS
    ConnectedMeansShaken
    DisconnectedMeansClosed
    ToldTheTruth
    NoOrphanedCall
    OneServerTimeout
PROPERTY
    StartAndStopEnd
\* The hub may stay disconnected.
CHECK_DEADLOCK FALSE
