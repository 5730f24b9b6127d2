\* Four sends and two polls with data, a stop at any moment.
SPECIFICATION FairSpec
CONSTANTS
    MaxSends = 4
    MaxReceived = 2
INVARIANTS
    NoEmptyBatch
    ResolvedMeansAccepted
    AcceptedInOrder
    CloseOnceAfterDelete
PROPERTIES
    NoPostAfterDelete
    StopCompletes
    EverySendSettles
\* Stops when the connection is closed, and may stop before.
CHECK_DEADLOCK FALSE
