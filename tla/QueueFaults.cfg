\* Two messages, one retry, losses and failures in every order.
SPECIFICATION FairSpec
CONSTANTS
    Messages = {m1, m2}
    None = None
    MaxRetryCount = 1
    SharesConnection = TRUE
    MaxLosses = 3
    MaxFailures = 4
INVARIANTS
    NoLoss
    RetriesAreExact
    WedgedOnlyByRetry
PROPERTIES
    KeepsPromise
    SettledUnlessFailing
\* Stops when every message is settled, and may stop before.
CHECK_DEADLOCK FALSE
