\* One handler fails once; no connection is lost.
SPECIFICATION FairSpec
CONSTANTS
    Messages = {m1, m2}
    None = None
    MaxRetryCount = 3
    SharesConnection = FALSE
    MaxLosses = 0
    MaxFailures = 1
PROPERTY
    EveryMessageSettled
\* Stops when every message is settled, and may stop before.
CHECK_DEADLOCK FALSE
