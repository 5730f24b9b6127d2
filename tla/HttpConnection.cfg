\* Three starts, every fallback, a stop at any moment.
SPECIFICATION FairSpec
CONSTANTS
    None = None
    Offers <- MCOffers
    MaxRedirects = 2
    MaxStarts = 3
INVARIANTS
    QueueIsOfThisStart
    NoTransportLeft
PROPERTIES
    KeepsPromise
    StartAndStopSettle
\* Stops after the last start.
CHECK_DEADLOCK FALSE
