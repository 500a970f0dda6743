SPECIFICATION Spec
CONSTANTS
    m = m
    s = s
    Main = m
    Sub = s
    MaxItems = 5
    MaxEvents = 5
    MaxTurns = 2
INVARIANTS
    TextShownOnce
    WaitRowsClosed
    SummaryExact
\* The interface waits for a request that the bounds do not allow.
CHECK_DEADLOCK FALSE
