SPECIFICATION Spec
\* The session has been closed.
CHECK_DEADLOCK FALSE
SYMMETRY Symmetry
CONSTANTS
    t1 = t1
    t2 = t2
    f1 = f1
    Callers <- MCCallers
    Closer = Closer
    Files <- MCFiles
    NoFile = NoFile
    ServerIds <- MCServerIds
    MaxCalls = 3
    MaxServers = 2
CONSTRAINT Bound
INVARIANTS
    OwnAnswer
    ServerUsedProperly
    ServersStopped
