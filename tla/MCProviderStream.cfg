SPECIFICATION StreamSpec
CONSTANTS
    MaxPieces = 4
    MaxCalls = 2
    Contents <- MCContents
    ServerIds <- MCServerIds
CONSTRAINT Bound
INVARIANTS
    ShownIsAnswer
    CallsAsMade
\* A response ends.
CHECK_DEADLOCK FALSE
