SPECIFICATION TaskSpec
\* The delegated task ends.
CHECK_DEADLOCK FALSE
CONSTANTS
    MaxTries = 2
    MaxTurns = 2
    MaxAttempts = 2
    MaxRuns = 2
INVARIANTS
    NothingLeftRunning
    FinishedUnlessCut
    InterruptStops
PROPERTIES
    TaskEnds
