SPECIFICATION Spec
\* The session may stop: the user need not send anything more.
CHECK_DEADLOCK FALSE
CONSTANTS
    Rounds <- MCRounds
    MaxRounds = 1
    KeepRecent = 2
    Facts <- MCFacts
    TaskFacts <- MCTaskFacts
    Preview <- MCPreview
    MaxMerged = 1
    MaxTurns = 4
    MaxOpenings = 2
    MaxRestarts = 1
CONSTRAINT Bound
INVARIANTS
    ProviderAccepts
    SavedAtRest
PROPERTIES
    RecentKept
    MergeKeepsFacts
    HistoryKept
    ManualAsChosen
