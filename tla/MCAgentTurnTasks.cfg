SPECIFICATION FairSpec
CONSTANTS
    Ids = {"a"}
    NoId = "none"
    Lists <- MCLists
    Notes = {}
    MaxItems = 1
    Attempts = 4
    RoundsCap = 1
    Paths = {"code", "doc"}
    CodePaths = {"code"}
    Calls <- TaskCalls
    MaxBatch = 2
    RecursionLimit = 5
    Entries = {"send"}
INVARIANTS
    FinishedMeansPlanned
    TodoTypeOK
    FinishMeansListCompleted
    CurrentListUnfinished
    RepeatIsAboutCurrentList
PROPERTIES
    TurnEnds
