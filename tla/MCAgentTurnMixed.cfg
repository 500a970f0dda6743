SPECIFICATION Spec
CONSTANTS
    Ids = {"a"}
    NoId = "none"
    Lists <- MCLists
    Notes = {}
    MaxItems = 1
    Attempts = 4
    RoundsCap = 1
    Paths = {"code", "doc"}
    CodePaths = {"code"}
    Calls <- WriteCalls
    MaxBatch = 2
    RecursionLimit = 6
    Entries = {"send", "send_stream"}
PROPERTIES
    MixedChangesVerified
