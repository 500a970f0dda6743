SPECIFICATION Spec
CONSTANTS
    Paths = {"f", "g"}
    Absent = Absent
    Below <- MCBelow
    Lines = {"a", "b"}
    Calls <- MCCalls
    Starts <- MCStarts
    Edits <- MCEdits
    MaxReplacementLines = 2
    MaxDiffLines = 10
    MaxRetries = 1
    MaxCalls = 2
    MaxEdits = 2
CONSTRAINT Bound
INVARIANTS
    SummaryCounts
PROPERTIES
    ChangesApproved
    AsPreviewed
\* A run ends.
CHECK_DEADLOCK FALSE
