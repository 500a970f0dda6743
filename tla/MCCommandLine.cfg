SPECIFICATION CliSpec
CONSTANTS
    Procs = {p1, p2}
    Ids = {i1, i2}
    Skills = {s1, s2}
    Absent = Absent
    Foreign = Foreign
    MaxLaunches = 3
    MaxTurns = 2
    MaxFaults = 1
SYMMETRY Symmetry
INVARIANTS
    ConversationKept
    StartsWhole
\* The terminals are left alone.
CHECK_DEADLOCK FALSE
