SPECIFICATION Spec
\* The server stops.
CHECK_DEADLOCK FALSE
CONSTANTS
    s1 = s1
    s2 = s2
    Sids <- MCSids
    NoSession = NoSession
    MaxLines = 3
    MaxEvents = 2
INVARIANTS
    AnsweredInOrder
    UpdatesInside
    ControllerTracksPrompt
PROPERTIES
    EofStops
