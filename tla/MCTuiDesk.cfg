SPECIFICATION DeskSpec
CONSTANTS
    a1 = a1
    a2 = a2
    o1 = o1
    o2 = o2
    o3 = o3
    Agents <- MCAgents
    Operations <- MCOperations
    Commands <- MCCommands
    MaxEvents = 4
INVARIANTS
    WaiterReachable
    TurnTracked
PROPERTIES
    QuestionsAnswered
