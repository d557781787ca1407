SPECIFICATION FairSpec
CONSTANTS
    Handle = {h1, h2}
    Loop = {main, l1, l2}
    MainLoop = main
    Prio <- MCPrio
    MaxDepth = 5
    NoSource = NoSource
INVARIANTS LoopConsistent StopPassedOn SigintInOrder
PROPERTY HandleRuns
CHECK_DEADLOCK FALSE
