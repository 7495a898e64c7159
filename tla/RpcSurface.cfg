SPECIFICATION RpcFairSpec
CONSTANTS
    root = root
    branch = branch
    r1 = r1
    r2 = r2
    Sessions <- MCSessions
    Routes <- MCRoutes
    DefaultRoute = r1
    Root = root
    MaxInputs = 2
    MaxNodes = 2
INVARIANTS
    OneTurnAcrossGraph
    RouteFollowsInputOrder
PROPERTIES
    ForkEndsAtUserMessage
    EndOfInputCloses
CHECK_DEADLOCK FALSE
