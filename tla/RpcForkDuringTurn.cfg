SPECIFICATION RpcSpec
CONSTANTS
    root = root
    branch = branch
    r1 = r1
    r2 = r2
    Sessions <- MCSessions
    Routes <- MCRoutes
    DefaultRoute = r1
    Root = root
    MaxInputs = 2
    MaxNodes = 2
INVARIANTS
    RunningTurnIsActive
CHECK_DEADLOCK FALSE
