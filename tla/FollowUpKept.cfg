SPECIFICATION Spec
CONSTANTS
    s1 = s1
    r1 = r1
    r2 = r2
    Sessions <- MCSessions
    Routes <- MCRoutes
    DefaultRoute = r1
    MaxInputs = 4
INVARIANTS
    AcceptedFollowUpIsKept
CHECK_DEADLOCK FALSE
