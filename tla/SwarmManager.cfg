SPECIFICATION FairSpec
CONSTANTS
    MaxTasks = 4
    Concurrency = 2
    MaxMandate = 1
    Judged = {1}
INVARIANTS
    NoIdleSlot
    SiblingIsolation
    DoneNeedsEvidence
PROPERTIES
    ImplementsPool
    QueuedIsServed
CHECK_DEADLOCK FALSE
