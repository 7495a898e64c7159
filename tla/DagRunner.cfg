SPECIFICATION FairSpec
CONSTANTS
    N = 4
    Concurrency = 2
    MaxReplans = 2
    Plans <- MCPlans
    HookAnswers = {"continue", "reject", "replan", "abort"}
INVARIANTS
    TypeOK
    BooksAgree
    InputsComplete
    NoIdleSlot
    NoOrphanWait
PROPERTIES
    RunEnds
CHECK_DEADLOCK FALSE
