SPECIFICATION FairSpec
CONSTANTS
    Families <- MCFamilies
    MaxToolCalls = 2
    MaxRetries = 1
    ProviderRetries = 1
    MaxCalls = 2
    MaxSteers = 2
INVARIANTS
    AttemptsAreBudgeted
    BudgetCountsExecutions
    RequestIsComplete
    NotesDelivered
PROPERTIES
    AbortIsBoundary
    CommittedCalls
    TurnEnds
CHECK_DEADLOCK FALSE
