SPECIFICATION Spec
CONSTANTS
    N = 4
    Concurrency = 2
    MaxReplans = 1
    Plans <- MCPlans
    HookAnswers = {"continue", "replan"}
INVARIANT ReturnedIsSettled
CHECK_DEADLOCK FALSE
