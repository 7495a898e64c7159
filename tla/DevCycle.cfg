SPECIFICATION FairSpec
CONSTANTS
  MaxIterations = 3
  TokenBudget = 2
  GuardCap = 7
  HistoryCap = 10
  RerunCap = 2
  MaxStops = 2
  MaxReopens = 1
  None = None
INVARIANTS
  ShipsOnce
  EditsAreBudgeted
  ResumeDataIsCurrent
  SavesAccepted
PROPERTIES
  CycleReports
CHECK_DEADLOCK FALSE
