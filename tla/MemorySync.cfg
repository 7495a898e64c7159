SPECIFICATION Spec
CONSTANTS
    Clients = {p1, p2}
    Base = base
    NoOwner = none
    NumFacts = 1
    MaxVersion = 2
    MaxTime = 2
CONSTRAINT SearchBound
SYMMETRY ClientSymmetry
INVARIANTS
    HonchoTakesOnce
    CheckpointsAreTrue
    IntentCovers
PROPERTIES
    LedgerNeverRegresses
    LockIsMutex
CHECK_DEADLOCK FALSE
