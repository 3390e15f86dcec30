SPECIFICATION Spec
CONSTANTS
    MaxRuns = 2
    MaxSignals = 1
    MaxFailures = 2
INVARIANTS
    TypeOK
    SuccessMeansUpdated
PROPERTIES
    OldTreeKept
    BootSectorsLast
CHECK_DEADLOCK FALSE
