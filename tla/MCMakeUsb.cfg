SPECIFICATION Spec
CONSTANTS
    MaxRuns = 2
    MaxSignals = 1
    MaxFailures = 2
INVARIANTS
    TypeOK
    SuccessMeansBootable
    SuccessMeansInstaller
    FallbackHasSource
CHECK_DEADLOCK FALSE
