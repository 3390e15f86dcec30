SPECIFICATION Spec
CONSTANTS
    MaxRuns = 1
    MaxSignals = 1
    MaxFailures = 0
INVARIANT
    CompletedMeansUpdated
CHECK_DEADLOCK FALSE
