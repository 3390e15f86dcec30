SPECIFICATION Spec
CONSTANTS
    MaxRuns = 1
    MaxSignals = 0
    MaxFailures = 1
INVARIANT
    MediaAsDocumented
CHECK_DEADLOCK FALSE
