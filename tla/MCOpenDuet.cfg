SPECIFICATION Spec
CONSTANTS
    MaxRuns = 2
    MaxSignals = 2
    MaxFailures = 2
    BuildTree <- MCBuildTree
INVARIANTS
    TypeOK
    SuccessMeansInstalled
PROPERTIES
    OverwrittenIsSaved
    FatNeverLost
CHECK_DEADLOCK FALSE
