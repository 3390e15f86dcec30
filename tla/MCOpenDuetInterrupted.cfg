\* One run of the tool, one signal, no failing command.
SPECIFICATION Spec
CONSTANTS
    MaxRuns = 1
    MaxSignals = 1
    MaxFailures = 0
    BuildTree <- MCBuildTree
INVARIANT CaptureBeforeTouch
CHECK_DEADLOCK FALSE
