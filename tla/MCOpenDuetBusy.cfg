\* One run of the tool, no signal; umount finds the ESP busy.
SPECIFICATION Spec
CONSTANTS
    MaxRuns = 1
    MaxSignals = 0
    MaxFailures = 2
    BuildTree <- MCBuildTree
PROPERTY EspTreeKept
CHECK_DEADLOCK FALSE
