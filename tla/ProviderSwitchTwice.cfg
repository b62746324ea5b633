SPECIFICATION Spec
CONSTANTS
    MaxSwitches = 1
    MaxRuns = 2
    MaxMsgs = 1
    MaxFaults = 1
    MaxCrashes = 0
    Reruns = TRUE
    Overlap = FALSE
INVARIANT OneLeg
CHECK_DEADLOCK FALSE
