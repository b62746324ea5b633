SPECIFICATION Spec
CONSTANTS
    MaxGen = 2
    MaxClock = 1
    MaxCrash = 0
PROPERTY DispatchingUntilAcknowledged
