SPECIFICATION LiveSpec
CONSTANTS
    Stoppers = {user, recovery}
    Recovery = recovery
    MaxCreates = 1
    MaxCrashes = 1
PROPERTIES BootstrapTaskSettles
CHECK_DEADLOCK FALSE
