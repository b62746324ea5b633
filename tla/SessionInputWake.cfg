SPECIFICATION Spec
CONSTANTS
    MaxMsg = 2
    MaxBindings = 2
    MaxWakes = 1
    Generations = 5
    Attempts = 2
    MaxTorn = 0
PROPERTY WakesOnlyDormant
CHECK_DEADLOCK FALSE
