SPECIFICATION LiveSpec
CONSTANTS
    MaxGen = 3
    MaxClock = 2
    MaxCrash = 1
INVARIANTS
    TypeOK
    ReleasedAnswerIsCurrent
    DeclarationCurrent
    DeliveredWasReceived
PROPERTIES
    DeliverySettles
    ImplementsContract
