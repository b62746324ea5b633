SPECIFICATION AllSpec
CONSTANTS
    MaxVer = 3
    MaxFail = 2
    MaxCrash = 1
    Keys = {k1}
    Timers = {w1}
    Runs = {r1, r2}
INVARIANTS TeamTypeOK AuditHonest PromptIsOnCards AnswerKept ResultAfterReports
    NeverReplayed
PROPERTIES CardsCatchUpInTime ResultDelivered OwnerTurnSafe EventsAreFollowed
CHECK_DEADLOCK FALSE
