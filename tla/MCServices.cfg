SPECIFICATION AllSpec
CONSTANTS
    Stoppers = {user, recovery}
    Recovery = recovery
    Statuses = {u1, u2}
    Sockets = {s1, s2}
    Keys = {k1, k2}
    NoKey = NoKey
    MaxCrashes = 1
INVARIANTS ServicesTypeOK AtMostOnceThenQuiet  OlderAreFenced
    RevokedStaysOut StatusLineTrue TreeSound
PROPERTIES  ServicesSettle QueueDrains AuthorityFollowsTask
CHECK_DEADLOCK FALSE
