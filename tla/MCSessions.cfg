SPECIFICATION AllSpec
CONSTANTS
    Channels = {c1}
    Accounts = {a, b}
    First = a
    Requests = {1, 2}
    None = None
    MaxTask = 1
    Restarts = TRUE
    Tasks = {t1}
    Prompts = {p1}
INVARIANTS SessionsTypeOK HandoverSound ReviewedAndDriven PeerTurnsKept RequestsSound
PROPERTIES TaskKept  SessionsSettle
CHECK_DEADLOCK FALSE
