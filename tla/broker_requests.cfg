SPECIFICATION FairSpec
CONSTANTS
    q1 = q1
    q2 = q2
    t1 = t1
    t2 = t2
    Requests = {q1, q2}
    Tasks = {t1, t2}
    NoTask = NoTask
    Outcomes = {"runs", "unreadable", "unsupported"}
    Faults = {"db", "unheard", "restart", "unlisted"}
    MaxFaults = 1
INVARIANTS
    TypeOK
    OneConsumerInTurn
    ConsumerIffActive
    RestIsNotConnected
PROPERTIES
    ConsumersStopAndServe
