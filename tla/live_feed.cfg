SPECIFICATION Spec
CONSTANTS
    acme = acme
    globex = globex
    c1 = c1
    c2 = c2
    t1 = t1
    w1 = w1
    Tenants = {acme, globex}
    Consumers = {c1, c2}
    TenantOf <- MCTenantOf
    Tasks = {t1}
    Workers = {w1}
    Messages <- MCMessages
    NoName = NoName
    TaskCap = 2
    WorkerCap = 2
    MaxMessages = 2
    MaxFaults = 1
    Home = acme
    Topics <- MCTopics
    ChannelCap = 2
    TASK_LATEST_CAP = 1
    MaxAlerts = 1
    MaxCommands = 1
INVARIANTS
    IngestIsTrue
    FeedAddsUp
PROPERTIES
    FeedFlushes
CHECK_DEADLOCK FALSE
