SPECIFICATION FairSpec
CONSTANTS
    i1 = i1
    chat = chat
    page = page
    hook = hook
    Incidents = {i1}
    NoIncident = NoIncident
    Channels = {chat, hook, page}
    Kind <- MCKind
    Key <- MCKey
    MaxRetryLen = 1
    DrainBatch = 2
    Answers = {"accepted", "client_error", "server_error"}
    Faults = {"record", "log", "redis", "tenant_read", "restart"}
    MaxFaults = 2
CHECK_DEADLOCK FALSE
INVARIANTS
    TypeOK
    RetriesWithinBudget
    LogTellsSends
    RetryNotForgotten
PROPERTIES
    RetriesSettle
