SPECIFICATION QueriesSpec
CONSTANTS
    t1 = t1
    t2 = t2
    t3 = t3
    red = red
    default = default
    Tasks = {t1, t2, t3}
    Origins <- MCOrigins
    Brokers = {red}
    None = None
    Carrying = {"task-sent", "task-received"}
    MayLackName = {"task-failed"}
    MINUTE = 2
    MaxClock = 3
    MaxEvents = 3
    MaxBatch = 2
    PageLimit = 1
    Unknown = Unknown
    Asked <- MCAsked
    MAX_DEPTH = 4
    AnyName = AnyName
    Windows = {1, 2}
    TaskNameLimit = 1
    FailureLimits = {1, 2}
    Conditions <- MCConditions
    Readings <- MCReadings
    DEFAULT_WINDOW_MINUTES = 1
    ANOMALY_BASELINE = 2
    MAX_WINDOW_MINUTES = 2
    MAX_BASELINE = 2
    NO_EVENTS_LOOKBACK = 3
    MIN_CURRENT_SAMPLES = 1
    MIN_BASELINE_SAMPLES = 1
    MIN_SPIKE_SAMPLES = 1
    SPIKE_FACTOR_CAP = 999
INVARIANT FailedStepShows
CHECK_DEADLOCK FALSE
