SPECIFICATION Spec
CONSTANTS
    r1 = r1
    slack = slack
    pager = pager
    Rules = {r1}
    NoRule = NoRule
    Tenant = Tenant
    Channels = {slack, pager}
    RuleSeverities = {"warning", "critical"}
    Floor <- MCFloor
    Cooldown <- LongCooldown
    CleanupAge = 2
    MaxAge = 3
    Faults = {"write", "restart"}
    MaxFaults = 2
INVARIANTS
    TypeOK
    OneOpenIncident
PROPERTIES
    ClosedForCause
    ImplementsContract
    CooldownSeparatesIncidents
    SilenceHoldsNotifications
