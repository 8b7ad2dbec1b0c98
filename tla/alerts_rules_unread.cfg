SPECIFICATION Spec
CONSTANTS
    r1 = r1
    slack = slack
    pager = pager
    Rules = {r1}
    NoRule = NoRule
    Tenant = Tenant
    Channels = {slack}
    RuleSeverities = {"warning"}
    Floor <- SlackOnly
    Cooldown <- ShortCooldown
    CleanupAge = 1
    MaxAge = 1
    Faults = {"rules_read"}
    MaxFaults = 1
PROPERTIES
    ClosedForCause
