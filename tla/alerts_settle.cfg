SPECIFICATION FairSpec
CONSTANTS
    r1 = r1
    slack = slack
    pager = pager
    Rules = {r1}
    NoRule = NoRule
    Tenant = Tenant
    Channels = {slack}
    RuleSeverities = {"warning"}
    Floor <- SlackOnly
    Cooldown <- ShortCooldown
    CleanupAge = 1
    MaxAge = 1
    Faults = {"rules_read", "open_read", "silence_read", "write", "restart"}
    MaxFaults = 2
PROPERTIES
    IncidentsFollowConditions
