SPECIFICATION FairSpec
CONSTANTS
    ann = ann
    bob = bob
    k1 = k1
    home = home
    other = other
    Members = {ann, bob}
    Founder = ann
    Keys = {k1}
    Requests = {q1, q2}
    q1 = q1
    q2 = q2
    ScopeSets <- MCScopes
    NoRole = NoRole
    NoKey = NoKey
    Tenants = {home, other}
    Home = home
    Asks <- MCAsks
    Default <- MCDefault
    MaxSaves = 2
    MaxFaults = 1
INVARIANTS
    SettingsTypeOK
PROPERTIES
    RemovalIsFinal
    LastManagerStays
    RetentionIsEnforced
CHECK_DEADLOCK FALSE
