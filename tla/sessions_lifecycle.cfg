SPECIFICATION Spec
CONSTANTS
    acme = acme
    globex = globex
    m1 = m1
    i1 = i1
    i2 = i2
    r1 = r1
    r2 = r2
    Orgs = {acme, globex}
    Links = {m1}
    Invites = {i1, i2}
    InviteOrg <- MCInviteOrg
    Requests = {r1, r2}
    NoTicket = NoTicket
    NoOrg = NoOrg
    AllowSignup = FALSE
    MaxTokens = 2
SYMMETRY MCSymmetry
INVARIANTS
    TypeOK
    RotationKeepsASession
    WithdrawalHolds
PROPERTIES
    ImplementsTickets
CHECK_DEADLOCK FALSE
