SPECIFICATION Spec
CONSTANTS
    n1 = n1
    n2 = n2
    r1 = r1
    r2 = r2
    r3 = r3
    Nonces = {n1, n2}
    Requests = {r1, r2, r3}
    NoNonce = NoNonce
    MaxGen = 2
    MaxFaults = 2
SYMMETRY MCSymmetry
INVARIANTS
    TypeOK
    NonceIsSingleUse
    ListIsCurrent
CHECK_DEADLOCK FALSE
