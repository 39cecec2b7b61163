SPECIFICATION Spec
CONSTANTS
    Users = {u1}
    Tokens = {t1, t2, t3}
    Requests = {r1, r2}
    Kinds = {"login", "refresh", "logout", "revokeOne", "revokeAll"}
    MaxEpoch = 2
    Faults = FALSE
    Expiry = FALSE
    None = None
SYMMETRY SessionSymmetry
INVARIANTS TypeOK RevokedFamiliesAreOut
PROPERTY DrainedIsFinal
