SPECIFICATION Spec
CONSTANTS
    Users = {u1}
    Tokens = {t1, t2}
    Requests = {r1, r2}
    Kinds = {"login", "refresh", "logout", "revokeOne", "revokeAll"}
    MaxEpoch = 2
    Faults = TRUE
    Expiry = TRUE
    None = None
SYMMETRY SessionSymmetry
INVARIANT RevokedFamiliesAreOut
