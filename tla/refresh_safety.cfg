SPECIFICATION Spec
CONSTANTS
    Users = {u1, u2}
    Tokens = {t1, t2, t3}
    Requests = {r1, r2}
    Kinds = {"login", "refresh", "logout", "revokeOne", "revokeAll"}
    Expiry = TRUE
    None = None
SYMMETRY RowSymmetry
INVARIANTS TypeOK OneLiveRow RedeemedOnce
PROPERTIES FamilyDeathIsFinal RevokesOwnRows
