SPECIFICATION ServerSpec
CONSTANTS
    Scope = {"sharing", "signup"}
    Users = {u1, u2}
    Vaults = {v1}
    Rows = {k1, k2, k3}
    Requests = {r1, r2, r3}
    Accounts = {u1, u2}
    Codes = {k1, k2, k3}
    None = None
CHECK_DEADLOCK FALSE
SYMMETRY Symmetry
INVARIANTS TypesOK RulesAgree RemovedOnce AccountsAreWhole
PROPERTIES ImplementsMembership CodesAreTickets
