SPECIFICATION Spec
CONSTANTS
    Users = {u1, u2}
    Totps = {t1}
    Keys = {c1}
    Synced = {}
    Tickets = {k1, k2, k3}
    Requests = {r1, r2, r3}
    MaxStep = 2
    MaxCount = 2
    None = None
CHECK_DEADLOCK FALSE
SYMMETRY Symmetry
INVARIANTS TypeOK CodeOnce PasswordAlone
PROPERTIES OnlyOverlapLowersCounter ImplementsTickets
