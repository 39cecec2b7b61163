SPECIFICATION ClientSpec
CONSTANTS
    Scope = {"keys", "session", "account"}
    Users = {u1, u2}
    Vaults = {v1, v2}
    Tabs = {t1, t2}
    Blank = Blank
    MaxTimers = 3
    Accounts = {u1, u2}
    Passwords = {p1, p2}
    Secrets = {v1, v2}
    Phrases = {t1, t2}
    MaxParams = 2
    MaxFactors = 1
    MaxReach = 2
    Wizards = {w1}
    Browsers = {b1}
    None = None
CHECK_DEADLOCK FALSE
SYMMETRY Symmetry
INVARIANTS TypesOK OwnKeyOrBlank HeldAfterJoining ChainUnbroken AccountOpens
PROPERTY RightKeysOnly
