SPECIFICATION KnownSpec
CONSTANTS
    Tabs = {t1, t2}
    Passwords = {p1, p2}
    MaxVersion = 3
    HistoryMax = 2
    None = None
CHECK_DEADLOCK FALSE
PROPERTY NoSilentOverwrite
