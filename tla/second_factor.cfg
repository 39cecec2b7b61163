SPECIFICATION Spec
CONSTANTS
    Accounts = {a1}
    Passwords = {p1}
    Secrets = {s1}
    Phrases = {m1}
    MaxParams = 1
    MaxFactors = 2
    Wizards = {w1}
    Browsers = {b1}
    None = None
CHECK_DEADLOCK FALSE
INVARIANT SecondFactorUnlocks
