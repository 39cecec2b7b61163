SPECIFICATION LiveSpec
CONSTANTS
    Users = {u1}
    Requests = {r1, r2, r3}
    MaxEpoch = 2
    Faults = TRUE
    None = None
INVARIANTS TypeOK CacheKeepsUpWithBusts
PROPERTIES ImplementsRegister Converges GetsEnd
