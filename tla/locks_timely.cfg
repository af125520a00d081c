SPECIFICATION Spec
CONSTANTS
    s1 = s1
    s2 = s2
    Owner = {s1, s2}
    NumLocks = 2
    NoOwner = NoOwner
    Expiry = 4
    RenewBy = 6
    DbDelay = 0
    Wants <- BothWantBoth
    NoTimeout = {}
    Retries = 3
    KeepAliveInterval = 5
    NetworkAllowance = 2
    Beats = {1}
    Faults = {"request", "reply", "abandon", "crash"}
    MaxFaults = 2
    Timely = TRUE
INVARIANTS Exclusive BeliefBacked
PROPERTY LeasePromise
SYMMETRY Symmetry
