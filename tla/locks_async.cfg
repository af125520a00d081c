SPECIFICATION Spec
CONSTANTS
    s1 = s1
    s2 = s2
    Owner = {s1, s2}
    NumLocks = 2
    NoOwner = NoOwner
    Expiry = 2
    RenewBy = 2
    DbDelay = 1
    Wants <- BothWantBoth
    NoTimeout = {}
    Retries = 1
    KeepAliveInterval = 1
    NetworkAllowance = 1
    Beats = {1}
    Faults = {"request", "reply", "abandon", "crash"}
    MaxFaults = 1
    Timely = FALSE
INVARIANTS TypeOK NoWaitCycle CleanRelease
PROPERTY NoTheft
SYMMETRY Symmetry
