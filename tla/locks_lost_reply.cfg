SPECIFICATION FairSpec
CONSTANTS
    s1 = s1
    s2 = s2
    Owner = {s1}
    NumLocks = 2
    NoOwner = NoOwner
    Expiry = 2
    RenewBy = 3
    DbDelay = 0
    Wants <- BothWantBoth
    NoTimeout = {}
    Retries = 2
    KeepAliveInterval = 2
    NetworkAllowance = 1
    Beats = {1}
    Faults = {"reply"}
    MaxFaults = 1
    Timely = TRUE
PROPERTY LockCallsEnd
