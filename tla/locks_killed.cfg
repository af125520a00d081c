SPECIFICATION Spec
CONSTANTS
    s1 = s1
    s2 = s2
    Owner = {s1}
    NumLocks = 1
    NoOwner = NoOwner
    Expiry = 4
    RenewBy = 6
    DbDelay = 0
    Wants <- OneEach
    NoTimeout = {}
    Retries = 3
    KeepAliveInterval = 5
    NetworkAllowance = 2
    Beats = {1}
    Faults = {}
    MaxFaults = 0
    Timely = TRUE
INVARIANT NotKilledByHeartbeat
