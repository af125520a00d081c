SPECIFICATION FairSpec
CONSTANTS
    d1 = d1
    d2 = d2
    Client = {d1, d2}
    Deployer = {d1, d2}
    Nobody = Nobody
    Pitfiles <- SmallPitfiles
    Stamp <- SameStamp
    Namespace <- AllNamespaces
    Locked <- NeedLocks
    MaxTechFailures = 2
    EnableCleanups = TRUE
INVARIANTS TypeOK EverySuiteTested LockMatchesTest CleanedUp
PROPERTIES NotDeletedInUse NothingLeftForEver
CHECK_DEADLOCK FALSE
