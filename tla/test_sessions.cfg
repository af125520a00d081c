SPECIFICATION FairSpec
CONSTANTS
    k6 = k6
    node = node
    d1 = d1
    d2 = d2
    App = {k6, node}
    Blocking = {k6}
    Deployer = {d1, d2}
    Caller = {d1, d2}
    Plan <- SharedFirst
    Measured <- Measurements
    Expected <- Rates
    MaxRestarts = 1
    MaxTechFailures = 2
CHECK_DEADLOCK FALSE
INVARIANTS TypeOK OwnReport
PROPERTIES EveryWaitEnds
