SPECIFICATION FairSpec
CONSTANTS
    Outputs <- ShortOutputs
    Unknown = Unknown
    TimedChecks = {TRUE, FALSE}
INVARIANTS TypeOK OutcomeOfScript OutputComplete
PROPERTIES NoMarkerMissed DeploymentEnds
CHECK_DEADLOCK FALSE
