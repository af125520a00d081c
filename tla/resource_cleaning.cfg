SPECIFICATION FairSpec
CONSTANTS
    Ids <- FewServers
    Resource = {"topic", "_topic", "index"}
    Home <- FewHomes
    Naming <- FewNames
    Retention = 1
    MaxTime = 2
    MaxKills = 1
INVARIANT TypeOK
PROPERTIES OnlyWhatIsDue StaleGoes
