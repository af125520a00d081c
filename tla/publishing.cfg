SPECIFICATION Spec
CONSTANTS
    r1 = r1
    r2 = r2
    Report = {r1, r2}
    Suites <- TwoSuites
    Other = {other}
    Settings <- FewSettings
    NoReport = NoReport
    NoSettings = NoSettings
    c1 = c1
    c2 = c2
    Commit = {c1, c2}
    Ref = c1
    Earlier <- SomeTags
CHECK_DEADLOCK FALSE
INVARIANTS TypeOK TagTellsVerdict FailureRefutesPass
PROPERTIES PublishedForGood
