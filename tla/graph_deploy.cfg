SPECIFICATION FairSpec
CONSTANTS
    Components = 3
    Undeclared = {}
    missing = missing
    TestApp = TestApp
    Untimed = {2, TestApp}
    Graphs <- ValidGraphs
INVARIANTS TypeOK LevelsAreDepths AllDeployed OneByOne
PROPERTIES RolloutPromise DeploymentEnds UndeploymentEnds
CHECK_DEADLOCK FALSE
