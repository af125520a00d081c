-------------------------- MODULE GraphDeployment --------------------------
(***************************************************************************)
(* deployGraph and undeployAll (k8s-deployer/src/test-suite-handler.ts) of *)
(* one suite.  deployGraph sorts the graph, then deploys level after       *)
(* level: the components flagged `parallel' together, then the others one  *)
(* by one; the test app goes last, or beside the components when it is     *)
(* flagged.  undeployAll removes the test app and then the levels in       *)
(* reverse order.  The first script that fails ends the process.           *)
(***************************************************************************)
EXTENDS TopologicalSort

CONSTANTS TestApp,   \* the test app of the graph
          Untimed    \* what has a statusCheck without timeoutSeconds

Node == Component \cup {TestApp}

ASSUME GraphDeploymentAssumption ==
    TestApp \notin Component \cup Undeclared /\ Untimed \subseteq Node

VARIABLES
    phase,             \* what is being done with the graph
    parallel,          \* components with deploy.parallel
    testAppParallel,   \* deploy.parallel of the test app
    at,                \* the level being deployed
    status             \* of each component and of the test app

deploymentVars == <<phase, parallel, testAppParallel, at, status>>
vars == <<sortVars, deploymentVars>>

TypeOK ==
    /\ SortTypeOK
    /\ phase \in {"sorting", "deploying", "deployed", "undeploying", "removed", "failed"}
    /\ parallel \in SUBSET Component /\ testAppParallel \in BOOLEAN
    /\ at \in 1 .. Len(levels) + 1
    /\ status \in [Node -> {"absent", "deploying", "ready", "undeploying", "removed"}]

Init ==
    /\ SortInit
    /\ phase = "sorting" /\ at = 1
    /\ parallel \in SUBSET Component /\ testAppParallel \in BOOLEAN
    /\ status = [n \in Node |-> "absent"]

All(S, value) == \A n \in S : status[n] = value

Become(S, value) == status' = [n \in Node |-> IF n \in S THEN value ELSE status[n]]

-----------------------------------------------------------------------------
(* Deployment *)

Sort ==
    /\ phase = "sorting" /\ SortNext
    /\ UNCHANGED deploymentVars

BeginDeployment ==
    /\ phase = "sorting" /\ Sorted
    /\ phase' = "deploying"
    /\ UNCHANGED <<sortVars, parallel, testAppParallel, at, status>>

InLevel == phase = "deploying" /\ at <= Len(levels)
Group == levels[at] \cap parallel
Chain == levels[at] \ parallel

DeployGroup ==
    /\ InLevel /\ Group # {} /\ All(Group, "absent")
    /\ Become(Group, "deploying")
    /\ UNCHANGED <<sortVars, phase, parallel, testAppParallel, at>>

\* Mutants: the chain starts beside the group; it follows the order of the
\* whole pitfile.
DeployNextBesideGroup(c) ==
    /\ InLevel /\ c \in Chain /\ status[c] = "absent"
    /\ All({d \in Chain : d < c}, "ready")
    /\ Become({c}, "deploying")
    /\ UNCHANGED <<sortVars, phase, parallel, testAppParallel, at>>
DeployNextOfPitfile(c) ==
    /\ InLevel /\ c \in Chain /\ status[c] = "absent"
    /\ All(Group \cup {d \in Component : d < c}, "ready")
    /\ Become({c}, "deploying")
    /\ UNCHANGED <<sortVars, phase, parallel, testAppParallel, at>>

\* The chain begins when the whole group is ready and follows the order of the
\* pitfile.
DeployNext(c) ==
    /\ InLevel /\ c \in Chain /\ status[c] = "absent"
    /\ All(Group \cup {d \in Chain : d < c}, "ready")
    /\ Become({c}, "deploying")
    /\ UNCHANGED <<sortVars, phase, parallel, testAppParallel, at>>

\* Mutant: every other level is skipped.
NextLevelButOne ==
    /\ InLevel /\ All(levels[at], "ready")
    /\ at' = at + 2
    /\ UNCHANGED <<sortVars, phase, parallel, testAppParallel, status>>

NextLevel ==
    /\ InLevel /\ All(levels[at], "ready")
    /\ at' = at + 1
    /\ UNCHANGED <<sortVars, phase, parallel, testAppParallel, status>>

LevelsDone == phase = "deploying" /\ at > Len(levels)

DeployTestApp ==
    /\ phase = "deploying" /\ status[TestApp] = "absent"
    /\ testAppParallel \/ LevelsDone
    /\ Become({TestApp}, "deploying")
    /\ UNCHANGED <<sortVars, phase, parallel, testAppParallel, at>>

\* The script of n has ended well, and so has a status check.
Ready(n) ==
    /\ phase = "deploying" /\ status[n] = "deploying"
    /\ Become({n}, "ready")
    /\ UNCHANGED <<sortVars, phase, parallel, testAppParallel, at>>

\* Mutant: with a parallel test app nobody waits for the levels.
FinishWithTestApp ==
    /\ phase = "deploying" /\ status[TestApp] = "ready"
    /\ phase' = "deployed"
    /\ UNCHANGED <<sortVars, parallel, testAppParallel, at, status>>

\* The tests may run.
Finish ==
    /\ LevelsDone /\ status[TestApp] = "ready"
    /\ phase' = "deployed"
    /\ UNCHANGED <<sortVars, parallel, testAppParallel, at, status>>

-----------------------------------------------------------------------------
(* Undeployment *)

UndeployTestApp ==
    /\ phase = "deployed"
    /\ phase' = "undeploying" /\ Become({TestApp}, "undeploying")
    /\ UNCHANGED <<sortVars, parallel, testAppParallel, at>>

\* The order in which deployGraph lists the components of a level: undeployAll
\* sorts that list again and keeps its order within a level.
ListedBefore(d, c) == IF d \in parallel <=> c \in parallel THEN d < c ELSE d \in parallel

\* Mutants: the levels are undeployed in the order they were deployed in; a
\* component waits for its own level.
UndeployForward(c) ==
    /\ phase = "undeploying" /\ \A n \in Node : status[n] # "undeploying"
    /\ status[c] = "ready"
    /\ \E k \in DOMAIN levels :
          /\ c \in levels[k] /\ All({d \in levels[k] : ListedBefore(d, c)}, "removed")
          /\ \A i \in 1 .. k - 1 : All(levels[i], "removed")
    /\ Become({c}, "undeploying")
    /\ UNCHANGED <<sortVars, phase, parallel, testAppParallel, at>>
UndeployAfterOwnLevel(c) ==
    /\ phase = "undeploying" /\ \A n \in Node : status[n] # "undeploying"
    /\ status[c] = "ready"
    /\ \E k \in DOMAIN levels :
          /\ c \in levels[k] /\ All({d \in levels[k] : ListedBefore(d, c)}, "removed")
          /\ \A i \in k .. Len(levels) : All(levels[i], "removed")
    /\ Become({c}, "undeploying")
    /\ UNCHANGED <<sortVars, phase, parallel, testAppParallel, at>>

\* One component after the other: the last level first, the components of a
\* level in the order of the list.
Undeploy(c) ==
    /\ phase = "undeploying" /\ \A n \in Node : status[n] # "undeploying"
    /\ status[c] = "ready"
    /\ \E k \in DOMAIN levels :
          /\ c \in levels[k] /\ All({d \in levels[k] : ListedBefore(d, c)}, "removed")
          /\ \A i \in k + 1 .. Len(levels) : All(levels[i], "removed")
    /\ Become({c}, "undeploying")
    /\ UNCHANGED <<sortVars, phase, parallel, testAppParallel, at>>

Gone(n) ==
    /\ phase = "undeploying" /\ status[n] = "undeploying"
    /\ Become({n}, "removed")
    /\ UNCHANGED <<sortVars, phase, parallel, testAppParallel, at>>

UndeploymentDone ==
    /\ phase = "undeploying" /\ All({TestApp} \cup Placed(Len(levels)), "removed")
    /\ phase' = "removed"
    /\ UNCHANGED <<sortVars, parallel, testAppParallel, at, status>>

-----------------------------------------------------------------------------

\* The script of n fails or times out: main() rejects and the process exits.
Fail(n) ==
    /\ phase \in {"deploying", "undeploying"} /\ status[n] \in {"deploying", "undeploying"}
    /\ phase' = "failed"
    /\ UNCHANGED <<sortVars, parallel, testAppParallel, at, status>>

\* The timeout of a statusCheck is compared without its default of 60 seconds:
\* a check that names none is repeated for as long as it fails.
MayHang(n) == n \in Untimed /\ status[n] = "deploying"

\* What goes on by itself.  undeployAll is called when the tests of every suite
\* have ended, if cleanups are enabled; nobody ends an untimed status check.
Progress ==
    \/ Sort \/ BeginDeployment \/ DeployGroup \/ NextLevel \/ DeployTestApp \/ Finish
    \/ UndeploymentDone
    \/ \E c \in Component : DeployNext(c) \/ Undeploy(c)
    \/ \E n \in Node : Gone(n) \/ (~MayHang(n) /\ (Ready(n) \/ Fail(n)))

Next ==
    \/ Progress \/ UndeployTestApp
    \/ \E n \in Node : MayHang(n) /\ (Ready(n) \/ Fail(n))

Spec == Init /\ [][Next]_vars
FairSpec == Spec /\ WF_vars(Progress)

-----------------------------------------------------------------------------
(* Properties *)

\* Tests run against the whole graph.
AllDeployed == phase = "deployed" => All(Node, "ready")

\* A component without the flag is never deployed beside another component and
\* never before one that the pitfile lists above it in the same level; scripts
\* that undeploy run one at a time.
OneByOne ==
    /\ \A c \in Component \ parallel :
          status[c] = "deploying" =>
              /\ \A d \in Component \ {c} : status[d] # "deploying"
              /\ \A k \in DOMAIN levels :
                    c \in levels[k] => All({d \in levels[k] : d < c \/ d \in parallel}, "ready")
    /\ \A m, n \in Node : status[m] = "undeploying" /\ status[n] = "undeploying" => m = n

\* The deployment keeps the promise of ComponentRollout: the test app needs
\* every component, and may start without them when it is flagged.
Needs(g) == [n \in Node |-> IF n = TestApp THEN Component ELSE g[n] \cap Component]
GraphNeeds == {Needs(g) : g \in Graphs}
Rollout == INSTANCE ComponentRollout WITH
    Dependencies <- GraphNeeds,
    needs <- Needs(dependsOn),
    independent <- IF testAppParallel THEN {TestApp} ELSE {}
RolloutPromise == Rollout!Spec

\* A deployment that has begun ends, whatever fails and wherever the level,
\* group or chain it fails in leaves the others, unless an untimed status check
\* goes on for ever.  An undeployment, which checks nothing, ends in any case.
DeploymentEnds ==
    \/ <>(phase \in {"deployed", "failed"})
    \/ <>[](phase = "deploying" /\ \E n \in Node : MayHang(n))
UndeploymentEnds == phase = "undeploying" ~> phase \in {"removed", "failed"}
=============================================================================
