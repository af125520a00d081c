-------------------------- MODULE ComponentRollout --------------------------
(***************************************************************************)
(* What the deployment of a graph promises (README.md of pit-toolkit,      *)
(* k8s-deployer/src/test-suite-handler.ts): nothing is deployed before     *)
(* what it needs is ready, unless it is flagged as independent, and        *)
(* nothing is undeployed while something that needs it is there.  Levels,  *)
(* groups and the order in the pitfile are left to the implementation.     *)
(***************************************************************************)
CONSTANTS Node,          \* the components of a graph and its test app
          Dependencies   \* the graphs: functions from nodes to the nodes they need

VARIABLES needs, independent, status

rolloutVars == <<needs, independent, status>>

Init ==
    /\ needs \in Dependencies /\ independent \in SUBSET Node
    /\ status = [n \in Node |-> "absent"]

AllReady(S) == \A n \in S : status[n] = "ready"

Become(S, value) ==
    /\ status' = [n \in Node |-> IF n \in S THEN value ELSE status[n]]
    /\ UNCHANGED <<needs, independent>>

\* Some nodes are started at once.
Deploy(S) ==
    /\ \A n \in S : status[n] = "absent" /\ (n \in independent \/ AllReady(needs[n]))
    /\ Become(S, "deploying")

Ready(n) == status[n] = "deploying" /\ Become({n}, "ready")

\* A node goes before what it needs.
Undeploy(n) ==
    /\ status[n] = "ready" /\ AllReady(needs[n])
    /\ \A m \in Node : n \in needs[m] => status[m] = "removed"
    /\ Become({n}, "undeploying")

Gone(n) == status[n] = "undeploying" /\ Become({n}, "removed")

Next ==
    \/ \E S \in SUBSET Node : Deploy(S)
    \/ \E n \in Node : Ready(n) \/ Undeploy(n) \/ Gone(n)

Spec == Init /\ [][Next]_rolloutVars
=============================================================================
