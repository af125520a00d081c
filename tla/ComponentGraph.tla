--------------------------- MODULE ComponentGraph ---------------------------
(***************************************************************************)
(* What a component graph of the pitfile has to be                         *)
(* (k8s-deployer/src/dependency-resolver.ts, pitfile/schema-v1.ts): the    *)
(* reference that validation, sorting and deployment are checked against.  *)
(***************************************************************************)

\* No component depends on itself, directly or through others: in every group
\* of components there is one that depends on none of the group.
Acyclic(nodes, dependsOn) ==
    \A S \in SUBSET nodes : S # {} => \E n \in S : dependsOn[n] \cap S = {}

\* Every dependency is a component of the graph.
Closed(nodes, dependsOn) == \A n \in nodes : dependsOn[n] \subseteq nodes

ValidGraph(nodes, dependsOn) == Closed(nodes, dependsOn) /\ Acyclic(nodes, dependsOn)
=============================================================================
