------------------------- MODULE MCGraphDeployment -------------------------
(* Graphs for the runs of GraphDeployment. *)
EXTENDS GraphDeployment

CONSTANT missing

AllGraphs == [Component -> SUBSET (Component \cup Undeclared)]
ValidGraphs == {g \in AllGraphs : ValidGraph(Component, g)}
=============================================================================
