-------------------------- MODULE TopologicalSort --------------------------
(***************************************************************************)
(* topologicalSort (k8s-deployer/src/dependency-resolver.ts): the levels   *)
(* in which the components of a graph are deployed and undeployed.         *)
(*                                                                         *)
(* Components are numbered in the order of the pitfile.  A level is sorted *)
(* by that order when it is complete, so neither the order of the queue    *)
(* nor the order in a level under construction matters: both are sets.     *)
(*                                                                         *)
(* An id that a dependsOn repeats counts twice in the in-degree and is     *)
(* taken off twice when its component is processed, so the levels are      *)
(* those of the set of ids.                                                *)
(***************************************************************************)
EXTENDS ComponentGraph, Naturals, FiniteSets, Sequences

CONSTANTS Components,   \* number of components of the graph
          Undeclared,   \* ids that are named in a dependsOn, but declared nowhere
          Graphs        \* the dependsOn of each component, for each graph to sort

Component == 1 .. Components

ASSUME TopologicalSortAssumption ==
    /\ Components \in Nat
    /\ IsFiniteSet(Undeclared) /\ Undeclared \cap Component = {}
    /\ Graphs \subseteq [Component -> SUBSET (Component \cup Undeclared)]

VARIABLES
    dependsOn,   \* the graph
    inDegree,    \* dependencies that are not in a level yet
    queue,       \* components of the current level still to be processed
    pushed,      \* components queued behind the current level
    level,       \* the current level
    levels       \* the complete levels

sortVars == <<dependsOn, inDegree, queue, pushed, level, levels>>

SortTypeOK ==
    /\ dependsOn \in Graphs
    /\ inDegree \in [Component -> Nat]
    /\ queue \in SUBSET Component /\ pushed \in SUBSET Component
    /\ level \in SUBSET Component
    /\ levels \in Seq(SUBSET Component)

Degrees(g) == [c \in Component |-> Cardinality(g[c])]

SortInit ==
    /\ dependsOn \in Graphs
    /\ inDegree = Degrees(dependsOn)
    /\ queue = {c \in Component : inDegree[c] = 0}
    /\ pushed = {} /\ level = {} /\ levels = <<>>

Dependents(c) == {d \in Component : c \in dependsOn[d]}

\* Mutant: components that become free join the level under way.
ProcessIntoLevel(c) ==
    /\ c \in queue
    /\ level' = level \cup {c}
    /\ inDegree' = [d \in Component |-> IF d \in Dependents(c) THEN inDegree[d] - 1 ELSE inDegree[d]]
    /\ queue' = (queue \ {c}) \cup {d \in Dependents(c) : inDegree'[d] = 0}
    /\ UNCHANGED <<dependsOn, pushed, levels>>

\* A component leaves the queue for the current level and the components that
\* depend on it are updated.
Process(c) ==
    /\ c \in queue
    /\ queue' = queue \ {c} /\ level' = level \cup {c}
    /\ inDegree' = [d \in Component |-> IF d \in Dependents(c) THEN inDegree[d] - 1 ELSE inDegree[d]]
    /\ pushed' = pushed \cup {d \in Dependents(c) : inDegree'[d] = 0}
    /\ UNCHANGED <<dependsOn, levels>>

\* The queue as it was when the level began is used up: the level is complete.
CompleteLevel ==
    /\ queue = {} /\ level # {}
    /\ levels' = Append(levels, level) /\ level' = {}
    /\ queue' = pushed /\ pushed' = {}
    /\ UNCHANGED <<dependsOn, inDegree>>

Sorted == queue = {} /\ level = {}

SortNext == CompleteLevel \/ \E c \in Component : Process(c)

SortSpec == SortInit /\ [][SortNext]_sortVars

-----------------------------------------------------------------------------
(* Properties *)

\* The components of the first k levels.
Placed(k) == UNION {levels[i] : i \in 1 .. k}

\* A component is in level k exactly when level k is the first that comes after
\* all of its dependencies: levels are in order, none is empty, no component is
\* in two of them, and every component is deployed as early as it can be.  The
\* undeployment relies on it: it sorts the deployed components again and has to
\* find the levels they were deployed in.
LevelsAreDepths ==
    \A k \in DOMAIN levels :
        /\ levels[k] # {}
        /\ levels[k] = {c \in Component \ Placed(k - 1) : dependsOn[c] \subseteq Placed(k - 1)}

\* No component of a valid graph is left out.
NoneLeftOut ==
    Sorted /\ ValidGraph(Component, dependsOn) => Placed(Len(levels)) = Component
=============================================================================
