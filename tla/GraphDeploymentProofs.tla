----------------------- MODULE GraphDeploymentProofs -----------------------
(***************************************************************************)
(* Proofs about TopologicalSort and GraphDeployment, for graphs of any     *)
(* size.  Whatever the graph: the levels are the depths of the components, *)
(* and within a level the order is kept.  For valid graphs: the sort is    *)
(* complete, nothing is missing when the tests run, and deployment and     *)
(* undeployment keep the promise of ComponentRollout.                      *)
(***************************************************************************)
EXTENDS GraphDeployment, FiniteSetTheorems, TLAPS

-----------------------------------------------------------------------------
(* TopologicalSort *)

AllPlaced == Placed(Len(levels))

\* What can be said of the sort between two of its steps, in terms of the sets
\* of components that are in complete levels and in the current one.
SortInv ==
    /\ SortTypeOK
    /\ level \cap queue = {}
    /\ level \cup queue = {c \in Component \ AllPlaced : dependsOn[c] \subseteq AllPlaced}
    /\ \A c \in Component : inDegree[c] = Cardinality(dependsOn[c] \ (AllPlaced \cup level))
    /\ pushed = {c \in Component \ (AllPlaced \cup level \cup queue) :
                    dependsOn[c] \subseteq AllPlaced \cup level}
    /\ LevelsAreDepths

-----------------------------------------------------------------------------

\* The dependencies of a component are finitely many.
LEMMA FiniteDependencies ==
    ASSUME SortTypeOK, NEW c \in Component, NEW S
    PROVE  IsFiniteSet(dependsOn[c] \ S)
<1>1. dependsOn[c] \subseteq Component \cup Undeclared
  BY TopologicalSortAssumption DEF SortTypeOK
<1>2. IsFiniteSet(Component) /\ IsFiniteSet(Undeclared)
  BY FS_Interval, TopologicalSortAssumption DEF Component
<1>3. IsFiniteSet(Component \cup Undeclared)
  BY <1>2, FS_Union
<1>4. dependsOn[c] \ S \subseteq Component \cup Undeclared
  BY <1>1
<1> QED
  BY <1>3, <1>4, FS_Subset

\* The components of complete levels depend on components of earlier levels only.
LEMMA PlacedClosed ==
    ASSUME SortTypeOK, LevelsAreDepths, NEW c \in AllPlaced
    PROVE  c \in Component /\ dependsOn[c] \subseteq AllPlaced
<1>1. PICK k \in 1 .. Len(levels) : c \in levels[k]
  BY DEF AllPlaced, Placed
<1>2. k \in DOMAIN levels /\ Len(levels) \in Nat
  BY DEF SortTypeOK
<1>3. c \in Component /\ dependsOn[c] \subseteq Placed(k - 1)
  BY <1>1, <1>2 DEF LevelsAreDepths
<1>4. Placed(k - 1) \subseteq AllPlaced
  BY <1>2 DEF AllPlaced, Placed
<1> QED
  BY <1>3, <1>4

\* Completing a level adds it to the placed components and leaves the earlier
\* levels as they were.
LEMMA PlacedByCompletion ==
    ASSUME SortTypeOK, CompleteLevel
    PROVE  /\ levels' \in Seq(SUBSET Component) /\ Len(levels') = Len(levels) + 1
           /\ levels'[Len(levels) + 1] = level
           /\ \A k \in 1 .. Len(levels) : levels'[k] = levels[k]
           /\ \A k \in 0 .. Len(levels) : Placed(k)' = Placed(k)
           /\ AllPlaced' = AllPlaced \cup level
<1>1. Len(levels) \in Nat /\ levels' = Append(levels, level)
  BY DEF SortTypeOK, CompleteLevel
<1>2. /\ levels' \in Seq(SUBSET Component) /\ Len(levels') = Len(levels) + 1
      /\ levels'[Len(levels) + 1] = level
      /\ \A k \in 1 .. Len(levels) : levels'[k] = levels[k]
  BY <1>1 DEF SortTypeOK
<1>3. ASSUME NEW k \in 0 .. Len(levels)
      PROVE  Placed(k)' = Placed(k)
  <2>1. \A i \in 1 .. k : levels'[i] = levels[i]
    BY <1>1, <1>2
  <2> QED
    BY <2>1 DEF Placed
<1>4. AllPlaced' = AllPlaced \cup level
  <2>1. \A x : x \in AllPlaced' <=> \E i \in 1 .. Len(levels) + 1 : x \in levels'[i]
    BY <1>2 DEF AllPlaced, Placed
  <2>2. \A x : x \in AllPlaced <=> \E i \in 1 .. Len(levels) : x \in levels[i]
    BY DEF AllPlaced, Placed
  <2>3. \A x : x \in AllPlaced' <=> x \in AllPlaced \/ x \in level
    BY <1>1, <1>2, <2>1, <2>2
  <2> QED
    BY <2>3
<1> QED
  BY <1>2, <1>3, <1>4

LEMMA SortInitially == SortInit => SortInv
<1> SUFFICES ASSUME SortInit PROVE SortInv
  OBVIOUS
<1> USE DEF SortInit
<1>1. dependsOn \in [Component -> SUBSET (Component \cup Undeclared)]
  BY TopologicalSortAssumption
<1>2. \A c \in Component : IsFiniteSet(dependsOn[c])
  <2>1. IsFiniteSet(Component \cup Undeclared)
    <3>1. IsFiniteSet(Component) /\ IsFiniteSet(Undeclared)
      BY FS_Interval, TopologicalSortAssumption DEF Component
    <3> QED
      BY <3>1, FS_Union
  <2> QED
    BY <1>1, <2>1, FS_Subset
<1>3. \A c \in Component : inDegree[c] = Cardinality(dependsOn[c]) /\ inDegree[c] \in Nat
  BY <1>2, FS_CardinalityType DEF Degrees
<1>4. \A c \in Component : inDegree[c] = 0 <=> dependsOn[c] = {}
  BY <1>2, <1>3, FS_EmptySet
<1>5. SortTypeOK
  BY <1>3 DEF SortTypeOK, Degrees
<1>6. AllPlaced = {} /\ LevelsAreDepths
  BY DEF AllPlaced, Placed, LevelsAreDepths
<1>7. \A c \in Component : dependsOn[c] \ (AllPlaced \cup level) = dependsOn[c]
  BY <1>6
<1>8. queue = {c \in Component \ AllPlaced : dependsOn[c] \subseteq AllPlaced}
  BY <1>4, <1>6
<1> QED
  BY <1>3, <1>5, <1>6, <1>7, <1>8 DEF SortInv

LEMMA ProcessPreserves ==
    ASSUME SortInv, NEW c \in Component, Process(c)
    PROVE  SortInv'
<1> USE DEF Process
<1>1. AllPlaced' = AllPlaced /\ (LevelsAreDepths <=> LevelsAreDepths')
  BY DEF AllPlaced, Placed, LevelsAreDepths
<1>2. c \notin AllPlaced \cup level
  BY DEF SortInv
<1>3. ASSUME NEW d \in Component
      PROVE  /\ inDegree'[d] = Cardinality(dependsOn[d] \ (AllPlaced \cup level'))
             /\ inDegree'[d] \in Nat
             /\ inDegree'[d] = 0 <=> dependsOn[d] \subseteq AllPlaced \cup level'
  <2> DEFINE S == dependsOn[d] \ (AllPlaced \cup level)
             T == dependsOn[d] \ (AllPlaced \cup level')
  <2>1. IsFiniteSet(S) /\ IsFiniteSet(T)
    BY FiniteDependencies DEF SortInv
  <2>2. inDegree[d] = Cardinality(S) /\ Cardinality(S) \in Nat /\ Cardinality(T) \in Nat
    BY <2>1, FS_CardinalityType DEF SortInv
  <2>3. T = S \ {c} /\ (c \in S <=> d \in Dependents(c))
    BY <1>2 DEF Dependents
  <2>4. inDegree'[d] = Cardinality(T)
    <3>1. CASE d \in Dependents(c)
      <4>1. Cardinality(S \ {c}) = Cardinality(S) - 1
        BY <2>1, <2>3, <3>1, FS_RemoveElement
      <4> QED
        BY <2>2, <2>3, <3>1, <4>1
    <3>2. CASE d \notin Dependents(c)
      <4>1. T = S
        BY <2>3, <3>2
      <4> QED
        BY <2>2, <3>2, <4>1
    <3> QED
      BY <3>1, <3>2
  <2>5. Cardinality(T) = 0 <=> T = {}
    BY <2>1, FS_EmptySet
  <2> QED
    BY <2>2, <2>4, <2>5
<1>4. SortTypeOK'
  BY <1>3 DEF SortInv, SortTypeOK, Dependents
<1>5. /\ level' \cap queue' = {} /\ level' \cup queue' = level \cup queue
  BY DEF SortInv
<1>6. pushed' = {d \in Component \ (AllPlaced \cup level' \cup queue') :
                    dependsOn[d] \subseteq AllPlaced \cup level'}
  <2>1. ASSUME NEW d \in Dependents(c)
        PROVE  d \in Component \ (AllPlaced \cup level' \cup queue')
    <3>1. d \in Component /\ c \in dependsOn[d]
      BY DEF Dependents
    <3>2. d \notin AllPlaced
      BY <1>2, <3>1, PlacedClosed DEF SortInv
    <3>3. d \notin level \cup queue
      BY <1>2, <3>1 DEF SortInv
    <3> QED
      BY <1>5, <3>1, <3>2, <3>3
  <2>2. \A d \in Dependents(c) : inDegree'[d] = 0 <=> dependsOn[d] \subseteq AllPlaced \cup level'
    BY <1>3, <2>1
  <2>3. \A d \in Component : dependsOn[d] \subseteq AllPlaced \cup level'
            => d \in Dependents(c) \/ dependsOn[d] \subseteq AllPlaced \cup level
    BY DEF Dependents
  <2> QED
    BY <1>5, <2>1, <2>2, <2>3 DEF SortInv
<1> QED
  BY <1>1, <1>3, <1>4, <1>5, <1>6 DEF SortInv

LEMMA CompleteLevelPreserves ==
    ASSUME SortInv, CompleteLevel
    PROVE  SortInv'
<1>0. SortTypeOK /\ Len(levels) \in Nat /\ DOMAIN levels = 1 .. Len(levels)
  BY DEF SortInv, SortTypeOK
<1>1. /\ levels' \in Seq(SUBSET Component) /\ Len(levels') = Len(levels) + 1
      /\ levels'[Len(levels) + 1] = level
      /\ \A k \in 1 .. Len(levels) : levels'[k] = levels[k]
      /\ \A k \in 0 .. Len(levels) : Placed(k)' = Placed(k)
      /\ AllPlaced' = AllPlaced \cup level
  BY <1>0, PlacedByCompletion
<1>2. /\ queue = {} /\ level # {} /\ level' = {} /\ queue' = pushed /\ pushed' = {}
      /\ dependsOn' = dependsOn /\ inDegree' = inDegree
  BY DEF CompleteLevel
<1>3. level = {c \in Component \ AllPlaced : dependsOn[c] \subseteq AllPlaced}
  BY <1>2 DEF SortInv
<1>4. SortTypeOK'
  BY <1>0, <1>1, <1>2 DEF SortTypeOK
<1>5. queue' = {c \in Component \ AllPlaced' : dependsOn'[c] \subseteq AllPlaced'}
  BY <1>1, <1>2 DEF SortInv
<1>6. \A c \in Component : inDegree'[c] = Cardinality(dependsOn'[c] \ (AllPlaced' \cup level'))
  BY <1>1, <1>2 DEF SortInv
<1>7. LevelsAreDepths'
  <2>1. DOMAIN levels' = 1 .. Len(levels) + 1
    BY <1>0, <1>1
  <2>2. ASSUME NEW k \in 1 .. Len(levels)
        PROVE  /\ levels'[k] # {}
               /\ levels'[k] = {c \in Component \ Placed(k - 1)' : dependsOn'[c] \subseteq Placed(k - 1)'}
    <3>1. Placed(k - 1)' = Placed(k - 1) /\ levels'[k] = levels[k]
      BY <1>0, <1>1
    <3>2. /\ levels[k] # {}
          /\ levels[k] = {c \in Component \ Placed(k - 1) : dependsOn[c] \subseteq Placed(k - 1)}
      BY <1>0 DEF SortInv, LevelsAreDepths
    <3> QED
      BY <1>2, <3>1, <3>2
  <2>3. ASSUME NEW k, k = Len(levels) + 1
        PROVE  /\ levels'[k] # {}
               /\ levels'[k] = {c \in Component \ Placed(k - 1)' : dependsOn'[c] \subseteq Placed(k - 1)'}
    <3>1. k - 1 = Len(levels) /\ k - 1 \in 0 .. Len(levels)
      BY <1>0, <2>3
    <3>2. Placed(k - 1) = AllPlaced
      BY <3>1 DEF AllPlaced
    <3>3. Placed(k - 1)' = AllPlaced
      BY <1>1, <3>1, <3>2
    <3> QED
      BY <1>1, <1>2, <1>3, <2>3, <3>3
  <2>4. ASSUME NEW k \in 1 .. Len(levels) + 1
        PROVE  k \in 1 .. Len(levels) \/ k = Len(levels) + 1
    BY <1>0
  <2> QED
    BY <2>1, <2>2, <2>3, <2>4 DEF LevelsAreDepths
<1> QED
  BY <1>2, <1>4, <1>5, <1>6, <1>7 DEF SortInv

\* Every step of the sort preserves the invariant.
LEMMA SortStep == SortInv /\ [SortNext]_sortVars => SortInv'
<1> SUFFICES ASSUME SortInv, [SortNext]_sortVars PROVE SortInv'
  OBVIOUS
<1>1. CASE CompleteLevel
  BY <1>1, CompleteLevelPreserves
<1>2. CASE \E c \in Component : Process(c)
  BY <1>2, ProcessPreserves
<1>3. CASE UNCHANGED sortVars
  BY <1>3 DEF sortVars, SortInv, SortTypeOK, LevelsAreDepths, AllPlaced, Placed
<1> QED
  BY <1>1, <1>2, <1>3 DEF SortNext

-----------------------------------------------------------------------------

\* The sort of a valid graph has placed every component when it ends: if some
\* were left, one of them would depend on none of the others, and would be
\* queued.
LEMMA SortComplete == SortInv => NoneLeftOut
<1> SUFFICES ASSUME SortInv, Sorted, ValidGraph(Component, dependsOn)
             PROVE  AllPlaced = Component
  BY DEF NoneLeftOut, AllPlaced
<1> DEFINE Left == Component \ AllPlaced
<1>1. AllPlaced \subseteq Component
  BY PlacedClosed DEF SortInv
<1>2. ASSUME Left # {} PROVE FALSE
  <2>1. PICK n \in Left : dependsOn[n] \cap Left = {}
    BY <1>2 DEF ValidGraph, Acyclic
  <2>2. dependsOn[n] \subseteq AllPlaced
    BY <2>1 DEF ValidGraph, Closed
  <2>3. n \in level \cup queue
    BY <2>2 DEF SortInv
  <2> QED
    BY <2>3 DEF Sorted
<1> QED
  BY <1>1, <1>2

\* Invariance of the strengthened invariant.
THEOREM SortInvariance == SortSpec => []SortInv
<1> QED
  BY SortInitially, SortStep, PTL DEF SortSpec

\* For every graph, valid or not, each complete level holds exactly the
\* components whose dependencies are all in earlier levels.
THEOREM SortLevels == SortSpec => []LevelsAreDepths
<1>1. SortInv => LevelsAreDepths
  BY DEF SortInv
<1> QED
  BY <1>1, SortInvariance, PTL

\* A valid graph is sorted completely: the deployment forgets no component.
THEOREM SortCompleteness == SortSpec => []NoneLeftOut
<1> QED
  BY SortComplete, SortInvariance, PTL

-----------------------------------------------------------------------------
(* GraphDeployment *)

\* The graph is sorted before the deployment, and only what the sort has placed
\* is deployed.
Prepared ==
    /\ phase = "sorting" => at = 1 /\ All(Node, "absent")
    /\ phase # "sorting" => Sorted
    /\ All(Component \ AllPlaced, "absent")

\* Between two steps of the deployment: earlier levels are ready, later ones
\* untouched, and the current one is deployed in order.
Deploying ==
    phase = "deploying" =>
        /\ \A n \in Node : status[n] \in {"absent", "deploying", "ready"}
        /\ All(Placed(at - 1), "ready")
        /\ \A k \in at + 1 .. Len(levels) : All(levels[k], "absent")
        /\ at <= Len(levels) =>
              \A c \in Chain : status[c] # "absent" => All(Group \cup {d \in Chain : d < c}, "ready")

Deployed == phase = "deployed" => All({TestApp} \cup AllPlaced, "ready")

\* Between two steps of the undeployment: whatever is not ready any more has
\* only removed components in the levels after its own.
Undeploying ==
    phase = "undeploying" =>
        /\ \A c \in AllPlaced :
              /\ status[c] \in {"ready", "undeploying", "removed"}
              /\ status[c] # "ready" => status[TestApp] = "removed"
        /\ status[TestApp] \in {"undeploying", "removed"}
        /\ \A i, k \in DOMAIN levels : \A c \in levels[i], d \in levels[k] :
              i < k /\ status[c] # "ready" => status[d] = "removed"

DeploymentInv ==
    SortInv /\ TypeOK /\ Prepared /\ Deploying /\ Deployed /\ Undeploying /\ OneByOne

-----------------------------------------------------------------------------
(* Levels *)

LEMMA LevelFacts ==
    ASSUME SortInv, NEW k \in 1 .. Len(levels)
    PROVE  /\ levels[k] \subseteq Component /\ levels[k] \subseteq AllPlaced
           /\ levels[k] \cap Placed(k - 1) = {}
           /\ \A c \in levels[k] : dependsOn[c] \subseteq Placed(k - 1)
           /\ Placed(k) = Placed(k - 1) \cup levels[k]
<1>1. k \in DOMAIN levels /\ Len(levels) \in Nat
  BY DEF SortInv, SortTypeOK
<1>2. levels[k] = {c \in Component \ Placed(k - 1) : dependsOn[c] \subseteq Placed(k - 1)}
  BY <1>1 DEF SortInv, LevelsAreDepths
<1>3. levels[k] \subseteq AllPlaced
  BY DEF AllPlaced, Placed
<1>4. Placed(k) = Placed(k - 1) \cup levels[k]
  <2>1. \A x : x \in Placed(k) <=> \E i \in 1 .. k : x \in levels[i]
    BY DEF Placed
  <2>2. \A x : x \in Placed(k - 1) <=> \E i \in 1 .. k - 1 : x \in levels[i]
    BY DEF Placed
  <2>3. \A i : i \in 1 .. k <=> i \in 1 .. k - 1 \/ i = k
    BY <1>1
  <2> QED
    BY <2>1, <2>2, <2>3
<1> QED
  BY <1>2, <1>3, <1>4

LEMMA OneLevel ==
    ASSUME SortInv, NEW i \in 1 .. Len(levels), NEW k \in 1 .. Len(levels),
           NEW c \in levels[i], c \in levels[k]
    PROVE  i = k
<1>1. Len(levels) \in Nat
  BY DEF SortInv, SortTypeOK
<1>2. ASSUME NEW a \in 1 .. Len(levels), NEW b \in 1 .. Len(levels), a < b,
             c \in levels[a], c \in levels[b]
      PROVE  FALSE
  <2>1. c \in Placed(b - 1)
    BY <1>1, <1>2 DEF Placed
  <2>2. levels[b] \cap Placed(b - 1) = {}
    BY LevelFacts
  <2> QED
    BY <1>2, <2>1, <2>2
<1>3. ~(i < k) /\ ~(k < i)
  BY <1>2
<1> QED
  BY <1>1, <1>3

LEMMA PlacedSubset ==
    ASSUME SortInv
    PROVE  /\ \A k \in 0 .. Len(levels) : Placed(k) \subseteq AllPlaced
           /\ AllPlaced \subseteq Component
           /\ \A c \in AllPlaced : \E k \in 1 .. Len(levels) : c \in levels[k]
<1>1. Len(levels) \in Nat
  BY DEF SortInv, SortTypeOK
<1>2. \A k \in 0 .. Len(levels) : Placed(k) \subseteq AllPlaced
  BY <1>1 DEF AllPlaced, Placed
<1>3. AllPlaced \subseteq Component
  BY PlacedClosed DEF SortInv
<1>4. \A c \in AllPlaced : \E k \in 1 .. Len(levels) : c \in levels[k]
  BY DEF AllPlaced, Placed
<1> QED
  BY <1>2, <1>3, <1>4

\* A component of a valid graph depends on components of the graph, and they
\* are in earlier levels.
LEMMA DependenciesEarlier ==
    ASSUME SortInv, NEW k \in 1 .. Len(levels), NEW c \in levels[k], NEW d \in dependsOn[c]
    PROVE  \E i \in 1 .. Len(levels) : i < k /\ d \in levels[i]
<1>1. Len(levels) \in Nat
  BY DEF SortInv, SortTypeOK
<1>2. d \in Placed(k - 1)
  BY LevelFacts
<1>3. PICK i \in 1 .. k - 1 : d \in levels[i]
  BY <1>2 DEF Placed
<1> QED
  BY <1>1, <1>3

\* While something of the current level is deploying, nothing else is.
LEMMA OnlyCurrentLevel ==
    ASSUME DeploymentInv, phase = "deploying", NEW c \in Component, status[c] = "deploying"
    PROVE  at \in 1 .. Len(levels) /\ c \in levels[at]
<1>1. Len(levels) \in Nat /\ at \in 1 .. Len(levels) + 1
  BY DEF DeploymentInv, TypeOK, SortTypeOK
<1>2. c \in AllPlaced
  BY DEF DeploymentInv, Prepared, All
<1>3. PICK k \in 1 .. Len(levels) : c \in levels[k]
  BY <1>2, PlacedSubset DEF DeploymentInv
<1>4. ~(k > at)
  BY <1>1, <1>3 DEF DeploymentInv, Deploying, All
<1>5. ~(k < at)
  <2>1. SUFFICES ASSUME k < at PROVE FALSE
    OBVIOUS
  <2>2. c \in Placed(at - 1)
    BY <1>1, <1>3, <2>1 DEF Placed
  <2> QED
    BY <2>2 DEF DeploymentInv, Deploying, All
<1> QED
  BY <1>1, <1>3, <1>4, <1>5

-----------------------------------------------------------------------------
(* Type correctness *)

LEMMA TypeInitially == Init => TypeOK
<1> SUFFICES ASSUME Init PROVE TypeOK
  OBVIOUS
<1>1. SortTypeOK
  BY SortInitially DEF Init, SortInv
<1>2. at \in 1 .. Len(levels) + 1
  BY DEF Init, SortInit
<1> QED
  BY <1>1, <1>2 DEF Init, TypeOK

LEMMA TypeStep == SortInv /\ TypeOK /\ Prepared /\ [Next]_vars => TypeOK'
<1> SUFFICES ASSUME SortInv, TypeOK, Prepared, [Next]_vars PROVE TypeOK'
  OBVIOUS
<1>0. Len(levels) \in Nat
  BY DEF TypeOK, SortTypeOK
<1> USE DEF TypeOK, Become
<1>1. CASE Sort
  <2>1. [SortNext]_sortVars /\ UNCHANGED deploymentVars /\ phase = "sorting"
    BY <1>1 DEF Sort
  <2>2. SortTypeOK'
    BY <2>1, SortStep DEF SortInv
  <2>3. at' = 1 /\ Len(levels') \in Nat
    BY <2>1, <2>2 DEF deploymentVars, Prepared, SortTypeOK
  <2>4. at' \in 1 .. Len(levels') + 1
    BY <2>3
  <2> QED
    BY <2>1, <2>2, <2>4 DEF deploymentVars
<1>2. CASE Sort \/ BeginDeployment \/ DeployGroup \/ DeployTestApp \/ Finish \/ UndeploymentDone
           \/ UndeployTestApp \/ (\E c \in Component : DeployNext(c) \/ Undeploy(c))
           \/ (\E n \in Node : Ready(n) \/ Gone(n) \/ Fail(n))
  BY <1>1, <1>2 DEF BeginDeployment, DeployGroup, DeployTestApp, Finish, UndeploymentDone,
        UndeployTestApp, DeployNext, Undeploy, Ready, Gone, Fail, sortVars, SortTypeOK
<1>3. CASE NextLevel
  BY <1>0, <1>3 DEF NextLevel, InLevel, sortVars, SortTypeOK
<1>4. CASE UNCHANGED vars
  BY <1>4 DEF vars, deploymentVars, sortVars, SortTypeOK
<1> QED
  BY <1>1, <1>2, <1>3, <1>4 DEF Next, Progress

-----------------------------------------------------------------------------
(* Every step preserves the invariant *)

\* Deployment leaves the sorted graph alone.
LEMMA SortFrame ==
    ASSUME SortInv, UNCHANGED sortVars
    PROVE  /\ SortInv' /\ (Sorted <=> Sorted')
           /\ AllPlaced' = AllPlaced /\ levels' = levels /\ dependsOn' = dependsOn
           /\ \A k : Placed(k)' = Placed(k)
<1>1. SortInv'
  BY SortStep
<1> QED
  BY <1>1 DEF sortVars, Sorted, AllPlaced, Placed

LEMMA InvInitially == Init => DeploymentInv
<1> SUFFICES ASSUME Init PROVE DeploymentInv
  OBVIOUS
<1>1. SortInv /\ TypeOK
  BY SortInitially, TypeInitially DEF Init
<1>2. phase = "sorting" /\ at = 1 /\ \A n \in Node : status[n] = "absent"
  BY DEF Init
<1>3. Component \subseteq Node
  BY DEF Node
<1>4. OneByOne
  BY <1>2, <1>3 DEF OneByOne
<1> QED
  BY <1>1, <1>2, <1>3, <1>4
     DEF DeploymentInv, Prepared, Deploying, Deployed, Undeploying, All

LEMMA SortPreserves ==
    ASSUME DeploymentInv, Sort
    PROVE  DeploymentInv'
<1>1. SortInv' /\ TypeOK'
  BY SortStep, TypeStep DEF DeploymentInv, Sort, Next, Progress
<1>2. /\ phase' = "sorting" /\ at' = 1 /\ \A n \in Node : status'[n] = "absent"
  BY DEF DeploymentInv, Prepared, Sort, deploymentVars, All
<1>3. Component \subseteq Node
  BY DEF Node
<1>4. OneByOne'
  BY <1>2, <1>3 DEF OneByOne
<1> QED
  BY <1>1, <1>2, <1>3, <1>4
     DEF DeploymentInv, Prepared, Deploying, Deployed, Undeploying, All

LEMMA BeginPreserves ==
    ASSUME DeploymentInv, BeginDeployment
    PROVE  DeploymentInv'
<1>1. TypeOK' /\ UNCHANGED sortVars
  BY TypeStep DEF DeploymentInv, BeginDeployment, Next, Progress
<1>2. /\ SortInv' /\ (Sorted <=> Sorted') /\ AllPlaced' = AllPlaced /\ levels' = levels
  BY <1>1, SortFrame DEF DeploymentInv
<1>3. /\ phase' = "deploying" /\ at' = 1 /\ UNCHANGED <<status, parallel>>
      /\ \A n \in Node : status'[n] = "absent"
  BY DEF DeploymentInv, Prepared, BeginDeployment, All
<1>4. Component \subseteq Node
  BY DEF Node
<1>5. Prepared'
  BY <1>2, <1>3, <1>4 DEF BeginDeployment, Prepared, All
<1>6. OneByOne'
  BY <1>3, <1>4 DEF OneByOne
<1>7. Placed(at - 1)' = {}
  BY <1>3 DEF Placed
<1>8. \A k \in 1 .. Len(levels) : levels[k] \subseteq Node
  BY <1>4, LevelFacts DEF DeploymentInv
<1>9. Deploying'
  <2>1. Len(levels) \in Nat
    BY DEF DeploymentInv, TypeOK, SortTypeOK
  <2>2. \A k \in at' + 1 .. Len(levels') : All(levels[k], "absent")'
    BY <1>2, <1>3, <1>8, <2>1 DEF All
  <2>3. at' <= Len(levels') => \A c \in Chain' : status'[c] = "absent"
    BY <1>2, <1>3, <1>8, <2>1 DEF Chain
  <2> QED
    BY <1>2, <1>3, <1>7, <2>2, <2>3 DEF Deploying, All
<1> QED
  BY <1>1, <1>2, <1>3, <1>5, <1>6, <1>9 DEF DeploymentInv, Deployed, Undeploying

\* What the steps of the deployment have in common: the graph, the flags and
\* the level stay, and the statuses of a set of nodes change.
LEMMA DeployFrame ==
    ASSUME DeploymentInv, [Next]_vars, phase = "deploying", NEW S \in SUBSET Node, NEW value,
           Become(S, value), UNCHANGED <<sortVars, phase, parallel, testAppParallel, at>>
    PROVE  /\ SortInv' /\ TypeOK' /\ Sorted' /\ AllPlaced' = AllPlaced /\ levels' = levels
           /\ Placed(at - 1)' = Placed(at - 1)
           /\ \A n \in Node : status'[n] = IF n \in S THEN value ELSE status[n]
           /\ (Deployed /\ Undeploying)'
           /\ Component \subseteq Node /\ TestApp \in Node /\ TestApp \notin Component
           /\ Len(levels) \in Nat /\ at \in 1 .. Len(levels) + 1
<1>1. /\ SortInv' /\ (Sorted <=> Sorted') /\ AllPlaced' = AllPlaced /\ levels' = levels
  BY SortFrame DEF DeploymentInv
<1>2. Placed(at - 1)' = Placed(at - 1)
  BY DEF Placed, sortVars
<1>3. TypeOK' /\ Len(levels) \in Nat /\ at \in 1 .. Len(levels) + 1
  BY TypeStep DEF DeploymentInv, TypeOK, SortTypeOK
<1> QED
  BY <1>1, <1>2, <1>3, GraphDeploymentAssumption
     DEF DeploymentInv, Prepared, Deployed, Undeploying, Become, Node

LEMMA DeployGroupPreserves ==
    ASSUME DeploymentInv, DeployGroup
    PROVE  DeploymentInv'
<1>0. SortInv /\ phase = "deploying" /\ Group \subseteq Component /\ Group \subseteq levels[at]
      /\ at \in 1 .. Len(levels) /\ Component \subseteq Node
  BY LevelFacts DEF DeploymentInv, DeployGroup, InLevel, Group, Node, TypeOK, SortTypeOK
<1>1. /\ SortInv' /\ TypeOK' /\ Sorted' /\ AllPlaced' = AllPlaced /\ levels' = levels
      /\ Placed(at - 1)' = Placed(at - 1)
      /\ \A n \in Node : status'[n] = IF n \in Group THEN "deploying" ELSE status[n]
      /\ (Deployed /\ Undeploying)'
      /\ Len(levels) \in Nat
  BY <1>0, DeployFrame DEF DeployGroup, Next, Progress
<1>2. /\ phase' = phase /\ at' = at /\ parallel' = parallel /\ Group' = Group /\ Chain' = Chain
      /\ Group # {} /\ All(Group, "absent")
  BY <1>1 DEF DeployGroup, Group, Chain
<1>3. \A c \in Chain : status[c] = "absent"
  BY <1>0, <1>2 DEF DeploymentInv, Deploying, All
<1>4. Prepared'
  <2>1. Group \subseteq AllPlaced
    BY <1>0, LevelFacts
  <2> QED
    BY <1>0, <1>1, <1>2, <2>1 DEF DeploymentInv, Prepared, All
<1>5. Deploying'
  <2>1. \A n \in Node : status'[n] \in {"absent", "deploying", "ready"}
    BY <1>0, <1>1 DEF DeploymentInv, Deploying
  <2>2. All(Placed(at - 1), "ready")'
    <3>1. levels[at] \cap Placed(at - 1) = {} /\ Placed(at - 1) \subseteq AllPlaced
      BY <1>0, <1>1, LevelFacts, PlacedSubset
    <3>2. Placed(at - 1) \subseteq Node
      BY <1>0, <3>1, PlacedSubset
    <3> QED
      BY <1>0, <1>1, <3>1, <3>2 DEF DeploymentInv, Deploying, All
  <2>3. \A k \in at + 1 .. Len(levels) : All(levels[k], "absent")'
    <3> SUFFICES ASSUME NEW k \in at + 1 .. Len(levels), NEW c \in levels[k]
                 PROVE  status'[c] = "absent"
      BY <1>1 DEF All
    <3>1. k \in 1 .. Len(levels) /\ k # at
      BY <1>0, <1>1
    <3>2. c \in Component /\ c \notin Group
      BY <1>0, <3>1, LevelFacts, OneLevel
    <3>3. status[c] = "absent"
      BY <1>0 DEF DeploymentInv, Deploying, All
    <3> QED
      BY <1>0, <1>1, <3>2, <3>3
  <2>4. \A c \in Chain : status'[c] = "absent"
    BY <1>0, <1>1, <1>3, LevelFacts DEF Group, Chain
  <2> QED
    BY <1>1, <1>2, <2>1, <2>2, <2>3, <2>4 DEF Deploying
<1>6. OneByOne'
  <2>1. ASSUME NEW c \in Component \ parallel PROVE status'[c] # "deploying"
    <3>1. c \notin Group
      BY DEF Group
    <3>2. ASSUME status[c] = "deploying" PROVE FALSE
      <4>1. c \in Chain
        BY <1>0, <3>1, <3>2, OnlyCurrentLevel DEF Chain
      <4> QED
        BY <1>3, <3>2, <4>1
    <3> QED
      BY <1>0, <1>1, <3>1, <3>2
  <2>2. \A n \in Node : status'[n] # "undeploying"
    BY <1>0, <1>1 DEF DeploymentInv, Deploying
  <2> QED
    BY <1>2, <2>1, <2>2 DEF OneByOne
<1> QED
  BY <1>1, <1>4, <1>5, <1>6 DEF DeploymentInv

LEMMA DeployNextPreserves ==
    ASSUME DeploymentInv, NEW b \in Component, DeployNext(b)
    PROVE  DeploymentInv'
<1>0. SortInv /\ phase = "deploying" /\ b \in levels[at] /\ b \notin parallel
      /\ at \in 1 .. Len(levels) /\ Component \subseteq Node
  BY DEF DeploymentInv, DeployNext, InLevel, Chain, Node, TypeOK, SortTypeOK
<1>1. /\ SortInv' /\ TypeOK' /\ Sorted' /\ AllPlaced' = AllPlaced /\ levels' = levels
      /\ Placed(at - 1)' = Placed(at - 1)
      /\ \A n \in Node : status'[n] = IF n \in {b} THEN "deploying" ELSE status[n]
      /\ (Deployed /\ Undeploying)'
      /\ Len(levels) \in Nat
  BY <1>0, DeployFrame DEF DeployNext, Next, Progress
<1>2. /\ phase' = phase /\ at' = at /\ parallel' = parallel /\ Group' = Group /\ Chain' = Chain
      /\ b \in Chain /\ status[b] = "absent" /\ All(Group \cup {d \in Chain : d < b}, "ready")
  BY <1>1 DEF DeployNext, Group, Chain
<1>3. Group \subseteq Component /\ Chain \subseteq Component /\ Group \cup Chain = levels[at]
  BY <1>0, LevelFacts DEF Group, Chain
<1>4. ASSUME NEW c \in Chain, status[c] # "absent", c # b PROVE c < b /\ status[c] = "ready"
  <2>1. ~(b < c)
    BY <1>0, <1>2, <1>4 DEF DeploymentInv, Deploying, All
  <2>2. c < b
    BY <1>3, <1>4, <2>1, TopologicalSortAssumption DEF Component
  <2> QED
    BY <1>2, <2>2 DEF All
<1>5. Prepared'
  <2>1. b \in AllPlaced
    BY <1>0, LevelFacts
  <2> QED
    BY <1>0, <1>1, <1>2, <2>1 DEF DeploymentInv, Prepared, All
<1>6. Deploying'
  <2>1. \A n \in Node : status'[n] \in {"absent", "deploying", "ready"}
    BY <1>0, <1>1 DEF DeploymentInv, Deploying
  <2>2. All(Placed(at - 1), "ready")'
    <3>1. levels[at] \cap Placed(at - 1) = {} /\ Placed(at - 1) \subseteq AllPlaced
      BY <1>0, <1>1, LevelFacts, PlacedSubset
    <3>2. Placed(at - 1) \subseteq Node
      BY <1>0, <3>1, PlacedSubset
    <3> QED
      BY <1>0, <1>1, <3>1, <3>2 DEF DeploymentInv, Deploying, All
  <2>3. \A k \in at + 1 .. Len(levels) : All(levels[k], "absent")'
    <3> SUFFICES ASSUME NEW k \in at + 1 .. Len(levels), NEW c \in levels[k]
                 PROVE  status'[c] = "absent"
      BY <1>1 DEF All
    <3>1. k \in 1 .. Len(levels) /\ k # at
      BY <1>0, <1>1
    <3>2. c \in Component /\ c # b
      BY <1>0, <3>1, LevelFacts, OneLevel
    <3>3. status[c] = "absent"
      BY <1>0 DEF DeploymentInv, Deploying, All
    <3> QED
      BY <1>0, <1>1, <3>2, <3>3
  <2>4. ASSUME NEW c \in Chain, status'[c] # "absent"
        PROVE  \A d \in Group \cup {e \in Chain : e < c} : status'[d] = "ready"
    <3>1. \A d \in Group \cup {e \in Chain : e < c} : status[d] = "ready"
      <4>1. CASE c = b
        BY <1>2, <4>1 DEF All
      <4>2. CASE c # b
        <5>1. status[c] # "absent"
          BY <1>0, <1>1, <1>3, <2>4, <4>2
        <5> QED
          BY <1>0, <5>1 DEF DeploymentInv, Deploying, All
      <4> QED
        BY <4>1, <4>2
    <3> QED
      BY <1>0, <1>1, <1>2, <1>3, <3>1
  <2> QED
    BY <1>1, <1>2, <2>1, <2>2, <2>3, <2>4 DEF Deploying, All
<1>7. OneByOne'
  <2>1. ASSUME NEW d \in Component \ {b} PROVE status'[d] # "deploying"
    <3>1. status'[d] = status[d]
      BY <1>0, <1>1
    <3>2. ASSUME status[d] = "deploying" PROVE FALSE
      <4>1. d \in levels[at]
        BY <1>0, <3>2, OnlyCurrentLevel
      <4> QED
        BY <1>2, <1>3, <1>4, <3>2, <4>1 DEF All
    <3> QED
      BY <3>1, <3>2
  <2>2. ASSUME NEW k \in DOMAIN levels, b \in levels[k],
               NEW d \in levels[k], d < b \/ d \in parallel
        PROVE  status'[d] = "ready"
    <3>0. SortInv /\ DOMAIN levels = 1 .. Len(levels)
      BY <1>0 DEF SortInv, SortTypeOK
    <3>1. k = at
      BY <1>0, <2>2, <3>0, OneLevel
    <3>2. status[d] = "ready"
      BY <1>2, <1>3, <2>2, <3>1 DEF All, Group
    <3> QED
      BY <1>0, <1>1, <1>2, <1>3, <2>2, <3>1, <3>2
  <2>3. \A n \in Node : status'[n] # "undeploying"
    BY <1>0, <1>1 DEF DeploymentInv, Deploying
  <2> QED
    BY <1>1, <1>2, <2>1, <2>2, <2>3 DEF OneByOne, All
<1> QED
  BY <1>1, <1>5, <1>6, <1>7 DEF DeploymentInv

LEMMA NextLevelPreserves ==
    ASSUME DeploymentInv, NextLevel
    PROVE  DeploymentInv'
<1>0. /\ SortInv /\ phase = "deploying" /\ at \in 1 .. Len(levels) /\ Len(levels) \in Nat
      /\ All(levels[at], "ready") /\ UNCHANGED <<sortVars, phase, parallel, status>>
      /\ at' = at + 1
  BY DEF DeploymentInv, NextLevel, InLevel, TypeOK, SortTypeOK
<1>1. /\ SortInv' /\ (Sorted <=> Sorted') /\ AllPlaced' = AllPlaced /\ levels' = levels
      /\ \A k : Placed(k)' = Placed(k)
  BY <1>0, SortFrame
<1>2. TypeOK'
  BY TypeStep DEF DeploymentInv, Next, Progress
<1>3. Deploying'
  <2>1. All(Placed(at - 1), "ready")'
    <3>1. Placed(at - 1)' = Placed(at)
      <4>1. Placed(at - 1)' = UNION {levels[i] : i \in 1 .. at}
        BY <1>0, <1>1 DEF Placed
      <4> QED
        BY <4>1 DEF Placed
    <3>2. Placed(at) = Placed(at - 1) \cup levels[at]
      BY <1>0, LevelFacts
    <3> QED
      BY <1>0, <3>1, <3>2 DEF DeploymentInv, Deploying, All
  <2>2. \A k \in at + 1 .. Len(levels) : \A c \in levels[k] : status[c] = "absent"
    BY <1>0 DEF DeploymentInv, Deploying, All
  <2>3. \A k \in at' + 1 .. Len(levels') : All(levels[k], "absent")'
    BY <1>0, <1>1, <2>2 DEF All
  <2>4. at' <= Len(levels') => \A c \in Chain' : status'[c] = "absent"
    BY <1>0, <1>1, <2>2 DEF Chain
  <2> QED
    BY <1>0, <2>1, <2>3, <2>4 DEF DeploymentInv, Deploying
<1>4. Prepared' /\ Deployed' /\ Undeploying' /\ OneByOne'
  BY <1>0, <1>1 DEF DeploymentInv, Prepared, Deployed, Undeploying, OneByOne, All
<1> QED
  BY <1>1, <1>2, <1>3, <1>4 DEF DeploymentInv

LEMMA DeployTestAppPreserves ==
    ASSUME DeploymentInv, DeployTestApp
    PROVE  DeploymentInv'
<1>0. SortInv /\ phase = "deploying" /\ TestApp \in Node
  BY DEF DeploymentInv, DeployTestApp, Node
<1>1. /\ SortInv' /\ TypeOK' /\ Sorted' /\ AllPlaced' = AllPlaced /\ levels' = levels
      /\ Placed(at - 1)' = Placed(at - 1)
      /\ \A n \in Node : status'[n] = IF n \in {TestApp} THEN "deploying" ELSE status[n]
      /\ (Deployed /\ Undeploying)'
      /\ Component \subseteq Node /\ TestApp \notin Component
      /\ Len(levels) \in Nat /\ at \in 1 .. Len(levels) + 1
  BY <1>0, DeployFrame DEF DeployTestApp, Next, Progress
<1>2. /\ phase' = phase /\ at' = at /\ parallel' = parallel /\ Group' = Group /\ Chain' = Chain
  BY <1>1 DEF DeployTestApp, Group, Chain
<1>3. \A c \in Component : status'[c] = status[c]
  BY <1>1
<1>4. \A k \in 1 .. Len(levels) : levels[k] \subseteq Component
  BY <1>0, LevelFacts
<1>5. Placed(at - 1) \subseteq Component
  BY <1>0, <1>1, PlacedSubset
<1>6. Deploying'
  <2>1. \A n \in Node : status'[n] \in {"absent", "deploying", "ready"}
    BY <1>0, <1>1 DEF DeploymentInv, Deploying
  <2>2. All(Placed(at - 1), "ready")'
    BY <1>0, <1>1, <1>3, <1>5 DEF DeploymentInv, Deploying, All
  <2>3. \A k \in at + 1 .. Len(levels) : All(levels[k], "absent")'
    BY <1>0, <1>1, <1>3, <1>4 DEF DeploymentInv, Deploying, All
  <2>4. at <= Len(levels) => Group \subseteq Component /\ Chain \subseteq Component
    BY <1>1, <1>4 DEF Group, Chain
  <2>5. at <= Len(levels) => \A c \in Chain : status'[c] # "absent"
                                => All(Group \cup {d \in Chain : d < c}, "ready")'
    BY <1>0, <1>2, <1>3, <2>4 DEF DeploymentInv, Deploying, All
  <2> QED
    BY <1>1, <1>2, <2>1, <2>2, <2>3, <2>5 DEF Deploying
<1>7. Prepared'
  BY <1>0, <1>1, <1>2, <1>3 DEF DeploymentInv, Prepared, All
<1>8. OneByOne'
  <2>1. \A n \in Node : status'[n] # "undeploying"
    BY <1>0, <1>1 DEF DeploymentInv, Deploying
  <2>2. \A k \in DOMAIN levels : levels[k] \subseteq Component
    BY <1>4 DEF DeploymentInv, TypeOK, SortTypeOK
  <2> QED
    BY <1>1, <1>2, <1>3, <2>1, <2>2 DEF DeploymentInv, OneByOne, All
<1> QED
  BY <1>1, <1>6, <1>7, <1>8 DEF DeploymentInv

LEMMA ReadyPreserves ==
    ASSUME DeploymentInv, NEW b \in Node, Ready(b)
    PROVE  DeploymentInv'
<1>0. SortInv /\ phase = "deploying" /\ status[b] = "deploying"
  BY DEF DeploymentInv, Ready
<1>1. /\ SortInv' /\ TypeOK' /\ Sorted' /\ AllPlaced' = AllPlaced /\ levels' = levels
      /\ Placed(at - 1)' = Placed(at - 1)
      /\ \A n \in Node : status'[n] = IF n \in {b} THEN "ready" ELSE status[n]
      /\ (Deployed /\ Undeploying)'
      /\ Component \subseteq Node
      /\ Len(levels) \in Nat /\ at \in 1 .. Len(levels) + 1
  BY <1>0, DeployFrame DEF Ready, Next, Progress
<1>2. /\ phase' = phase /\ at' = at /\ parallel' = parallel /\ Group' = Group /\ Chain' = Chain
  BY <1>1 DEF Ready, Group, Chain
<1>3. /\ \A n \in Node : status[n] = "ready" => status'[n] = "ready"
      /\ \A n \in Node : status[n] = "absent" <=> status'[n] = "absent"
      /\ \A n \in Node : status'[n] = "deploying" => status[n] = "deploying"
  BY <1>0, <1>1
<1>4. \A k \in 1 .. Len(levels) : levels[k] \subseteq Node
  BY <1>0, <1>1, LevelFacts
<1>5. Placed(at - 1) \subseteq Node
  BY <1>0, <1>1, PlacedSubset
<1>6. Deploying'
  <2>1. \A n \in Node : status'[n] \in {"absent", "deploying", "ready"}
    BY <1>0, <1>1 DEF DeploymentInv, Deploying
  <2>2. All(Placed(at - 1), "ready")'
    BY <1>0, <1>1, <1>3, <1>5 DEF DeploymentInv, Deploying, All
  <2>3. \A k \in at + 1 .. Len(levels) : All(levels[k], "absent")'
    BY <1>0, <1>1, <1>3, <1>4 DEF DeploymentInv, Deploying, All
  <2>4. at <= Len(levels) => Group \subseteq Node /\ Chain \subseteq Node
    BY <1>1, <1>4 DEF Group, Chain
  <2>5. at <= Len(levels) => \A c \in Chain : status'[c] # "absent"
                                => All(Group \cup {d \in Chain : d < c}, "ready")'
    BY <1>0, <1>2, <1>3, <2>4 DEF DeploymentInv, Deploying, All
  <2> QED
    BY <1>1, <1>2, <2>1, <2>2, <2>3, <2>5 DEF Deploying
<1>7. Prepared'
  BY <1>0, <1>1, <1>2, <1>3 DEF DeploymentInv, Prepared, All
<1>8. OneByOne'
  <2>1. \A n \in Node : status'[n] # "undeploying"
    BY <1>0, <1>1 DEF DeploymentInv, Deploying
  <2>2. \A k \in DOMAIN levels : levels[k] \subseteq Node
    BY <1>4 DEF DeploymentInv, TypeOK, SortTypeOK
  <2> QED
    BY <1>1, <1>2, <1>3, <2>1, <2>2 DEF DeploymentInv, OneByOne, All
<1> QED
  BY <1>1, <1>6, <1>7, <1>8 DEF DeploymentInv

LEMMA FinishPreserves ==
    ASSUME DeploymentInv, Finish
    PROVE  DeploymentInv'
<1>0. /\ SortInv /\ phase = "deploying" /\ at = Len(levels) + 1 /\ Len(levels) \in Nat
      /\ status[TestApp] = "ready" /\ phase' = "deployed"
      /\ UNCHANGED <<sortVars, parallel, status, at>>
  BY DEF DeploymentInv, Finish, LevelsDone, TypeOK, SortTypeOK
<1>1. /\ SortInv' /\ (Sorted <=> Sorted') /\ AllPlaced' = AllPlaced /\ levels' = levels
  BY <1>0, SortFrame
<1>2. TypeOK'
  BY TypeStep DEF DeploymentInv, Next, Progress
<1>3. at - 1 = Len(levels)
  BY <1>0
<1>4. All(AllPlaced, "ready")
  BY <1>0, <1>3 DEF DeploymentInv, Deploying, AllPlaced
<1>5. Prepared' /\ Deploying' /\ Deployed' /\ Undeploying' /\ OneByOne'
  BY <1>0, <1>1, <1>4 DEF DeploymentInv, Prepared, Deploying, Deployed, Undeploying, OneByOne, All
<1> QED
  BY <1>1, <1>2, <1>5 DEF DeploymentInv

LEMMA UndeployTestAppPreserves ==
    ASSUME DeploymentInv, UndeployTestApp
    PROVE  DeploymentInv'
<1>0. /\ SortInv /\ phase = "deployed" /\ phase' = "undeploying"
      /\ UNCHANGED sortVars /\ parallel' = parallel
      /\ \A n \in Node : status'[n] = IF n = TestApp THEN "undeploying" ELSE status[n]
      /\ Component \subseteq Node /\ TestApp \in Node /\ TestApp \notin Component
  BY GraphDeploymentAssumption DEF DeploymentInv, UndeployTestApp, Become, Node
<1>1. /\ SortInv' /\ (Sorted <=> Sorted') /\ AllPlaced' = AllPlaced /\ levels' = levels
  BY <1>0, SortFrame
<1>2. TypeOK'
  BY TypeStep DEF DeploymentInv, Next
<1>3. \A c \in Component : status'[c] = status[c] /\ status[c] \in {"ready", "absent"}
  BY <1>0 DEF DeploymentInv, Deployed, Prepared, All
<1>4. AllPlaced \subseteq Component /\ \A c \in AllPlaced : status[c] = "ready"
  BY <1>0, PlacedSubset DEF DeploymentInv, Deployed, All
<1>5. \A k \in DOMAIN levels : levels[k] \subseteq AllPlaced
  BY <1>0, LevelFacts DEF SortInv, SortTypeOK
<1>6. Undeploying'
  BY <1>0, <1>1, <1>3, <1>4, <1>5 DEF Undeploying
<1>7. OneByOne'
  <2>1. \A n \in Node : status'[n] = "undeploying" => n = TestApp
    BY <1>0, <1>3 DEF Node
  <2> QED
    BY <1>0, <1>3, <2>1 DEF OneByOne
<1>8. Prepared' /\ Deploying' /\ Deployed'
  BY <1>0, <1>1, <1>3 DEF DeploymentInv, Prepared, Deploying, Deployed, All
<1> QED
  BY <1>1, <1>2, <1>6, <1>7, <1>8 DEF DeploymentInv

\* The level a component is undeployed from, and what its guards say.
LEMMA UndeployGuard ==
    ASSUME DeploymentInv, NEW b \in Component, Undeploy(b)
    PROVE  /\ status[TestApp] = "removed"
           /\ b \in AllPlaced
           /\ \A n \in Node : status[n] # "undeploying"
           /\ \A i, k \in DOMAIN levels : \A d \in levels[k] :
                 i < k /\ b \in levels[i] => status[d] = "removed"
<1>1. SortInv /\ Len(levels) \in Nat /\ DOMAIN levels = 1 .. Len(levels) /\ TestApp \in Node
  BY DEF DeploymentInv, SortInv, SortTypeOK, Node
<1>2. PICK j \in 1 .. Len(levels) :
        b \in levels[j] /\ \A i \in j + 1 .. Len(levels) : All(levels[i], "removed")
  BY <1>1 DEF Undeploy
<1>3. b \in AllPlaced
  BY <1>1, <1>2, LevelFacts
<1>4. status[TestApp] = "removed" /\ \A n \in Node : status[n] # "undeploying"
  BY <1>1 DEF DeploymentInv, Undeploying, Undeploy
<1>5. ASSUME NEW i \in 1 .. Len(levels), NEW k \in 1 .. Len(levels), NEW d \in levels[k],
             i < k, b \in levels[i]
      PROVE  status[d] = "removed"
  <2>1. i = j
    BY <1>1, <1>2, <1>5, OneLevel
  <2> QED
    BY <1>1, <1>2, <1>5, <2>1 DEF All
<1> QED
  BY <1>1, <1>3, <1>4, <1>5

LEMMA UndeployPreserves ==
    ASSUME DeploymentInv, NEW b \in Component, Undeploy(b)
    PROVE  DeploymentInv'
<1>0. /\ SortInv /\ phase = "undeploying" /\ status[b] = "ready"
      /\ UNCHANGED <<sortVars, phase, parallel>>
      /\ \A n \in Node : status'[n] = IF n = b THEN "undeploying" ELSE status[n]
      /\ Component \subseteq Node /\ TestApp \in Node /\ TestApp \notin Component
  BY GraphDeploymentAssumption DEF DeploymentInv, Undeploy, Become, Node
<1>1. /\ SortInv' /\ (Sorted <=> Sorted') /\ AllPlaced' = AllPlaced /\ levels' = levels
  BY <1>0, SortFrame
<1>2. TypeOK'
  BY TypeStep DEF DeploymentInv, Next, Progress
<1>3. /\ status[TestApp] = "removed" /\ b \in AllPlaced
      /\ \A n \in Node : status[n] # "undeploying"
      /\ \A i, k \in DOMAIN levels : \A d \in levels[k] :
            i < k /\ b \in levels[i] => status[d] = "removed"
  BY UndeployGuard
<1>4. AllPlaced \subseteq Node /\ \A k \in DOMAIN levels : levels[k] \subseteq Node
  BY <1>0, PlacedSubset, LevelFacts DEF SortInv, SortTypeOK
<1>5. Undeploying'
  <2>1. \A c \in AllPlaced :
              /\ status'[c] \in {"ready", "undeploying", "removed"}
              /\ status'[c] # "ready" => status'[TestApp] = "removed"
    BY <1>0, <1>3, <1>4 DEF DeploymentInv, Undeploying
  <2>2. status'[TestApp] = "removed"
    BY <1>0, <1>3
  <2>3. ASSUME NEW i \in DOMAIN levels, NEW k \in DOMAIN levels,
               NEW c \in levels[i], NEW d \in levels[k], i < k, status'[c] # "ready"
        PROVE  status'[d] = "removed"
    <3>1. status[d] = "removed"
      BY <1>0, <1>3, <1>4, <2>3 DEF DeploymentInv, Undeploying
    <3> QED
      BY <1>0, <1>4, <3>1
  <2> QED
    BY <1>1, <2>1, <2>2, <2>3 DEF Undeploying
<1>6. Prepared'
  BY <1>0, <1>1, <1>3 DEF DeploymentInv, Prepared, All
<1>7. OneByOne'
  <2>1. \A c \in Component : status[c] # "deploying"
    BY <1>0 DEF DeploymentInv, Undeploying, Prepared, All
  <2>2. \A c \in Component : status'[c] # "deploying"
    BY <1>0, <2>1
  <2> QED
    BY <1>0, <1>3, <2>2 DEF OneByOne
<1>8. Deploying' /\ Deployed'
  BY <1>0 DEF Deploying, Deployed
<1> QED
  BY <1>1, <1>2, <1>5, <1>6, <1>7, <1>8 DEF DeploymentInv

LEMMA GonePreserves ==
    ASSUME DeploymentInv, NEW b \in Node, Gone(b)
    PROVE  DeploymentInv'
<1>0. /\ SortInv /\ phase = "undeploying" /\ status[b] = "undeploying"
      /\ UNCHANGED <<sortVars, phase, parallel>>
      /\ \A n \in Node : status'[n] = IF n = b THEN "removed" ELSE status[n]
      /\ Component \subseteq Node /\ TestApp \in Node
  BY DEF DeploymentInv, Gone, Become, Node
<1>1. /\ SortInv' /\ (Sorted <=> Sorted') /\ AllPlaced' = AllPlaced /\ levels' = levels
  BY <1>0, SortFrame
<1>2. TypeOK'
  BY TypeStep DEF DeploymentInv, Next, Progress
<1>3. AllPlaced \subseteq Node /\ \A k \in DOMAIN levels : levels[k] \subseteq Node
  BY <1>0, PlacedSubset, LevelFacts DEF SortInv, SortTypeOK
<1>4. /\ \A n \in Node : status[n] = "removed" => status'[n] = "removed"
      /\ \A n \in Node : status[n] = "ready" <=> status'[n] = "ready"
      /\ \A n \in Node : status[n] = "absent" <=> status'[n] = "absent"
  BY <1>0
<1>5. Undeploying'
  <2>1. \A c \in AllPlaced :
              /\ status'[c] \in {"ready", "undeploying", "removed"}
              /\ status'[c] # "ready" => status'[TestApp] = "removed"
    BY <1>0, <1>3, <1>4 DEF DeploymentInv, Undeploying
  <2>2. status'[TestApp] \in {"undeploying", "removed"}
    BY <1>0 DEF DeploymentInv, Undeploying
  <2>3. ASSUME NEW i \in DOMAIN levels, NEW k \in DOMAIN levels,
               NEW c \in levels[i], NEW d \in levels[k], i < k, status'[c] # "ready"
        PROVE  status'[d] = "removed"
    BY <1>0, <1>3, <1>4, <2>3 DEF DeploymentInv, Undeploying
  <2> QED
    BY <1>1, <2>1, <2>2, <2>3 DEF Undeploying
<1>6. Prepared'
  BY <1>0, <1>1, <1>4 DEF DeploymentInv, Prepared, All
<1>7. OneByOne'
  <2>1. \A c \in Component : status[c] # "deploying"
    BY <1>0 DEF DeploymentInv, Undeploying, Prepared, All
  <2>2. \A c \in Component : status'[c] # "deploying"
    BY <1>0, <2>1
  <2> QED
    BY <1>0, <2>2 DEF DeploymentInv, OneByOne
<1>8. Deploying' /\ Deployed'
  BY <1>0 DEF Deploying, Deployed
<1> QED
  BY <1>1, <1>2, <1>5, <1>6, <1>7, <1>8 DEF DeploymentInv

\* The steps after which nothing more happens to the graph.
LEMMA EndPreserves ==
    ASSUME DeploymentInv, UndeploymentDone \/ \E n \in Node : Fail(n)
    PROVE  DeploymentInv'
<1>0. /\ SortInv /\ phase # "sorting" /\ phase' \in {"removed", "failed"}
      /\ UNCHANGED <<sortVars, parallel, status>>
  BY DEF DeploymentInv, UndeploymentDone, Fail
<1>1. /\ SortInv' /\ (Sorted <=> Sorted') /\ AllPlaced' = AllPlaced /\ levels' = levels
  BY <1>0, SortFrame
<1>2. TypeOK'
  BY TypeStep DEF DeploymentInv, Next, Progress
<1>3. Prepared' /\ Deploying' /\ Deployed' /\ Undeploying' /\ OneByOne'
  BY <1>0, <1>1 DEF DeploymentInv, Prepared, Deploying, Deployed, Undeploying, OneByOne, All
<1> QED
  BY <1>1, <1>2, <1>3 DEF DeploymentInv

LEMMA StutterPreserves ==
    ASSUME DeploymentInv, UNCHANGED vars
    PROVE  DeploymentInv'
<1>1. /\ SortInv' /\ (Sorted <=> Sorted') /\ AllPlaced' = AllPlaced /\ levels' = levels
  BY SortFrame DEF DeploymentInv, vars
<1>2. TypeOK'
  BY TypeStep DEF DeploymentInv
<1>3. Placed(at - 1)' = Placed(at - 1)
  BY DEF Placed, vars, sortVars, deploymentVars
<1>4. Prepared' /\ Deploying' /\ Deployed' /\ Undeploying' /\ OneByOne'
  BY <1>1, <1>3 DEF DeploymentInv, Prepared, Deploying, Deployed, Undeploying, OneByOne, All,
        Chain, Group, vars, deploymentVars
<1> QED
  BY <1>1, <1>2, <1>4 DEF DeploymentInv

LEMMA InvStep == DeploymentInv /\ [Next]_vars => DeploymentInv'
<1> SUFFICES ASSUME DeploymentInv, [Next]_vars PROVE DeploymentInv'
  OBVIOUS
<1>1. CASE Sort
  BY <1>1, SortPreserves
<1>2. CASE BeginDeployment
  BY <1>2, BeginPreserves
<1>3. CASE DeployGroup
  BY <1>3, DeployGroupPreserves
<1>4. CASE \E c \in Component : DeployNext(c)
  BY <1>4, DeployNextPreserves
<1>5. CASE NextLevel
  BY <1>5, NextLevelPreserves
<1>6. CASE DeployTestApp
  BY <1>6, DeployTestAppPreserves
<1>7. CASE \E n \in Node : Ready(n)
  BY <1>7, ReadyPreserves
<1>8. CASE Finish
  BY <1>8, FinishPreserves
<1>9. CASE UndeployTestApp
  BY <1>9, UndeployTestAppPreserves
<1>10. CASE \E c \in Component : Undeploy(c)
  BY <1>10, UndeployPreserves
<1>11. CASE \E n \in Node : Gone(n)
  BY <1>11, GonePreserves
<1>12. CASE UndeploymentDone \/ \E n \in Node : Fail(n)
  BY <1>12, EndPreserves
<1>13. CASE UNCHANGED vars
  BY <1>13, StutterPreserves
<1> QED
  BY <1>1, <1>2, <1>3, <1>4, <1>5, <1>6, <1>7, <1>8, <1>9, <1>10, <1>11, <1>12, <1>13
     DEF Next, Progress

-----------------------------------------------------------------------------
(* Theorems *)

\* The inductive invariant the theorems below rest on.
THEOREM DeploymentInvariance == Spec => []DeploymentInv
<1> QED
  BY InvInitially, InvStep, PTL DEF Spec

\* Sort and deployment keep their types.
THEOREM DeploymentTypeCorrect == Spec => []TypeOK
<1>1. DeploymentInv => TypeOK
  BY DEF DeploymentInv
<1> QED
  BY <1>1, DeploymentInvariance, PTL

\* However large the graph and whatever its flags, a component without the flag
\* is never deployed beside another and follows the order of the pitfile.
THEOREM NeverBesideAnother == Spec => []OneByOne
<1>1. DeploymentInv => OneByOne
  BY DEF DeploymentInv
<1> QED
  BY <1>1, DeploymentInvariance, PTL

\* When every graph is valid, tests run against all of its components.
THEOREM WholeGraphDeployed ==
    ASSUME \A g \in Graphs : ValidGraph(Component, g)
    PROVE  Spec => []AllDeployed
<1>1. ASSUME DeploymentInv PROVE AllDeployed
  <2> SUFFICES ASSUME phase = "deployed" PROVE All(Node, "ready")
    BY DEF AllDeployed
  <2>1. SortInv /\ Sorted /\ ValidGraph(Component, dependsOn)
    BY <1>1 DEF DeploymentInv, Prepared, SortInv, SortTypeOK
  <2>2. AllPlaced = Component
    BY <2>1, SortComplete DEF NoneLeftOut, AllPlaced
  <2> QED
    BY <1>1, <2>2 DEF DeploymentInv, Deployed, Node, All
<1> QED
  BY <1>1, DeploymentInvariance, PTL

-----------------------------------------------------------------------------
(* The deployment implements ComponentRollout *)

\* In a valid graph every component is in some level when the sort is over.
LEMMA ValidPlaced ==
    ASSUME \A g \in Graphs : ValidGraph(Component, g), DeploymentInv, phase # "sorting"
    PROVE  AllPlaced = Component
<1>1. SortInv /\ Sorted /\ ValidGraph(Component, dependsOn)
  BY DEF DeploymentInv, Prepared, SortInv, SortTypeOK
<1> QED
  BY <1>1, SortComplete DEF NoneLeftOut, AllPlaced

\* What a node of the rollout needs.
LEMMA NeedsOf ==
    ASSUME DeploymentInv
    PROVE  /\ \A c \in Component : Needs(dependsOn)[c] = dependsOn[c] \cap Component
           /\ Needs(dependsOn)[TestApp] = Component
           /\ Component \subseteq Node /\ TestApp \in Node /\ TestApp \notin Component
  BY GraphDeploymentAssumption DEF Needs, Node

LEMMA RolloutInitially == Init => Rollout!Init
<1> SUFFICES ASSUME Init PROVE Rollout!Init
  OBVIOUS
<1>1. Needs(dependsOn) \in GraphNeeds
  BY DEF Init, SortInit, GraphNeeds
<1>2. (IF testAppParallel THEN {TestApp} ELSE {}) \in SUBSET Node
  BY DEF Node
<1>3. status = [n \in Node |-> "absent"]
  BY DEF Init
<1> QED
  BY <1>1, <1>2, <1>3 DEF Rollout!Init

\* The components of a level may be deployed when the earlier levels are ready.
LEMMA LevelMayStart ==
    ASSUME DeploymentInv, InLevel, NEW c \in levels[at]
    PROVE  \A d \in Needs(dependsOn)[c] : status[d] = "ready"
<1>1. SortInv /\ phase = "deploying" /\ at \in 1 .. Len(levels)
  BY DEF DeploymentInv, InLevel, TypeOK, SortTypeOK
<1>2. c \in Component /\ dependsOn[c] \subseteq Placed(at - 1)
  BY <1>1, LevelFacts
<1> QED
  BY <1>1, <1>2, NeedsOf DEF DeploymentInv, Deploying, All

LEMMA RolloutStep ==
    ASSUME \A g \in Graphs : ValidGraph(Component, g), DeploymentInv, [Next]_vars
    PROVE  [Rollout!Next]_<<Needs(dependsOn), IF testAppParallel THEN {TestApp} ELSE {}, status>>
<1> DEFINE needs == Needs(dependsOn)
           independent == IF testAppParallel THEN {TestApp} ELSE {}
<1>0. /\ \A c \in Component : needs[c] = dependsOn[c] \cap Component
      /\ needs[TestApp] = Component
      /\ Component \subseteq Node /\ TestApp \in Node /\ TestApp \notin Component
  BY NeedsOf
<1>1. CASE Sort \/ BeginDeployment \/ NextLevel \/ Finish \/ UndeploymentDone
           \/ (\E n \in Node : Fail(n)) \/ UNCHANGED vars
  <2>1. dependsOn' = dependsOn /\ UNCHANGED <<testAppParallel, status>>
    BY <1>1 DEF Sort, SortNext, Process, CompleteLevel, BeginDeployment, NextLevel, Finish,
          UndeploymentDone, Fail, vars, sortVars, deploymentVars
  <2> QED
    BY <2>1 DEF Needs
<1>2. ASSUME DeployGroup \/ DeployTestApp \/ UndeployTestApp
               \/ (\E c \in Component : DeployNext(c) \/ Undeploy(c))
               \/ (\E n \in Node : Ready(n) \/ Gone(n))
      PROVE  needs' = needs /\ independent' = independent
  <2>1. dependsOn' = dependsOn /\ testAppParallel' = testAppParallel
    BY <1>2 DEF DeployGroup, DeployTestApp, UndeployTestApp, DeployNext, Undeploy, Ready, Gone, sortVars
  <2> QED
    BY <2>1 DEF Needs
<1>3. CASE DeployGroup
  <2>1. InLevel /\ Group \subseteq Node /\ Group \subseteq levels[at] /\ Group # {}
    BY <1>0, <1>3 DEF DeployGroup, Group, DeploymentInv, TypeOK
  <2>2. \A n \in Group : status[n] = "absent" /\ \A d \in needs[n] : status[d] = "ready"
    BY <1>3, <2>1, LevelMayStart DEF DeployGroup, All
  <2>3. Rollout!Deploy(Group)
    BY <1>2, <1>3, <2>2 DEF DeployGroup, Become, Rollout!Deploy, Rollout!AllReady, Rollout!Become
  <2> QED
    BY <2>1, <2>3 DEF Rollout!Next
<1>4. CASE \E c \in Component : DeployNext(c)
  <2>1. PICK c \in Component : DeployNext(c)
    BY <1>4
  <2>2. InLevel /\ c \in levels[at] /\ status[c] = "absent"
    BY <2>1 DEF DeployNext, Chain
  <2>3. \A d \in needs[c] : status[d] = "ready"
    BY <2>2, LevelMayStart
  <2>4. Rollout!Deploy({c})
    BY <1>2, <2>1, <2>2, <2>3 DEF DeployNext, Become, Rollout!Deploy, Rollout!AllReady, Rollout!Become
  <2>5. {c} \in SUBSET Node
    BY <1>0
  <2> QED
    BY <2>4, <2>5 DEF Rollout!Next
<1>5. CASE DeployTestApp
  <2>1. TestApp \in independent \/ \A d \in needs[TestApp] : status[d] = "ready"
    <3>1. CASE testAppParallel
      BY <3>1
    <3>2. CASE ~testAppParallel
      <4>1. phase = "deploying" /\ at > Len(levels)
        BY <1>5, <3>2 DEF DeployTestApp, LevelsDone
      <4>2. at - 1 = Len(levels)
        BY <4>1 DEF DeploymentInv, TypeOK, SortTypeOK
      <4>3. AllPlaced = Component
        BY <4>1, ValidPlaced
      <4> QED
        BY <1>0, <4>1, <4>2, <4>3 DEF DeploymentInv, Deploying, All, AllPlaced
    <3> QED
      BY <3>1, <3>2
  <2>2. Rollout!Deploy({TestApp})
    BY <1>2, <1>5, <2>1 DEF DeployTestApp, Become, Rollout!Deploy, Rollout!AllReady, Rollout!Become
  <2>3. {TestApp} \in SUBSET Node
    BY <1>0
  <2> QED
    BY <2>2, <2>3 DEF Rollout!Next
<1>6. CASE \E n \in Node : Ready(n)
  <2>1. PICK n \in Node : Ready(n)
    BY <1>6
  <2>2. Rollout!Ready(n)
    BY <1>2, <2>1 DEF Ready, Become, Rollout!Ready, Rollout!Become
  <2> QED
    BY <2>2 DEF Rollout!Next
<1>7. CASE UndeployTestApp
  <2>1. status[TestApp] = "ready" /\ \A d \in Component : status[d] = "ready"
    BY <1>7, ValidPlaced DEF UndeployTestApp, DeploymentInv, Deployed, All
  <2>2. \A m \in Node : TestApp \notin needs[m]
    BY <1>0 DEF Node
  <2>3. Rollout!Undeploy(TestApp)
    BY <1>0, <1>2, <1>7, <2>1, <2>2
       DEF UndeployTestApp, Become, Rollout!Undeploy, Rollout!AllReady, Rollout!Become
  <2> QED
    BY <1>0, <2>3 DEF Rollout!Next
<1>8. CASE \E c \in Component : Undeploy(c)
  <2>1. PICK b \in Component : Undeploy(b)
    BY <1>8
  <2>2. /\ SortInv /\ phase = "undeploying" /\ status[b] = "ready"
        /\ DOMAIN levels = 1 .. Len(levels) /\ AllPlaced = Component
    BY <2>1, ValidPlaced DEF Undeploy, DeploymentInv, SortInv, SortTypeOK
  <2>3. /\ status[TestApp] = "removed"
        /\ \A i, k \in DOMAIN levels : \A d \in levels[k] :
              i < k /\ b \in levels[i] => status[d] = "removed"
    BY <2>1, UndeployGuard
  <2>4. ASSUME NEW d \in needs[b] PROVE status[d] = "ready"
    <3>1. d \in dependsOn[b]
      BY <1>0
    <3>2. PICK k \in 1 .. Len(levels) : b \in levels[k]
      BY <2>2, PlacedSubset
    <3>3. PICK i \in 1 .. Len(levels) : i < k /\ d \in levels[i]
      BY <2>2, <3>1, <3>2, DependenciesEarlier
    <3> QED
      BY <2>2, <3>2, <3>3 DEF DeploymentInv, Undeploying
  <2>5. ASSUME NEW m \in Node, b \in needs[m] PROVE status[m] = "removed"
    <3>1. CASE m = TestApp
      BY <2>3, <3>1
    <3>2. CASE m \in Component
      <4>1. b \in dependsOn[m]
        BY <1>0, <2>5, <3>2
      <4>2. PICK k \in 1 .. Len(levels) : m \in levels[k]
        BY <2>2, <3>2, PlacedSubset
      <4>3. PICK i \in 1 .. Len(levels) : i < k /\ b \in levels[i]
        BY <2>2, <4>1, <4>2, DependenciesEarlier
      <4> QED
        BY <2>2, <2>3, <4>2, <4>3
    <3> QED
      BY <3>1, <3>2 DEF Node
  <2>6. Rollout!Undeploy(b)
    BY <1>2, <2>1, <2>2, <2>4, <2>5
       DEF Undeploy, Become, Rollout!Undeploy, Rollout!AllReady, Rollout!Become
  <2> QED
    BY <1>0, <2>6 DEF Rollout!Next
<1>9. CASE \E n \in Node : Gone(n)
  <2>1. PICK n \in Node : Gone(n)
    BY <1>9
  <2>2. Rollout!Gone(n)
    BY <1>2, <2>1 DEF Gone, Become, Rollout!Gone, Rollout!Become
  <2> QED
    BY <2>2 DEF Rollout!Next
<1> QED
  BY <1>1, <1>3, <1>4, <1>5, <1>6, <1>7, <1>8, <1>9 DEF Next, Progress

\* For valid graphs of any size, levels, groups, chains and the reverse order of
\* the undeployment keep the promise: nothing is deployed before what it needs,
\* and nothing is undeployed under something that needs it.
THEOREM RolloutImplemented ==
    ASSUME \A g \in Graphs : ValidGraph(Component, g)
    PROVE  Spec => RolloutPromise
<1>1. DeploymentInv /\ [Next]_vars
        => [Rollout!Next]_<<Needs(dependsOn), IF testAppParallel THEN {TestApp} ELSE {}, status>>
  BY RolloutStep
<1> QED
  BY <1>1, RolloutInitially, DeploymentInvariance, PTL
     DEF Spec, RolloutPromise, Rollout!Spec, Rollout!rolloutVars
=============================================================================
