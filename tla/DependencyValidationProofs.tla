--------------------- MODULE DependencyValidationProofs ---------------------
(***************************************************************************)
(* Proofs about DependencyValidation, for pitfiles with any number of      *)
(* components: the verdict is right, a cycle that is reported is one.      *)
(***************************************************************************)
EXTENDS DependencyValidation, WellFoundedInduction, TLAPS

-----------------------------------------------------------------------------
(* Sequences used as stacks *)

LEMMA Push ==
    ASSUME NEW S, NEW f \in S, NEW s \in Seq(S)
    PROVE  /\ <<f>> \o s \in Seq(S) /\ Len(<<f>> \o s) = Len(s) + 1
           /\ (<<f>> \o s)[1] = f
           /\ \A i \in 1 .. Len(s) : (<<f>> \o s)[i + 1] = s[i]
OBVIOUS

LEMMA Pop ==
    ASSUME NEW S, NEW s \in Seq(S), s # <<>>
    PROVE  /\ Len(s) \in Nat /\ Len(s) >= 1 /\ Head(s) = s[1] /\ s[1] \in S
           /\ Tail(s) \in Seq(S) /\ Len(Tail(s)) = Len(s) - 1
           /\ \A i \in 1 .. Len(s) - 1 : Tail(s)[i] = s[i + 1]
OBVIOUS

LEMMA OneMoreTaken ==
    ASSUME NEW t \in Nat, NEW u, u = t + 1
    PROVE  t <= u /\ \A k \in 1 .. u : k # u => k \in 1 .. t
OBVIOUS

-----------------------------------------------------------------------------
(* The component that counts for an id *)

LEMMA LastOf ==
    ASSUME NEW N \in Nat, NEW T \in SUBSET (1 .. N), T # {}
    PROVE  \E p \in T : \A q \in T : q <= p
<1>. DEFINE R == OpToRel(<, Nat)
            U == {N - p : p \in T}
<1>1. U \in SUBSET Nat /\ U # {}
  <2>1. \A p \in T : p \in Int /\ p <= N
    OBVIOUS
  <2>2. \A p \in T : N - p \in Nat
    BY <2>1
  <2>. QED  BY <2>2
<1>2. IsWellFoundedOn(R, Nat)
  BY NatLessThanWellFounded
<1>3. PICK x \in U : \A y \in U : ~ (<<y, x>> \in R)
  <2>. HIDE DEF R, U
  <2>. QED  BY <1>1, <1>2, WFMin
<1>4. \A y \in U : ~ (y < x)
  BY <1>1, <1>3 DEF OpToRel
<1>5. PICK p \in T : x = N - p
  OBVIOUS
<1>6. \A q \in T : ~(N - q < N - p)
  BY <1>4, <1>5
<1>. QED  BY <1>6

GraphOK == graph \in Pitfiles

LEMMA GraphShape ==
    ASSUME GraphOK
    PROVE  /\ graph.id \in Seq(Name) /\ graph.dependsOn \in Seq(Seq(Name))
           /\ Positions = 1 .. Len(graph.id) /\ Positions = DOMAIN graph.dependsOn
           /\ Len(graph.id) \in Nat
           /\ \A p \in Positions : /\ graph.id[p] \in Name /\ graph.id[p] \in Declared
                                   /\ graph.dependsOn[p] \in Seq(Name)
           /\ \A n \in Declared : n \in Name /\ \E p \in Positions : graph.id[p] = n
<1>1. /\ graph.id \in Seq(Name) /\ graph.dependsOn \in Seq(Seq(Name))
      /\ Len(graph.id) = Len(graph.dependsOn)
  BY DependencyValidationAssumption DEF GraphOK
<1>. QED  BY <1>1 DEF Positions, Declared, ToSet

LEMMA Counts ==
    ASSUME GraphOK, NEW n \in Declared
    PROVE  /\ DependsOn(n) \in Seq(Name)
           /\ \E p \in Positions : /\ graph.id[p] = n /\ DependsOn(n) = graph.dependsOn[p]
                                   /\ \A q \in Positions : graph.id[q] = n => q <= p
<1>. DEFINE T == {p \in Positions : graph.id[p] = n}
            last(p) == graph.id[p] = n /\ \A q \in Positions : graph.id[q] = n => q <= p
<1>1. T \in SUBSET (1 .. Len(graph.id)) /\ T # {} /\ Len(graph.id) \in Nat
  BY GraphShape
<1>2. \E p \in T : \A q \in T : q <= p
  <2>. HIDE DEF T
  <2>. QED  BY <1>1, LastOf
<1>3. \E p \in Positions : last(p)
  BY <1>2
<1>. DEFINE p == CHOOSE p \in Positions : last(p)
<1>4. p \in Positions /\ last(p)
  BY <1>3
<1>5. DependsOn(n) = graph.dependsOn[p]
  BY DEF DependsOn
<1>. HIDE DEF p
<1>. QED  BY <1>4, <1>5, GraphShape

\* The ids of a list are those at its places.
LEMMA Listed ==
    ASSUME GraphOK, NEW n \in Declared
    PROVE  /\ Len(DependsOn(n)) \in Nat /\ DOMAIN DependsOn(n) = 1 .. Len(DependsOn(n))
           /\ Dependencies(n) \subseteq Name
           /\ \A k \in 1 .. Len(DependsOn(n)) : DependsOn(n)[k] \in Dependencies(n)
           /\ \A d \in Dependencies(n) : \E k \in 1 .. Len(DependsOn(n)) : DependsOn(n)[k] = d
BY Counts DEF Dependencies, ToSet

\* Without duplicates that is the only one.
LEMMA CountsAlone ==
    ASSUME GraphOK, ~Duplicate, NEW p \in Positions
    PROVE  /\ DependsOn(graph.id[p]) = graph.dependsOn[p]
           /\ Dependencies(graph.id[p]) = ToSet(graph.dependsOn[p])
<1>1. graph.id[p] \in Declared
  BY GraphShape
<1>2. PICK q \in Positions : graph.id[q] = graph.id[p] /\ DependsOn(graph.id[p]) = graph.dependsOn[q]
  BY <1>1, Counts
<1>3. q = p
  BY <1>2 DEF Duplicate
<1>. QED  BY <1>2, <1>3 DEF Dependencies

-----------------------------------------------------------------------------
(* The inductive invariant.  While the search goes on: `parent' points     *)
(* along edges and, for the ids on the stack, to the caller; an id that a  *)
(* component has taken is visited, undeclared or being looked at; what is  *)
(* visited is closed under dependencies and has no cycle.  While a cycle   *)
(* is reconstructed there is a way from parent to parent, without          *)
(* repetition, that ends nowhere or where it started, and `path' is the    *)
(* part of it that has been followed.                                      *)

Frames == 1 .. Len(stack)
Visited == {n \in Name : state[n] = "visited"}

StatesOK ==
    \A n \in Name :
        /\ state[n] = "absent" => n \notin Declared
        /\ state[n] \in {"unvisited", "visited"} => n \in Declared
        /\ state[n] = "unvisited" => parent[n] = None

EdgesOK ==
    \A n \in Name : parent[n] # None => parent[n] \in Declared /\ n \in Dependencies(parent[n])

OnStack ==
    /\ \A i \in Frames :
          /\ stack[i].id \in Declared /\ state[stack[i].id] = "visiting"
          /\ stack[i].taken \in 0 .. Len(DependsOn(stack[i].id))
          /\ \A j \in Frames : stack[i].id = stack[j].id => i = j
    /\ \A n \in Declared : state[n] = "visiting" => \E i \in Frames : stack[i].id = n

Callers ==
    \A i \in Frames :
        parent[stack[i].id] = IF i = Len(stack) THEN None ELSE stack[i + 1].id

Taken ==
    \A i \in Frames : \A k \in 1 .. stack[i].taken :
        \/ DependsOn(stack[i].id)[k] \in Visited
        \/ DependsOn(stack[i].id)[k] \notin Declared
        \/ i > 1 /\ DependsOn(stack[i].id)[k] = stack[i - 1].id

VisitedOK ==
    /\ \A n \in Visited : Dependencies(n) \cap Declared \subseteq Visited
    /\ \A S \in SUBSET Visited : S # {} => \E n \in S : Dependencies(n) \cap S = {}

Started == \A p \in Positions : p < next => state[graph.id[p]] # "unvisited"

\* The k-th dependency of component c has been taken already.
Asked(k, c) ==
    /\ k \in 1 .. Len(DependsOn(c))
    /\ c \in Visited \/ \E i \in Frames : stack[i].id = c /\ k <= stack[i].taken

Mentioned ==
    \A n \in Name \ Declared :
        state[n] = "visiting" =>
            \E c \in Declared, k \in Nat : Asked(k, c) /\ DependsOn(c)[k] = n

Searching ==
    phase \in {"ids", "search"} => /\ StatesOK /\ EdgesOK /\ OnStack /\ Callers /\ Taken
                                   /\ VisitedOK /\ Started /\ Mentioned

Trail(m, w) ==
    /\ \A i, j \in 1 .. m : w[i] = w[j] => i = j
    /\ \A i \in 1 .. m - 1 : parent[w[i]] = w[i + 1]
    /\ parent[w[m]] = w[1] \/ (parent[w[m]] = None /\ NamedTwice)
    /\ Len(path) \in 1 .. m /\ \A i \in 1 .. Len(path) : path[i] = w[i]
    /\ current = IF Len(path) < m THEN w[Len(path) + 1] ELSE parent[w[m]]

Backtracking ==
    phase = "path" => EdgesOK /\ \E m \in Nat \ {0} : \E w \in [1 .. m -> Name] : Trail(m, w)

IdErrors ==
    {e \in {"duplicate", "self", "invalid"} : \/ e = "duplicate" /\ Duplicate
                                              \/ e = "self" /\ Self
                                              \/ e = "invalid" /\ Invalid}

ErrorsOK ==
    /\ phase = "ids" => errors = {}
    /\ phase \in {"search", "path"} => errors = IdErrors

DVInv == /\ GraphOK /\ TypeOK /\ ErrorsOK /\ Searching /\ Backtracking
         /\ Verdict /\ CycleIsReal

\* Nothing changes the graph.
LEMMA GraphFrame ==
    ASSUME graph' = graph
    PROVE  /\ Positions' = Positions /\ Declared' = Declared
           /\ \A n : DependsOn(n)' = DependsOn(n) /\ Dependencies(n)' = Dependencies(n)
           /\ GraphOK' <=> GraphOK
           /\ Duplicate' <=> Duplicate
           /\ IdErrors' = IdErrors
           /\ NamedTwice' <=> NamedTwice
BY DEF Positions, Declared, DependsOn, Dependencies, GraphOK, Duplicate, IdErrors, Self, Invalid, NamedTwice

LEMMA InitDV == Init => DVInv
<1>. SUFFICES ASSUME Init PROVE DVInv  OBVIOUS
<1>1. /\ GraphOK /\ phase = "ids" /\ errors = {} /\ next = 1 /\ stack = <<>> /\ path = <<>>
      /\ current = None
      /\ state \in [Name -> {"absent", "unvisited"}]
      /\ \A n \in Name : state[n] = "unvisited" <=> n \in Declared
      /\ parent = [n \in Name |-> None]
  BY DEF Init, GraphOK, Declared
<1>2. TypeOK
  <2>1. 1 \in 1 .. Len(graph.id) + 1
    BY <1>1, GraphShape
  <2>2. stack \in Seq(Frame) /\ path \in Seq(Name)
    BY <1>1
  <2>. QED  BY <1>1, <2>1, <2>2 DEF TypeOK
<1>3. Visited = {} /\ Frames = {}
  BY <1>1 DEF Visited, Frames
<1>4. StatesOK /\ EdgesOK /\ Started
  BY <1>1, GraphShape DEF StatesOK, EdgesOK, Started
<1>5. OnStack /\ Callers /\ Taken
  BY <1>1, <1>3, GraphShape DEF OnStack, Callers, Taken
<1>6. VisitedOK /\ Mentioned
  BY <1>1, <1>3 DEF VisitedOK, Mentioned
<1>7. ErrorsOK /\ Backtracking /\ Verdict /\ CycleIsReal
  BY <1>1 DEF ErrorsOK, Backtracking, Verdict, CycleIsReal
<1>. QED  BY <1>1, <1>2, <1>4, <1>5, <1>6, <1>7 DEF DVInv, Searching

LEMMA CheckIdsStep ==
    ASSUME DVInv, CheckIds
    PROVE  DVInv'
<1>1. /\ phase = "ids" /\ phase' = "search" /\ errors' = IdErrors
      /\ UNCHANGED <<graph, next, stack, state, parent, path, current>>
  BY DEF CheckIds, IdErrors
<1>2. /\ Positions' = Positions /\ Declared' = Declared /\ \A n : DependsOn(n)' = DependsOn(n) /\ Dependencies(n)' = Dependencies(n)
      /\ GraphOK' /\ IdErrors' = IdErrors
  BY <1>1, GraphFrame DEF DVInv
<1>3. TypeOK'
  BY <1>1 DEF DVInv, TypeOK, IdErrors
<1>4. Searching'
  BY <1>1, <1>2 DEF DVInv, Searching, StatesOK, EdgesOK, OnStack, Callers, Taken, VisitedOK,
                    Started, Mentioned, Asked, Frames, Visited
<1>5. ErrorsOK' /\ Backtracking' /\ Verdict' /\ CycleIsReal'
  BY <1>1, <1>2 DEF ErrorsOK, Backtracking, Verdict, CycleIsReal, IdErrors
<1>. QED  BY <1>2, <1>3, <1>4, <1>5 DEF DVInv

\* As long as the search goes on there is nothing to show for the verdict.
LEMMA NoVerdictYet ==
    ASSUME DVInv, phase = "search", phase' = "search",
           UNCHANGED <<graph, errors, path, current>>
    PROVE  GraphOK' /\ ErrorsOK' /\ Backtracking' /\ Verdict' /\ CycleIsReal'
<1>1. errors = IdErrors /\ GraphOK' /\ IdErrors' = IdErrors
  BY GraphFrame DEF DVInv, ErrorsOK
<1>. QED  BY <1>1 DEF ErrorsOK, Backtracking, Verdict, CycleIsReal, IdErrors

\* No call forgets what it has asked for before it has visited its component.
Remembered ==
    /\ Visited \subseteq Visited'
    /\ \A i \in Frames :
          \/ stack[i].id \in Visited'
          \/ \E j \in Frames' : stack'[j].id = stack[i].id /\ stack[i].taken <= stack'[j].taken

LEMMA AskedFrame ==
    ASSUME graph' = graph, Remembered, TypeOK, TypeOK', NEW k, NEW c, Asked(k, c)
    PROVE  Asked(k, c)'
<1>1. DependsOn(c)' = DependsOn(c) /\ k \in 1 .. Len(DependsOn(c))
  BY GraphFrame DEF Asked
<1>2. /\ \A i \in Frames : stack[i].taken \in Nat
      /\ \A j \in Frames' : stack'[j].taken \in Nat
  <2>1. stack \in Seq(Frame) /\ stack' \in Seq(Frame) /\ Frame' = Frame
    BY DEF TypeOK, Frame
  <2>2. (\A i \in Frames : stack[i] \in Frame) /\ (\A j \in Frames' : stack'[j] \in Frame)
    BY <2>1 DEF Frames
  <2>. QED  BY <2>2 DEF Frame
<1>3. CASE c \in Visited
  BY <1>1, <1>3 DEF Asked, Remembered
<1>4. ASSUME NEW i \in Frames, stack[i].id = c, k <= stack[i].taken
      PROVE  Asked(k, c)'
  <2>1. CASE c \in Visited'
    BY <1>1, <2>1 DEF Asked
  <2>2. CASE c \notin Visited'
    <3>1. PICK j \in Frames' : stack'[j].id = stack[i].id /\ stack[i].taken <= stack'[j].taken
      BY <1>4, <2>2 DEF Remembered
    <3>2. k <= stack'[j].taken
      BY <1>1, <1>2, <1>4, <3>1
    <3>. QED  BY <1>1, <1>4, <3>1, <3>2 DEF Asked
  <2>. QED  BY <2>1, <2>2
<1>. QED  BY <1>3, <1>4 DEF Asked

LEMMA MentionedFrame ==
    ASSUME Mentioned, graph' = graph, Remembered, TypeOK, TypeOK',
           \A n \in Name \ Declared :
              state'[n] = "visiting" =>
                 \/ state[n] = "visiting"
                 \/ \E c \in Declared, k \in Nat : Asked(k, c)' /\ DependsOn(c)[k] = n
    PROVE  Mentioned'
<1>1. Declared' = Declared /\ \A n : DependsOn(n)' = DependsOn(n)
  BY GraphFrame
<1>. SUFFICES ASSUME NEW n \in Name \ Declared, state'[n] = "visiting"
              PROVE  \E c \in Declared, k \in Nat : Asked(k, c)' /\ DependsOn(c)[k] = n
  BY <1>1 DEF Mentioned
<1>2. CASE state[n] = "visiting"
  <2>1. PICK c \in Declared, k \in Nat : Asked(k, c) /\ DependsOn(c)[k] = n
    BY <1>2 DEF Mentioned
  <2>2. Asked(k, c)'
    BY <2>1, AskedFrame
  <2>. QED  BY <2>1, <2>2
<1>3. CASE state[n] # "visiting"
  BY <1>3
<1>. QED  BY <1>2, <1>3

\* The next component is visited already, or the search starts from it.
LEMMA NextComponentStep ==
    ASSUME DVInv, NextComponent
    PROVE  DVInv' /\ Remembered /\ next' > next
<1>. DEFINE n == graph.id[next]
            new == [id |-> n, taken |-> 0]
<1>1. /\ phase = "search" /\ phase' = "search" /\ stack = <<>> /\ next <= Len(graph.id)
      /\ next' = next + 1
      /\ UNCHANGED <<graph, errors, parent, path, current>>
  BY DEF NextComponent
<1>2. /\ GraphOK /\ TypeOK /\ StatesOK /\ EdgesOK /\ OnStack /\ Callers /\ Taken
      /\ VisitedOK /\ Started /\ Mentioned
  BY <1>1 DEF DVInv, Searching
<1>3. /\ next \in Positions /\ n \in Declared /\ n \in Name /\ Len(DependsOn(n)) \in Nat
      /\ next' \in 1 .. Len(graph.id) + 1 /\ Len(graph.id) \in Nat
      /\ next \in Nat /\ Positions = 1 .. Len(graph.id)
  <2>1. next \in 1 .. Len(graph.id) + 1 /\ Len(graph.id) \in Nat /\ Positions = 1 .. Len(graph.id)
    BY <1>2, GraphShape DEF TypeOK
  <2>2. next \in Positions /\ next \in Nat /\ next' \in 1 .. Len(graph.id) + 1
    BY <1>1, <2>1
  <2>3. n \in Declared /\ n \in Name
    BY <1>2, <2>2, GraphShape
  <2>. QED  BY <1>2, <2>1, <2>2, <2>3, Listed
<1>4. /\ Positions' = Positions /\ Declared' = Declared /\ \A m : DependsOn(m)' = DependsOn(m) /\ Dependencies(m)' = Dependencies(m)
  BY <1>1, GraphFrame
<1>5. GraphOK' /\ ErrorsOK' /\ Backtracking' /\ Verdict' /\ CycleIsReal'
  BY <1>1, NoVerdictYet
<1>. SUFFICES DVInv' /\ Remembered
  BY <1>1, <1>3
<1>6. CASE state[n] # "unvisited"
  <2>1. UNCHANGED <<state, stack>>
    BY <1>6 DEF NextComponent
  <2>2. TypeOK'
    BY <1>1, <1>2, <1>3, <2>1 DEF TypeOK
  <2>3. Started'
    BY <1>1, <1>2, <1>3, <1>4, <1>6, <2>1 DEF Started
  <2>4. StatesOK' /\ EdgesOK'
    BY <1>1, <1>2, <1>4, <2>1 DEF StatesOK, EdgesOK
  <2>5. OnStack' /\ Callers' /\ Taken'
    BY <1>1, <1>2, <1>4, <2>1 DEF OnStack, Callers, Taken, Frames, Visited
  <2>6. VisitedOK'
    BY <1>1, <1>2, <1>4, <2>1 DEF VisitedOK, Visited
  <2>7. Mentioned'
    BY <1>1, <1>2, <1>4, <2>1 DEF Mentioned, Asked, Frames, Visited
  <2>8. Remembered
    BY <1>1, <2>1 DEF Remembered, Frames, Visited
  <2>. QED  BY <1>1, <1>5, <2>2, <2>3, <2>4, <2>5, <2>6, <2>7, <2>8 DEF DVInv, Searching
<1>7. CASE state[n] = "unvisited"
  <2>1. /\ state' = [state EXCEPT ![n] = "visiting"] /\ stack' = <<new>> \o stack
    BY <1>1, <1>3, <1>7 DEF NextComponent, Visit
  <2>2. new \in Frame /\ stack \in Seq(Frame)
    BY <1>2, <1>3 DEF Frame, TypeOK
  <2>3. /\ stack' \in Seq(Frame) /\ Len(stack') = 1 /\ stack'[1] = new
    <3>1. Len(stack) = 0
      BY <1>1
    <3>. HIDE DEF new
    <3>. QED  BY <2>1, <2>2, <3>1, Push
  <2>4. Frames' = {1} /\ Visited' = Visited
    BY <1>2, <1>7, <2>1, <2>3 DEF Frames, Visited, TypeOK
  <2>5. TypeOK'
    BY <1>1, <1>2, <1>3, <2>1, <2>3 DEF TypeOK
  <2>6. \A m \in Name : state'[m] = IF m = n THEN "visiting" ELSE state[m]
    BY <1>2, <2>1 DEF TypeOK
  <2>7. StatesOK' /\ EdgesOK'
    BY <1>1, <1>2, <1>3, <1>4, <2>6 DEF StatesOK, EdgesOK
  <2>8. Started'
    <3>. SUFFICES ASSUME NEW p \in Positions, p < next'
                  PROVE  state'[graph.id[p]] # "unvisited"
      BY <1>1, <1>4 DEF Started
    <3>1. graph.id[p] \in Name /\ (p < next \/ p = next)
      BY <1>1, <1>2, <1>3, GraphShape
    <3>. QED  BY <1>2, <2>6, <3>1 DEF Started
  <2>9. OnStack'
    <3>1. \A m \in Declared : m \in Name /\ state[m] # "visiting"
      BY <1>1, <1>2, GraphShape DEF OnStack, Frames
    <3>. QED  BY <1>3, <1>4, <2>3, <2>4, <2>6, <3>1 DEF OnStack
  <2>10. Callers'
    BY <1>1, <1>2, <1>3, <1>7, <2>3, <2>4 DEF Callers, StatesOK
  <2>11. Taken'
    BY <1>4, <2>3, <2>4 DEF Taken
  <2>12. VisitedOK'
    BY <1>2, <1>4, <2>4 DEF VisitedOK
  <2>13. Remembered
    BY <1>1, <2>4 DEF Remembered, Frames
  <2>14. Mentioned'
    <3>1. \A m \in Name \ Declared : state'[m] = "visiting" => state[m] = "visiting"
      BY <1>3, <2>6
    <3>. QED  BY <1>1, <1>2, <2>5, <2>13, <3>1, MentionedFrame
  <2>. QED  BY <1>5, <2>5, <2>7, <2>8, <2>9, <2>10, <2>11, <2>12, <2>13, <2>14
            DEF DVInv, Searching
<1>. QED  BY <1>6, <1>7

\* A component is left when all it depends on is visited or undeclared: a group
\* of visited components that it joins keeps one that depends on none of them.
LEMMA LeaveStep ==
    ASSUME DVInv, Leave
    PROVE  DVInv' /\ Remembered /\ \E n \in Declared : n \notin Visited /\ n \in Visited'
<1>. DEFINE n == Head(stack).id
<1>1. /\ phase = "search" /\ phase' = "search"
      /\ stack # <<>> /\ Head(stack).taken = Len(DependsOn(n))
      /\ state' = [state EXCEPT ![n] = "visited"] /\ stack' = Tail(stack)
      /\ UNCHANGED <<graph, errors, next, parent, path, current>>
  BY DEF Leave, AllTaken
<1>2. /\ GraphOK /\ TypeOK /\ StatesOK /\ EdgesOK /\ OnStack /\ Callers /\ Taken
      /\ VisitedOK /\ Started /\ Mentioned
  BY <1>1 DEF DVInv, Searching
<1>3. stack \in Seq(Frame)
  BY <1>2 DEF TypeOK
<1>4. /\ Len(stack) \in Nat /\ Len(stack) >= 1 /\ Head(stack) = stack[1]
      /\ stack' \in Seq(Frame) /\ Len(stack') = Len(stack) - 1
      /\ \A i \in 1 .. Len(stack) - 1 : stack'[i] = stack[i + 1]
  BY <1>1, <1>3, Pop
<1>5. /\ n = stack[1].id /\ n \in Declared /\ n \in Name /\ stack[1].taken = Len(DependsOn(n))
      /\ 1 \in Frames /\ state[n] = "visiting"
  BY <1>1, <1>2, <1>4, GraphShape DEF OnStack, Frames
<1>6. /\ Positions' = Positions /\ Declared' = Declared /\ \A m : DependsOn(m)' = DependsOn(m) /\ Dependencies(m)' = Dependencies(m)
  BY <1>1, GraphFrame
<1>7. GraphOK' /\ ErrorsOK' /\ Backtracking' /\ Verdict' /\ CycleIsReal'
  BY <1>1, NoVerdictYet
<1>8. \A m \in Name : state'[m] = IF m = n THEN "visited" ELSE state[m]
  BY <1>1, <1>2 DEF TypeOK
<1>9. Visited' = Visited \cup {n}
  BY <1>5, <1>8 DEF Visited
<1>10. TypeOK'
  BY <1>1, <1>2, <1>4, <1>5 DEF TypeOK
<1>11. \A i \in Frames' : /\ i \in Nat /\ i + 1 \in Frames /\ stack'[i] = stack[i + 1] /\ i + 1 > 1
                          /\ (i = Len(stack') <=> i + 1 = Len(stack)) /\ i \in Frames
                          /\ (i < Len(stack') => stack'[i + 1] = stack[i + 2])
  BY <1>4 DEF Frames
<1>12. StatesOK' /\ EdgesOK' /\ Started'
  BY <1>1, <1>2, <1>5, <1>6, <1>8, GraphShape DEF StatesOK, EdgesOK, Started
<1>13. OnStack'
  <2>1. \A i \in Frames' : stack'[i].id # n
    BY <1>2, <1>5, <1>11 DEF OnStack
  <2>2. ASSUME NEW i \in Frames'
        PROVE  /\ stack'[i].id \in Declared' /\ state'[stack'[i].id] = "visiting"
               /\ stack'[i].taken \in 0 .. Len(DependsOn(stack'[i].id))
               /\ \A j \in Frames' : stack'[i].id = stack'[j].id => i = j
    <3>1. /\ stack'[i].id \in Declared /\ state[stack'[i].id] = "visiting"
          /\ stack'[i].taken \in 0 .. Len(DependsOn(stack'[i].id))
      <4>1. i + 1 \in Frames /\ stack'[i] = stack[i + 1]
        BY <1>11
      <4>. QED  BY <1>2, <4>1 DEF OnStack
    <3>2. state'[stack'[i].id] = "visiting"
      BY <1>2, <1>8, <2>1, <3>1, GraphShape
    <3>3. \A j \in Frames' : stack'[i].id = stack'[j].id => i = j
      BY <1>2, <1>11 DEF OnStack
    <3>. QED  BY <1>6, <3>1, <3>2, <3>3
  <2>3. ASSUME NEW m \in Declared', state'[m] = "visiting"
        PROVE  \E i \in Frames' : stack'[i].id = m
    <3>1. m \in Declared /\ m # n /\ state[m] = "visiting"
      BY <1>2, <1>6, <1>8, <2>3, GraphShape
    <3>2. PICK i \in Frames : stack[i].id = m
      BY <1>2, <3>1 DEF OnStack
    <3>3. i # 1 /\ i - 1 \in Frames' /\ stack'[i - 1] = stack[i]
      <4>1. i # 1
        BY <1>5, <3>1, <3>2
      <4>. QED  BY <1>4, <4>1 DEF Frames
    <3>. QED  BY <3>2, <3>3
  <2>. QED  BY <1>6, <2>2, <2>3 DEF OnStack
<1>14. Callers'
  <2>. SUFFICES ASSUME NEW i \in Frames'
                PROVE  parent[stack'[i].id] = IF i = Len(stack') THEN None ELSE stack'[i + 1].id
    BY <1>1 DEF Callers
  <2>1. parent[stack[i + 1].id] = IF i + 1 = Len(stack) THEN None ELSE stack[(i + 1) + 1].id
    BY <1>2, <1>11 DEF Callers
  <2>2. (i + 1) + 1 = i + 2 /\ (i # Len(stack') => i < Len(stack'))
    BY <1>4, <1>11 DEF Frames
  <2>. QED  BY <1>11, <2>1, <2>2
<1>15. Taken'
  <2>. SUFFICES ASSUME NEW i \in Frames', NEW k \in 1 .. stack'[i].taken,
                       NEW e, e = DependsOn(stack'[i].id)[k]
                PROVE  e \in Visited' \/ e \notin Declared \/ (i > 1 /\ e = stack'[i - 1].id)
    BY <1>6 DEF Taken
  <2>1. e \in Visited \/ e \notin Declared \/ e = stack[i].id
    BY <1>2, <1>11 DEF Taken
  <2>2. CASE i = 1
    BY <1>5, <1>9, <2>1, <2>2
  <2>3. CASE i # 1
    <3>1. i > 1 /\ stack'[i - 1] = stack[i]
      BY <1>4, <2>3 DEF Frames
    <3>. QED  BY <1>9, <2>1, <3>1
  <2>. QED  BY <2>2, <2>3
<1>16. VisitedOK'
  <2>1. Dependencies(n) \cap Declared \subseteq Visited
    <3>. SUFFICES ASSUME NEW e \in Dependencies(n) \cap Declared PROVE e \in Visited
      OBVIOUS
    <3>1. PICK k \in 1 .. Len(DependsOn(n)) : DependsOn(n)[k] = e
      BY <1>2, <1>5, Listed
    <3>. QED  BY <1>2, <1>5, <3>1 DEF Taken
  <2>2. n \notin Visited /\ Visited \subseteq Declared
    BY <1>2, <1>5 DEF Visited, StatesOK
  <2>3. n \notin Dependencies(n)
    BY <1>5, <2>1, <2>2
  <2>4. \A m \in Visited : Dependencies(m) \cap Declared \subseteq Visited
    BY <1>2 DEF VisitedOK
  <2>5. ASSUME NEW S \in SUBSET (Visited \cup {n}), S # {}
        PROVE  \E m \in S : Dependencies(m) \cap S = {}
    <3>1. CASE S \cap Visited = {}
      BY <2>3, <2>5, <3>1
    <3>2. CASE S \cap Visited # {}
      <4>1. PICK m \in S \cap Visited : Dependencies(m) \cap (S \cap Visited) = {}
        <5>1. S \cap Visited \in SUBSET Visited
          OBVIOUS
        <5>. QED  BY <1>2, <3>2, <5>1 DEF VisitedOK
      <4>2. n \notin Dependencies(m)
        BY <1>5, <2>2, <2>4, <4>1
      <4>. QED  BY <4>1, <4>2
    <3>. QED  BY <3>1, <3>2
  <2>. QED  BY <1>6, <1>9, <2>1, <2>4, <2>5 DEF VisitedOK
<1>17. Remembered
  <2>1. ASSUME NEW i \in Frames
        PROVE  \/ stack[i].id \in Visited'
               \/ \E j \in Frames' : /\ stack'[j].id = stack[i].id
                                     /\ stack[i].taken <= stack'[j].taken
    <3>1. CASE i = 1
      BY <1>5, <1>9, <3>1
    <3>2. CASE i # 1
      <4>1. i - 1 \in 1 .. Len(stack) - 1 /\ (i - 1) + 1 = i
        BY <1>4, <3>2 DEF Frames
      <4>2. i - 1 \in Frames' /\ stack'[i - 1] = stack[(i - 1) + 1]
        BY <1>4, <4>1 DEF Frames
      <4>3. stack[i].taken \in Nat
        BY <1>2 DEF OnStack
      <4>. QED  BY <4>1, <4>2, <4>3
    <3>. QED  BY <3>1, <3>2
  <2>. QED  BY <1>9, <2>1 DEF Remembered
<1>18. Mentioned'
  <2>1. \A m \in Name \ Declared : state'[m] = "visiting" => state[m] = "visiting"
    BY <1>5, <1>8
  <2>. QED  BY <1>1, <1>2, <1>10, <1>17, <2>1, MentionedFrame
<1>19. \E m \in Declared : m \notin Visited /\ m \in Visited'
  BY <1>5, <1>9 DEF Visited
<1>. QED  BY <1>7, <1>10, <1>12, <1>13, <1>14, <1>15, <1>16, <1>17, <1>18, <1>19
          DEF DVInv, Searching

\* The stack after the innermost call has taken one more dependency.
After == <<[Head(stack) EXCEPT !.taken = @ + 1]>> \o Tail(stack)

LEMMA NewTop ==
    ASSUME NEW S, NEW f \in S, NEW s \in Seq(S), s # <<>>
    PROVE  /\ <<f>> \o Tail(s) \in Seq(S) /\ Len(<<f>> \o Tail(s)) = Len(s)
           /\ (<<f>> \o Tail(s))[1] = f
           /\ \A i \in 1 .. Len(s) : i > 1 => (<<f>> \o Tail(s))[i] = s[i]
OBVIOUS

LEMMA TakeOne ==
    ASSUME TypeOK, stack # <<>>
    PROVE  /\ After \in Seq(Frame) /\ Len(After) = Len(stack) /\ Len(stack) \in Nat
           /\ Head(stack) = stack[1] /\ 1 \in Frames /\ stack[1].taken \in Nat
           /\ After[1].id = stack[1].id /\ After[1].taken = stack[1].taken + 1
           /\ \A i \in Frames : i > 1 => After[i] = stack[i]
<1>. DEFINE c == [Head(stack) EXCEPT !.taken = @ + 1]
<1>1. stack \in Seq(Frame)
  BY DEF TypeOK
<1>2. Len(stack) \in Nat /\ Len(stack) >= 1 /\ Head(stack) = stack[1] /\ stack[1] \in Frame
  BY <1>1, Pop
<1>3. /\ c \in Frame /\ c.id = stack[1].id /\ c.taken = stack[1].taken + 1
      /\ stack[1].taken \in Nat
  BY <1>2 DEF Frame
<1>4. After = <<c>> \o Tail(stack)
  BY DEF After
<1>. HIDE DEF c
<1>5. /\ <<c>> \o Tail(stack) \in Seq(Frame) /\ Len(<<c>> \o Tail(stack)) = Len(stack)
      /\ (<<c>> \o Tail(stack))[1] = c
      /\ \A i \in 1 .. Len(stack) : i > 1 => (<<c>> \o Tail(stack))[i] = stack[i]
  BY <1>1, <1>3, NewTop
<1>. QED  BY <1>2, <1>3, <1>4, <1>5 DEF Frames

\* What every outcome of a dependency has in common.
LEMMA TakenEdge ==
    ASSUME DVInv, NEW d \in Name, Dependency(d)
    PROVE  /\ phase = "search" /\ stack # <<>> /\ UNCHANGED <<graph, errors, next>>
           /\ GraphOK /\ TypeOK /\ StatesOK /\ EdgesOK /\ OnStack /\ Callers /\ Taken
           /\ VisitedOK /\ Started /\ Mentioned
           /\ 1 \in Frames /\ stack[1].id \in Declared /\ stack[1].id \in Name
           /\ Head(stack) = stack[1]
           /\ stack[1].taken + 1 \in 1 .. Len(DependsOn(stack[1].id))
           /\ d = DependsOn(stack[1].id)[stack[1].taken + 1] /\ d \in Dependencies(stack[1].id)
           /\ \A n \in Name : parent'[n] = IF n = d THEN stack[1].id ELSE parent[n]
           /\ parent' \in [Name -> Name \cup {None}]
           /\ Positions' = Positions /\ Declared' = Declared
           /\ \A m : DependsOn(m)' = DependsOn(m) /\ Dependencies(m)' = Dependencies(m)
           /\ GraphOK' /\ IdErrors' = IdErrors /\ errors = IdErrors
           /\ EdgesOK'
<1>1. /\ phase = "search" /\ stack # <<>> /\ UNCHANGED <<graph, errors, next>>
      /\ Head(stack).taken < Len(DependsOn(Head(stack).id))
      /\ d = DependsOn(Head(stack).id)[Head(stack).taken + 1]
      /\ parent' = [parent EXCEPT ![d] = Head(stack).id]
  BY DEF Dependency, IsNext
<1>2. /\ GraphOK /\ TypeOK /\ StatesOK /\ EdgesOK /\ OnStack /\ Callers /\ Taken
      /\ VisitedOK /\ Started /\ Mentioned /\ errors = IdErrors
  BY <1>1 DEF DVInv, Searching, ErrorsOK
<1>3. Head(stack) = stack[1] /\ 1 \in Frames
  BY <1>1, <1>2, TakeOne
<1>4. /\ stack[1].id \in Declared /\ stack[1].id \in Name
      /\ stack[1].taken + 1 \in 1 .. Len(DependsOn(stack[1].id))
      /\ d \in Dependencies(stack[1].id)
  <2>1. /\ stack[1].id \in Declared /\ stack[1].id \in Name
        /\ stack[1].taken \in 0 .. Len(DependsOn(stack[1].id))
    BY <1>2, <1>3, GraphShape DEF OnStack
  <2>2. Len(DependsOn(stack[1].id)) \in Nat
    BY <1>2, <2>1, Listed
  <2>3. stack[1].taken + 1 \in 1 .. Len(DependsOn(stack[1].id))
    BY <1>1, <1>3, <2>1, <2>2
  <2>. QED  BY <1>1, <1>2, <1>3, <2>1, <2>3, Listed
<1>5. /\ \A n \in Name : parent'[n] = IF n = d THEN stack[1].id ELSE parent[n]
      /\ parent' \in [Name -> Name \cup {None}]
  BY <1>1, <1>2, <1>3, <1>4 DEF TypeOK
<1>6. /\ Positions' = Positions /\ Declared' = Declared /\ \A m : DependsOn(m)' = DependsOn(m) /\ Dependencies(m)' = Dependencies(m)
      /\ GraphOK' /\ IdErrors' = IdErrors
  BY <1>1, <1>2, GraphFrame
<1>7. EdgesOK'
  BY <1>2, <1>4, <1>5, <1>6 DEF EdgesOK
<1>. QED  BY <1>1, <1>2, <1>3, <1>4, <1>5, <1>6, <1>7

\* The dependency is visited, or no component: the search goes on where it is.
LEMMA PassDependencyStep ==
    ASSUME DVInv, NEW d \in Name, Dependency(d),
           phase' = "search", UNCHANGED <<path, current>>,
           stack' = After,
           \/ state[d] = "visited" /\ state' = state
           \/ /\ d \notin Declared /\ state[d] \in {"absent", "unvisited"}
              /\ state' = [state EXCEPT ![d] = "visiting"]
    PROVE  DVInv' /\ Remembered /\ \A c, k : c = stack[1].id /\ k = stack[1].taken + 1 => Asked(k, c)'
<1>1. /\ phase = "search" /\ stack # <<>> /\ UNCHANGED <<graph, errors, next>>
      /\ GraphOK /\ TypeOK /\ StatesOK /\ EdgesOK /\ OnStack /\ Callers /\ Taken
      /\ VisitedOK /\ Started /\ Mentioned
      /\ stack[1].taken + 1 \in 1 .. Len(DependsOn(stack[1].id))
      /\ d = DependsOn(stack[1].id)[stack[1].taken + 1]
      /\ \A n \in Name : parent'[n] = IF n = d THEN stack[1].id ELSE parent[n]
      /\ parent' \in [Name -> Name \cup {None}]
      /\ Positions' = Positions /\ Declared' = Declared
      /\ \A m : DependsOn(m)' = DependsOn(m) /\ Dependencies(m)' = Dependencies(m)
      /\ EdgesOK'
  BY TakenEdge
<1>2. /\ stack' \in Seq(Frame) /\ Len(stack') = Len(stack) /\ Len(stack) \in Nat
      /\ 1 \in Frames /\ stack[1].taken \in Nat
      /\ stack'[1].id = stack[1].id /\ stack'[1].taken = stack[1].taken + 1
      /\ \A i \in Frames : i > 1 => stack'[i] = stack[i]
  BY <1>1, TakeOne
<1>3. /\ Frames' = Frames
      /\ \A i \in Frames : /\ i \in Nat /\ stack'[i].id = stack[i].id
                           /\ stack[i].taken \in Nat /\ stack[i].taken <= stack'[i].taken
                           /\ i > 1 => stack'[i].taken = stack[i].taken
  <2>1. \A i \in Frames : stack[i].taken \in Nat
    <3>1. \A i \in Frames : /\ stack[i].id \in Declared
                            /\ stack[i].taken \in 0 .. Len(DependsOn(stack[i].id))
      BY <1>1 DEF OnStack
    <3>. QED  BY <3>1
  <2>2. ASSUME NEW i \in Frames
        PROVE  /\ i \in Nat /\ stack'[i].id = stack[i].id
               /\ stack[i].taken <= stack'[i].taken
               /\ i > 1 => stack'[i].taken = stack[i].taken
    <3>1. i \in Nat /\ (i = 1 \/ i > 1)
      BY <1>2 DEF Frames
    <3>. QED  BY <1>2, <2>1, <3>1
  <2>. QED  BY <1>2, <2>1, <2>2 DEF Frames
<1>4. \A n \in Name : n # d => state'[n] = state[n]
  BY <1>1 DEF TypeOK
<1>5. /\ state[d] # "visiting" /\ (d \in Declared => d \in Visited /\ state'[d] = state[d])
      /\ (d \notin Declared => state'[d] = "visiting")
  BY <1>1 DEF TypeOK, Visited, StatesOK
<1>6. Visited' = Visited
  BY <1>1, <1>4, <1>5 DEF Visited, TypeOK
<1>7. TypeOK'
  <2>1. state' \in [Name -> {"absent", "unvisited", "visiting", "visited"}]
    BY <1>1 DEF TypeOK
  <2>. QED  BY <1>1, <1>2, <2>1 DEF TypeOK
<1>8. StatesOK'
  BY <1>1, <1>4, <1>5 DEF StatesOK, Visited
<1>9. OnStack'
  <2>1. \A i \in Frames : stack[i].id \in Name /\ stack[i].id # d
    BY <1>1, <1>5, GraphShape DEF OnStack
  <2>2. ASSUME NEW i \in Frames
        PROVE  /\ stack'[i].id \in Declared /\ state'[stack'[i].id] = "visiting"
               /\ stack'[i].taken \in 0 .. Len(DependsOn(stack'[i].id))
               /\ \A j \in Frames : stack'[i].id = stack'[j].id => i = j
    <3>1. /\ stack[i].id \in Declared /\ state[stack[i].id] = "visiting"
          /\ stack[i].taken \in 0 .. Len(DependsOn(stack[i].id))
      BY <1>1 DEF OnStack
    <3>0. stack'[i].taken \in 0 .. Len(DependsOn(stack[i].id))
      <4>1. CASE i = 1
        BY <1>1, <1>2, <4>1
      <4>2. CASE i # 1
        BY <1>3, <3>1, <4>2 DEF Frames
      <4>. QED  BY <4>1, <4>2
    <3>2. \A j \in Frames : stack'[i].id = stack'[j].id => i = j
      <4>1. \A j \in Frames : stack[i].id = stack[j].id => i = j
        BY <1>1 DEF OnStack
      <4>. QED  BY <1>3, <4>1
    <3>. QED  BY <1>3, <1>4, <2>1, <3>0, <3>1, <3>2
  <2>3. \A n \in Declared : n \in Name /\ (state'[n] = "visiting" => state[n] = "visiting")
    BY <1>1, <1>4, <1>5, GraphShape
  <2>4. ASSUME NEW n \in Declared, state'[n] = "visiting"
        PROVE  \E i \in Frames : stack'[i].id = n
    <3>1. PICK i \in Frames : stack[i].id = n
      BY <1>1, <2>3, <2>4 DEF OnStack
    <3>. QED  BY <1>3, <3>1
  <2>. QED  BY <1>1, <1>3, <2>2, <2>4 DEF OnStack
<1>10. Callers'
  <2>1. \A i \in Frames : stack[i].id \in Name /\ stack[i].id # d
    BY <1>1, <1>5, GraphShape DEF OnStack
  <2>2. \A i \in Frames : i # Len(stack) => i + 1 \in Frames
    BY <1>2 DEF Frames
  <2>3. ASSUME NEW i \in Frames
        PROVE  parent'[stack'[i].id] = IF i = Len(stack') THEN None ELSE stack'[i + 1].id
    <3>1. parent'[stack'[i].id] = parent[stack[i].id]
      BY <1>1, <1>3, <2>1
    <3>2. parent[stack[i].id] = IF i = Len(stack) THEN None ELSE stack[i + 1].id
      BY <1>1 DEF Callers
    <3>. QED  BY <1>2, <1>3, <2>2, <3>1, <3>2
  <2>. QED  BY <1>3, <2>3 DEF Callers
<1>11. Taken'
  <2>. SUFFICES ASSUME NEW i \in Frames, NEW k \in 1 .. stack'[i].taken,
                       NEW e, e = DependsOn(stack[i].id)[k]
                PROVE  e \in Visited \/ e \notin Declared \/ (i > 1 /\ e = stack'[i - 1].id)
    BY SMTT(30), <1>1, <1>3, <1>6 DEF Taken
  <2>1. CASE i = 1 /\ k = stack[1].taken + 1
    BY <1>1, <1>5, <2>1
  <2>2. CASE ~(i = 1 /\ k = stack[1].taken + 1)
    <3>1. k \in 1 .. stack[i].taken
      <4>1. CASE i = 1
        BY <1>2, <2>2, <4>1
      <4>2. CASE i # 1
        BY <1>3, <4>2 DEF Frames
      <4>. QED  BY <4>1, <4>2
    <3>2. e \in Visited \/ e \notin Declared \/ (i > 1 /\ e = stack[i - 1].id)
      BY <1>1, <3>1 DEF Taken
    <3>3. i > 1 => i - 1 \in Frames
      BY <1>2 DEF Frames
    <3>. QED  BY <1>3, <3>2, <3>3
  <2>. QED  BY <2>1, <2>2
<1>12. VisitedOK'
  BY <1>1, <1>6 DEF VisitedOK
<1>13. Started'
  <2>1. \A p \in Positions : graph.id[p] \in Name /\ graph.id[p] \in Declared
    BY <1>1, GraphShape
  <2>. QED  BY <1>1, <1>4, <1>5, <2>1 DEF Started
<1>14. GraphOK' /\ ErrorsOK' /\ Backtracking' /\ Verdict' /\ CycleIsReal'
  BY <1>1, NoVerdictYet
<1>15. Remembered
  BY <1>3, <1>6 DEF Remembered
<1>16. \A c, k : c = stack[1].id /\ k = stack[1].taken + 1 => Asked(k, c)'
  <2>. SUFFICES ASSUME NEW c, NEW k, c = stack[1].id, k = stack[1].taken + 1
                PROVE  Asked(k, c)'
    OBVIOUS
  <2>1. k \in 1 .. Len(DependsOn(c)') /\ k <= stack'[1].taken
    BY <1>1, <1>2
  <2>. QED  BY <1>2, <1>3, <2>1 DEF Asked
<1>17. Mentioned'
  <2>1. stack[1].id \in Declared /\ stack[1].taken + 1 \in Nat
    BY <1>2, TakenEdge
  <2>2. \E c \in Declared, k \in Nat : Asked(k, c)' /\ DependsOn(c)[k] = d
    BY <1>1, <1>16, <2>1
  <2>3. \A n \in Name \ Declared : n # d => state'[n] = state[n]
    BY <1>4
  <2>. QED  BY <1>1, <1>7, <1>15, <2>2, <2>3, MentionedFrame
<1>. QED  BY <1>1, <1>7, <1>8, <1>9, <1>10, <1>11, <1>12, <1>13, <1>14, <1>15, <1>16, <1>17
          DEF DVInv, Searching

\* The dependency is a component nobody has visited: its search begins.
LEMMA VisitDependencyStep ==
    ASSUME DVInv, NEW d \in Name, Dependency(d),
           phase' = "search", UNCHANGED <<path, current>>,
           d \in Declared, state[d] \in {"absent", "unvisited"},
           state' = [state EXCEPT ![d] = "visiting"],
           stack' = <<[id |-> d, taken |-> 0]>> \o After
    PROVE  DVInv' /\ Remembered /\ \A c, k : c = stack[1].id /\ k = stack[1].taken + 1 => Asked(k, c)'
<1>. DEFINE new == [id |-> d, taken |-> 0]
            C == After
<1>1. /\ phase = "search" /\ stack # <<>> /\ UNCHANGED <<graph, errors, next>>
      /\ GraphOK /\ TypeOK /\ StatesOK /\ EdgesOK /\ OnStack /\ Callers /\ Taken
      /\ VisitedOK /\ Started /\ Mentioned
      /\ stack[1].taken + 1 \in 1 .. Len(DependsOn(stack[1].id))
      /\ d = DependsOn(stack[1].id)[stack[1].taken + 1]
      /\ \A n \in Name : parent'[n] = IF n = d THEN stack[1].id ELSE parent[n]
      /\ parent' \in [Name -> Name \cup {None}]
      /\ Positions' = Positions /\ Declared' = Declared
      /\ \A m : DependsOn(m)' = DependsOn(m) /\ Dependencies(m)' = Dependencies(m)
      /\ EdgesOK'
  BY TakenEdge
<1>2. /\ C \in Seq(Frame) /\ Len(C) = Len(stack) /\ Len(stack) \in Nat /\ 1 \in Frames
      /\ C[1].id = stack[1].id /\ C[1].taken = stack[1].taken + 1 /\ stack[1].taken \in Nat
      /\ \A i \in Frames : i > 1 => C[i] = stack[i]
  BY <1>1, TakeOne
<1>3. new \in Frame
  BY <1>1 DEF Frame
<1>4. /\ stack' \in Seq(Frame) /\ Len(stack') = Len(stack) + 1 /\ stack'[1] = new
      /\ \A i \in 1 .. Len(stack) : stack'[i + 1] = C[i]
  <2>1. stack' = <<new>> \o C
    OBVIOUS
  <2>2. C \in Seq(Frame) /\ Len(C) = Len(stack)
    BY <1>2
  <2>. HIDE DEF new, C
  <2>3. /\ <<new>> \o C \in Seq(Frame) /\ Len(<<new>> \o C) = Len(C) + 1
        /\ (<<new>> \o C)[1] = new
        /\ \A i \in 1 .. Len(C) : (<<new>> \o C)[i + 1] = C[i]
    BY <1>3, <2>2, Push
  <2>. QED  BY <2>1, <2>2, <2>3
<1>5. \A i \in Frames' : /\ i \in Nat /\ i >= 1
                         /\ i # 1 => /\ i - 1 \in Frames /\ stack'[i] = C[i - 1]
                                     /\ stack'[i].id = stack[i - 1].id
                                     /\ i > 2 => stack'[i].taken = stack[i - 1].taken
  <2>. SUFFICES ASSUME NEW i \in Frames', i # 1
                PROVE  /\ i - 1 \in Frames /\ stack'[i] = C[i - 1]
                       /\ stack'[i].id = stack[i - 1].id
                       /\ i > 2 => stack'[i].taken = stack[i - 1].taken
    BY <1>4 DEF Frames
  <2>1. i - 1 \in 1 .. Len(stack) /\ (i - 1) + 1 = i /\ i \in Nat
    BY <1>2, <1>4 DEF Frames
  <2>2. stack'[(i - 1) + 1] = C[i - 1]
    BY <1>4, <2>1
  <2>3. stack'[i] = C[i - 1] /\ i - 1 \in Frames
    BY <2>1, <2>2 DEF Frames
  <2>4. i - 1 = 1 \/ i - 1 > 1
    BY <2>1
  <2>5. C[i - 1].id = stack[i - 1].id
    <3>. HIDE DEF C
    <3>. QED  BY <1>2, <2>3, <2>4
  <2>6. ASSUME i > 2
        PROVE  C[i - 1] = stack[i - 1]
    <3>1. i - 1 > 1
      BY <2>1, <2>6
    <3>. HIDE DEF C
    <3>. QED  BY <1>2, <2>3, <3>1
  <2>. QED  BY <2>3, <2>5, <2>6
<1>6. Frames' = 1 .. Len(stack) + 1 /\ 1 \in Frames'
  BY <1>2, <1>4 DEF Frames
<1>7. state[d] = "unvisited" /\ parent[d] = None
  BY <1>1 DEF StatesOK
<1>8. \A n \in Name : state'[n] = IF n = d THEN "visiting" ELSE state[n]
  BY <1>1 DEF TypeOK
<1>9. Visited' = Visited
  BY <1>7, <1>8 DEF Visited
<1>10. TypeOK'
  <2>1. state' \in [Name -> {"absent", "unvisited", "visiting", "visited"}]
    BY <1>1 DEF TypeOK
  <2>. QED  BY <1>1, <1>4, <2>1 DEF TypeOK
<1>11. StatesOK'
  BY SMTT(30), <1>1, <1>8 DEF StatesOK
<1>12. \A i \in Frames : /\ stack[i].id \in Name /\ stack[i].id # d /\ stack[i].id \in Declared
                         /\ state[stack[i].id] = "visiting"
                         /\ stack[i].taken \in 0 .. Len(DependsOn(stack[i].id))
  BY <1>1, <1>7, GraphShape DEF OnStack
<1>22. /\ Len(DependsOn(d)) \in Nat /\ 0 \in 0 .. Len(DependsOn(d))
       /\ stack'[1].id = d /\ stack'[1].taken = 0
  BY <1>1, <1>4, Listed
<1>13. OnStack'
  <2>1. ASSUME NEW i \in Frames'
        PROVE  /\ stack'[i].id \in Declared /\ state'[stack'[i].id] = "visiting"
               /\ stack'[i].taken \in 0 .. Len(DependsOn(stack'[i].id))
    <3>1. CASE i = 1
      BY <1>8, <1>22, <3>1
    <3>2. CASE i # 1
      <4>1. /\ i - 1 \in Frames /\ stack'[i].id = stack[i - 1].id
            /\ i > 2 => stack'[i].taken = stack[i - 1].taken
            /\ stack'[i] = C[i - 1] /\ i \in Nat /\ i >= 1
        BY <1>5, <3>2
      <4>2. stack'[i].taken \in 0 .. Len(DependsOn(stack[i - 1].id))
        <5>1. CASE i = 2
          <6>1. i - 1 = 1
            BY <5>1
          <6>. HIDE DEF C
          <6>2. stack'[i].taken = stack[1].taken + 1
            BY <1>2, <4>1, <6>1
          <6>3. stack[1].taken + 1 \in 0 .. Len(DependsOn(stack[1].id))
            BY <1>1, <1>2
          <6>. QED  BY <6>1, <6>2, <6>3
        <5>2. CASE i # 2
          <6>1. i > 2
            BY <3>2, <4>1, <5>2
          <6>. QED  BY <1>12, <4>1, <6>1
        <5>. QED  BY <5>1, <5>2
      <4>. QED  BY <1>8, <1>12, <4>1, <4>2
    <3>. QED  BY <3>1, <3>2
  <2>2. ASSUME NEW i \in Frames', NEW j \in Frames', stack'[i].id = stack'[j].id
        PROVE  i = j
    <3>1. CASE i = 1 /\ j # 1
      <4>1. stack'[i].id = d
        BY <1>4, <3>1
      <4>2. j - 1 \in Frames /\ stack'[j].id = stack[j - 1].id
        BY <1>5, <3>1
      <4>. QED  BY <1>12, <2>2, <4>1, <4>2
    <3>2. CASE i # 1 /\ j = 1
      <4>1. stack'[j].id = d
        BY <1>4, <3>2
      <4>2. i - 1 \in Frames /\ stack'[i].id = stack[i - 1].id
        BY <1>5, <3>2
      <4>. QED  BY <1>12, <2>2, <4>1, <4>2
    <3>3. CASE i # 1 /\ j # 1
      <4>1. /\ i - 1 \in Frames /\ stack'[i].id = stack[i - 1].id /\ i \in Nat
            /\ j - 1 \in Frames /\ stack'[j].id = stack[j - 1].id /\ j \in Nat
        BY <1>5, <3>3
      <4>2. stack[i - 1].id = stack[j - 1].id
        BY <2>2, <4>1
      <4>3. \A a, b \in Frames : stack[a].id = stack[b].id => a = b
        BY <1>1 DEF OnStack
      <4>4. i - 1 = j - 1
        BY <4>1, <4>2, <4>3
      <4>. QED  BY <4>1, <4>4
    <3>. QED  BY <3>1, <3>2, <3>3
  <2>3. ASSUME NEW n \in Declared, state'[n] = "visiting"
        PROVE  \E i \in Frames' : stack'[i].id = n
    <3>1. CASE n = d
      BY <1>4, <1>6, <3>1
    <3>2. CASE n # d
      <4>1. PICK i \in Frames : stack[i].id = n
        BY <1>1, <1>8, <2>3, <3>2, GraphShape DEF OnStack
      <4>2. i + 1 \in Frames' /\ i + 1 # 1 /\ (i + 1) - 1 = i
        BY <1>2, <1>6 DEF Frames
      <4>3. stack'[i + 1].id = stack[(i + 1) - 1].id
        BY <1>5, <4>2
      <4>. QED  BY <4>1, <4>2, <4>3
    <3>. QED  BY <3>1, <3>2
  <2>. QED  BY <1>1, <2>1, <2>2, <2>3 DEF OnStack
<1>14. Callers'
  <2>. SUFFICES ASSUME NEW i \in Frames'
                PROVE  parent'[stack'[i].id] = IF i = Len(stack') THEN None ELSE stack'[i + 1].id
    BY DEF Callers
  <2>1. CASE i = 1
    <3>1. 1 # Len(stack') /\ 2 \in Frames' /\ 2 - 1 = 1
      BY <1>2, <1>4, <1>6 DEF Frames
    <3>2. stack'[2].id = stack[2 - 1].id
      BY <1>5, <3>1
    <3>. QED  BY <1>1, <1>4, <2>1, <3>1, <3>2
  <2>2. CASE i # 1
    <3>1. i - 1 \in Frames /\ stack'[i].id = stack[i - 1].id
      BY <1>5, <2>2
    <3>2. parent'[stack'[i].id] = parent[stack[i - 1].id]
      BY <1>1, <1>12, <3>1
    <3>3. parent[stack[i - 1].id] = IF i - 1 = Len(stack) THEN None ELSE stack[(i - 1) + 1].id
      BY <1>1, <3>1 DEF Callers
    <3>4. /\ i - 1 = Len(stack) <=> i = Len(stack')
          /\ (i - 1) + 1 = i
          /\ i # Len(stack') => i + 1 \in Frames' /\ i + 1 # 1 /\ (i + 1) - 1 = i
      <4>1. /\ i \in Nat /\ i >= 1 /\ i <= Len(stack') /\ Frames' = 1 .. Len(stack')
            /\ Len(stack) \in Nat /\ Len(stack') = Len(stack) + 1
        BY <1>2, <1>4, <1>6 DEF Frames
      <4>2. \A m \in Nat : Len(stack) = m => Len(stack') = m + 1
        BY <4>1
      <4>. QED  BY <2>2, <4>1, <4>2
    <3>5. i # Len(stack') => stack'[i + 1].id = stack[(i + 1) - 1].id
      BY <1>5, <3>4
    <3>. QED  BY <3>2, <3>3, <3>4, <3>5
  <2>. QED  BY <2>1, <2>2
<1>15. Taken'
  <2>. SUFFICES ASSUME NEW i \in Frames', NEW k \in 1 .. stack'[i].taken
                PROVE  \/ DependsOn(stack'[i].id)[k] \in Visited
                       \/ DependsOn(stack'[i].id)[k] \notin Declared
                       \/ i > 1 /\ DependsOn(stack'[i].id)[k] = stack'[i - 1].id
    <3>. HIDE DEF new, C
    <3>. QED  BY <1>1, <1>9, Zenon DEF Taken
  <2>. DEFINE e == DependsOn(stack'[i].id)[k]
  <2>1. i # 1
    BY <1>22
  <2>2. /\ i - 1 \in Frames /\ stack'[i].id = stack[i - 1].id /\ stack'[i] = C[i - 1]
        /\ i \in Nat /\ i > 1
        /\ i > 2 => stack'[i].taken = stack[i - 1].taken
    <3>. HIDE DEF new, C
    <3>1. i >= 1 /\ i \in Nat
      BY <1>5
    <3>2. i > 1
      BY <2>1, <3>1
    <3>. QED  BY <1>5, <2>1, <3>1, <3>2
  <2>3. CASE i = 2
    <3>1. i - 1 = 1 /\ stack'[i].taken = stack[1].taken + 1
      <4>1. i - 1 = 1
        BY <2>3
      <4>. HIDE DEF C
      <4>. QED  BY <1>2, <2>2, <4>1
    <3>2. CASE k = stack[1].taken + 1
      BY <1>1, <1>22, <2>2, <3>1, <3>2
    <3>3. CASE k # stack[1].taken + 1
      <4>1. k \in 1 .. stack[1].taken
        BY <1>2, <3>1, <3>3, OneMoreTaken
      <4>2. e = DependsOn(stack[1].id)[k]
        BY <2>2, <3>1
      <4>3. DependsOn(stack[1].id)[k] \in Visited \/ DependsOn(stack[1].id)[k] \notin Declared
        BY <1>1, <1>2, <4>1 DEF Taken
      <4>. QED  BY <4>2, <4>3, Zenon
    <3>. QED  BY <3>2, <3>3
  <2>4. CASE i # 2
    <3>1. i > 2 /\ i - 1 \in Frames' /\ i - 1 # 1
      BY <1>2, <1>6, <2>2, <2>4 DEF Frames
    <3>2. k \in 1 .. stack[i - 1].taken /\ e = DependsOn(stack[i - 1].id)[k]
      BY <2>2, <3>1
    <3>3. stack'[i - 1].id = stack[(i - 1) - 1].id
      BY <1>5, <3>1
    <3>. QED  BY <1>1, <2>2, <3>2, <3>3 DEF Taken
  <2>. QED  BY <2>3, <2>4
<1>16. VisitedOK'
  BY <1>1, <1>9 DEF VisitedOK
<1>17. Started'
  BY <1>1, <1>8, GraphShape DEF Started
<1>18. GraphOK' /\ ErrorsOK' /\ Backtracking' /\ Verdict' /\ CycleIsReal'
  BY <1>1, NoVerdictYet
<1>19. Remembered
  <2>1. ASSUME NEW i \in Frames
        PROVE  \E j \in Frames' : stack'[j].id = stack[i].id /\ stack[i].taken <= stack'[j].taken
    <3>1. i + 1 \in Frames' /\ i + 1 # 1 /\ (i + 1) - 1 = i /\ (i + 1 > 2 \/ i = 1)
      BY <1>2, <1>6 DEF Frames
    <3>2. /\ stack'[i + 1] = C[(i + 1) - 1] /\ stack'[i + 1].id = stack[(i + 1) - 1].id
          /\ i + 1 > 2 => stack'[i + 1].taken = stack[(i + 1) - 1].taken
      BY <1>5, <3>1
    <3>3. stack[i].taken <= stack'[i + 1].taken
      <4>1. CASE i = 1
        <5>1. stack'[i + 1] = C[1]
          BY <3>1, <3>2, <4>1
        <5>2. stack[i].taken = stack[1].taken /\ C[1].taken = stack[1].taken + 1
          <6>. HIDE DEF C
          <6>. QED  BY <1>2, <4>1
        <5>3. stack'[i + 1].taken = stack[i].taken + 1 /\ stack[i].taken \in Nat
          BY <1>2, <5>1, <5>2, Zenon
        <5>. QED  BY <5>3, OneMoreTaken
      <4>2. CASE i # 1
        <5>1. stack[i].taken \in 0 .. Len(DependsOn(stack[i].id))
          BY <1>12
        <5>2. stack'[i + 1].taken = stack[i].taken
          BY <3>1, <3>2, <4>2
        <5>3. stack[i].taken <= stack[i].taken
          BY <5>1
        <5>. QED  BY <5>2, <5>3, Zenon
      <4>. QED  BY <4>1, <4>2
    <3>. QED  BY <3>1, <3>2, <3>3
  <2>. QED  BY <1>9, <2>1 DEF Remembered
<1>20. \A c, k : c = stack[1].id /\ k = stack[1].taken + 1 => Asked(k, c)'
  <2>1. 2 \in Frames' /\ 2 # 1 /\ 2 - 1 = 1
    BY <1>2, <1>6 DEF Frames
  <2>2. stack'[2] = C[2 - 1] /\ stack'[2].id = stack[2 - 1].id
    BY <1>5, <2>1
  <2>3. stack'[2].id = stack[1].id /\ stack'[2].taken = stack[1].taken + 1
    <3>. HIDE DEF C
    <3>. QED  BY <1>2, <2>1, <2>2
  <2>. SUFFICES ASSUME NEW c, NEW k, c = stack[1].id, k = stack[1].taken + 1
                PROVE  Asked(k, c)'
    OBVIOUS
  <2>4. k \in 1 .. Len(DependsOn(c)') /\ k <= stack'[2].taken
    BY <1>1, <1>2, <2>3
  <2>. QED  BY <2>1, <2>3, <2>4 DEF Asked
<1>21. Mentioned'
  <2>1. \A n \in Name \ Declared : state'[n] = "visiting" => state[n] = "visiting"
    BY <1>8
  <2>. QED  BY <1>1, <1>10, <1>19, <2>1, MentionedFrame
<1>. QED  BY <1>1, <1>10, <1>11, <1>13, <1>14, <1>15, <1>16, <1>17, <1>18, <1>19, <1>20, <1>21
          DEF DVInv, Searching

\* The dependency is being looked at.  From caller to caller there is a way back
\* to it when it is on the stack, and to the first component of the search when
\* it is an undeclared id that was met before.
LEMMA BackEdgeStep ==
    ASSUME DVInv, NEW d \in Name, Dependency(d),
           state[d] = "visiting", phase' = "path", stack' = <<>>, path' = <<d>>,
           current' = parent'[d], state' = state
    PROVE  DVInv'
<1>. DEFINE L == Len(stack)
            w(m) == [i \in 1 .. m |-> IF i = 1 THEN d ELSE stack[i - 1].id]
            way(m, v) == /\ \A i, j \in 1 .. m : v[i] = v[j] => i = j
                         /\ \A i \in 1 .. m - 1 : parent'[v[i]] = v[i + 1]
                         /\ parent'[v[m]] = v[1] \/ (parent'[v[m]] = None /\ NamedTwice)
                         /\ v[1] = d
<1>1. /\ phase = "search" /\ stack # <<>> /\ UNCHANGED <<graph, errors, next>>
      /\ GraphOK /\ TypeOK /\ OnStack /\ Callers
      /\ 1 \in Frames /\ stack[1].id \in Name /\ Mentioned
      /\ stack[1].taken + 1 \in 1 .. Len(DependsOn(stack[1].id)) /\ stack[1].taken \in Nat
      /\ d = DependsOn(stack[1].id)[stack[1].taken + 1]
      /\ \A n \in Name : parent'[n] = IF n = d THEN stack[1].id ELSE parent[n]
      /\ parent' \in [Name -> Name \cup {None}]
      /\ GraphOK' /\ IdErrors' = IdErrors /\ errors = IdErrors
      /\ EdgesOK'
  BY TakenEdge, TakeOne
<1>2. L \in Nat /\ L >= 1 /\ Frames = 1 .. L
  BY <1>1 DEF TypeOK, Frames
<1>3. \A i \in Frames : stack[i].id \in Declared /\ stack[i].id \in Name
  BY <1>1, GraphShape DEF OnStack
<1>4. \A a, b \in Frames : stack[a].id = stack[b].id => a = b
  BY <1>1 DEF OnStack
<1>5. \A i \in Frames : i < L => i + 1 \in Frames /\ parent[stack[i].id] = stack[i + 1].id
  BY <1>1, <1>2 DEF Callers
<1>6. parent[stack[L].id] = None
  BY <1>1, <1>2 DEF Callers
<1>7. ASSUME NEW m \in Nat \ {0}, m <= L + 1,
             \A i \in 1 .. m - 1 : stack[i].id # d
      PROVE  /\ w(m) \in [1 .. m -> Name]
             /\ \A i, j \in 1 .. m : w(m)[i] = w(m)[j] => i = j
             /\ \A i \in 1 .. m - 1 : parent'[w(m)[i]] = w(m)[i + 1]
  <2>1. \A i \in 1 .. m : i # 1 => i - 1 \in Frames /\ i - 1 \in 1 .. m - 1
    BY <1>2, <1>7
  <2>2. w(m) \in [1 .. m -> Name]
    BY <1>3, <2>1
  <2>3. ASSUME NEW i \in 1 .. m, NEW j \in 1 .. m, w(m)[i] = w(m)[j]
        PROVE  i = j
    <3>1. CASE i = 1 \/ j = 1
      BY <1>7, <2>1, <2>3, <3>1
    <3>2. CASE i # 1 /\ j # 1
      <4>1. stack[i - 1].id = stack[j - 1].id /\ i - 1 \in Frames /\ j - 1 \in Frames
        BY <2>1, <2>3, <3>2
      <4>2. i - 1 = j - 1
        BY <1>4, <4>1
      <4>. QED  BY <4>2
    <3>. QED  BY <3>1, <3>2
  <2>4. ASSUME NEW i \in 1 .. m - 1
        PROVE  parent'[w(m)[i]] = w(m)[i + 1]
    <3>1. i \in 1 .. m /\ i + 1 \in 1 .. m /\ i + 1 # 1 /\ (i + 1) - 1 = i
      OBVIOUS
    <3>2. w(m)[i + 1] = stack[i].id
      BY <3>1
    <3>3. CASE i = 1
      BY <1>1, <3>2, <3>3
    <3>4. CASE i # 1
      <4>1. w(m)[i] = stack[i - 1].id /\ i - 1 \in Frames /\ i - 1 \in 1 .. m - 1
        BY <2>1, <3>1, <3>4
      <4>2. i - 1 < L /\ (i - 1) + 1 = i
        BY <1>2, <1>7
      <4>3. parent[stack[i - 1].id] = stack[(i - 1) + 1].id
        BY <1>5, <4>1, <4>2
      <4>4. stack[i - 1].id \in Name /\ stack[i - 1].id # d
        BY <1>3, <1>7, <4>1
      <4>. QED  BY <1>1, <3>2, <4>1, <4>2, <4>3, <4>4
    <3>. QED  BY <3>3, <3>4
  <2>. QED  BY <2>2, <2>3, <2>4
<1>8. \E m \in Nat \ {0} : \E v \in [1 .. m -> Name] : way(m, v)
  <2>1. CASE d \in Declared
    <3>1. PICK j \in Frames : stack[j].id = d
      BY <1>1, <2>1 DEF OnStack
    <3>2. j \in Nat \ {0} /\ j <= L + 1 /\ \A i \in 1 .. j - 1 : i \in Frames /\ i # j
      BY <1>2
    <3>3. \A i \in 1 .. j - 1 : stack[i].id # d
      BY <1>4, <3>1, <3>2
    <3>4. /\ w(j) \in [1 .. j -> Name]
          /\ \A i, k \in 1 .. j : w(j)[i] = w(j)[k] => i = k
          /\ \A i \in 1 .. j - 1 : parent'[w(j)[i]] = w(j)[i + 1]
      BY <1>7, <3>2, <3>3
    <3>5. parent'[w(j)[j]] = w(j)[1]
      <4>1. 1 \in 1 .. j /\ j \in 1 .. j /\ w(j)[1] = d
        BY <3>2
      <4>2. CASE j = 1
        BY <1>1, <3>1, <4>1, <4>2
      <4>3. CASE j # 1
        <5>1. w(j)[j] = stack[j - 1].id /\ j - 1 \in 1 .. j - 1 /\ j - 1 < L /\ (j - 1) + 1 = j
          BY <1>2, <3>2, <4>1, <4>3
        <5>2. j - 1 \in Frames /\ stack[j - 1].id # d
          BY <3>2, <3>3, <5>1
        <5>3. parent[stack[j - 1].id] = stack[(j - 1) + 1].id
          BY <1>5, <5>1, <5>2
        <5>. QED  BY <1>1, <1>3, <3>1, <4>1, <5>1, <5>2, <5>3
      <4>. QED  BY <4>2, <4>3
    <3>6. w(j)[1] = d
      BY <3>2
    <3>. HIDE DEF w
    <3>. QED  BY <3>2, <3>4, <3>5, <3>6
  <2>2. CASE d \notin Declared
    <3>1. L + 1 \in Nat \ {0} /\ 1 .. (L + 1) - 1 = Frames
      BY <1>2
    <3>2. \A i \in 1 .. (L + 1) - 1 : stack[i].id # d
      BY <1>3, <2>2, <3>1
    <3>3. /\ w(L + 1) \in [1 .. L + 1 -> Name]
          /\ \A i, k \in 1 .. L + 1 : w(L + 1)[i] = w(L + 1)[k] => i = k
          /\ \A i \in 1 .. (L + 1) - 1 : parent'[w(L + 1)[i]] = w(L + 1)[i + 1]
      <4>1. L + 1 <= L + 1
        BY <3>1
      <4>. HIDE DEF w, L
      <4>. QED  BY <1>7, <3>1, <3>2, <4>1
    <3>4. parent'[w(L + 1)[L + 1]] = None
      <4>1. /\ L + 1 \in 1 .. L + 1 /\ L + 1 # 1 /\ (L + 1) - 1 = L /\ L \in Frames
            /\ L \in 1 .. (L + 1) - 1
        BY <1>2
      <4>2. w(L + 1)[L + 1] = stack[L].id
        BY <4>1
      <4>3. stack[L].id \in Name /\ stack[L].id # d
        BY <1>3, <3>2, <4>1
      <4>. HIDE DEF w, L
      <4>. QED  BY <1>1, <1>6, <4>2, <4>3
    <3>5. w(L + 1)[1] = d
      BY <3>1
    <3>6. NamedTwice
      <4>1. PICK c \in Declared, k \in Nat : Asked(k, c) /\ DependsOn(c)[k] = d
        BY <1>1, <2>2 DEF Mentioned
      <4>2. c # stack[1].id \/ k # stack[1].taken + 1
        <5>. SUFFICES ASSUME c = stack[1].id PROVE k # stack[1].taken + 1
          OBVIOUS
        <5>1. c \notin Visited
          BY <1>1 DEF OnStack, Visited
        <5>2. \A i \in Frames : stack[i].id = c => i = 1
          BY <1>1, <1>4
        <5>. QED  BY <1>1, <4>1, <5>1, <5>2 DEF Asked
      <4>3. PICK p \in Positions : graph.id[p] = c /\ DependsOn(c) = graph.dependsOn[p]
        BY <1>1, Counts
      <4>4. PICK q \in Positions : /\ graph.id[q] = stack[1].id
                                   /\ DependsOn(stack[1].id) = graph.dependsOn[q]
        BY <1>1, <1>3, Counts
      <4>5. /\ k \in DOMAIN graph.dependsOn[p] /\ graph.dependsOn[p][k] = d
            /\ stack[1].taken + 1 \in DOMAIN graph.dependsOn[q]
            /\ graph.dependsOn[q][stack[1].taken + 1] = d
        <5>1. graph.dependsOn[p] \in Seq(Name) /\ graph.dependsOn[q] \in Seq(Name)
          BY <1>1, GraphShape
        <5>2. \A s \in Seq(Name) : DOMAIN s = 1 .. Len(s) /\ Len(s) \in Nat
          OBVIOUS
        <5>3. k \in 1 .. Len(graph.dependsOn[p])
          BY <4>1, <4>3 DEF Asked
        <5>4. stack[1].taken + 1 \in 1 .. Len(graph.dependsOn[q])
          BY <1>1, <4>4
        <5>5. graph.dependsOn[p][k] = d
          BY <4>1, <4>3
        <5>6. graph.dependsOn[q][stack[1].taken + 1] = d
          BY <1>1, <4>4
        <5>. QED  BY <5>1, <5>2, <5>3, <5>4, <5>5, <5>6
      <4>6. <<p, k>> # <<q, stack[1].taken + 1>>
        BY <4>2, <4>3, <4>4
      <4>7. d \in Name \ Declared
        BY <2>2
      <4>. QED  BY <4>5, <4>6, <4>7 DEF NamedTwice
    <3>. HIDE DEF w, L
    <3>. QED  BY <3>1, <3>3, <3>4, <3>5, <3>6
  <2>. QED  BY <2>1, <2>2
<1>9. Backtracking'
  <2>0. PICK m \in Nat \ {0} : \E v \in [1 .. m -> Name] : way(m, v)
    BY <1>8
  <2>1. PICK v \in [1 .. m -> Name] : way(m, v)
    BY <2>0
  <2>2. Len(path') = 1 /\ path'[1] = d /\ 1 .. 1 = {1} /\ 1 \in 1 .. m
    OBVIOUS
  <2>3. current' = IF 1 < m THEN v[1 + 1] ELSE parent'[v[m]]
    <3>1. CASE 1 < m
      <4>1. 1 \in 1 .. m - 1
        BY <3>1
      <4>. QED  BY <2>1, <3>1, <4>1
    <3>2. CASE ~(1 < m)
      <4>1. m = 1
        BY <3>2
      <4>. QED  BY <2>1, <4>1
    <3>. QED  BY <3>1, <3>2
  <2>4. Trail(m, v)'
    <3>1. NamedTwice' <=> NamedTwice
      BY <1>1, GraphFrame
    <3>. QED  BY <2>1, <2>2, <2>3, <3>1 DEF Trail
  <2>. QED  BY <1>1, <2>1, <2>4 DEF Backtracking
<1>10. TypeOK'
  <2>1. current' \in Name /\ path' \in Seq(Name) /\ stack' \in Seq(Frame)
    BY <1>1
  <2>. QED  BY <1>1, <2>1 DEF TypeOK
<1>11. ErrorsOK' /\ Searching' /\ Verdict' /\ CycleIsReal'
  BY <1>1 DEF ErrorsOK, Searching, Verdict, CycleIsReal, IdErrors
<1>. QED  BY <1>1, <1>9, <1>10, <1>11 DEF DVInv

LEMMA DependencyStep ==
    ASSUME DVInv, NEW d \in Name, Dependency(d)
    PROVE  /\ DVInv'
           /\ phase' = "search" => Remembered /\ \A c, k : c = stack[1].id /\ k = stack[1].taken + 1 => Asked(k, c)'
<1>1. phase = "search" /\ stack # <<>> /\ TypeOK /\ StatesOK
  BY TakenEdge
<1>2. CASE /\ state[d] = "visited"
           /\ stack' = After /\ UNCHANGED <<phase, state, path, current>>
  BY <1>1, <1>2, PassDependencyStep
<1>3. CASE /\ state[d] = "visiting"
           /\ phase' = "path" /\ stack' = <<>>
           /\ path' = <<d>> /\ current' = parent'[d]
           /\ UNCHANGED state
  BY <1>3, BackEdgeStep
<1>4. CASE /\ state[d] \in {"absent", "unvisited"}
           /\ Visit(d, After) /\ UNCHANGED <<phase, path, current>>
  <2>1. CASE d \in Declared
    <3>1. /\ state' = [state EXCEPT ![d] = "visiting"]
          /\ stack' = <<[id |-> d, taken |-> 0]>> \o After
      BY <1>4, <2>1 DEF Visit
    <3>. QED  BY <1>1, <1>4, <2>1, <3>1, VisitDependencyStep
  <2>2. CASE d \notin Declared
    <3>1. state' = [state EXCEPT ![d] = "visiting"] /\ stack' = After
      BY <1>4, <2>2 DEF Visit
    <3>. QED  BY <1>1, <1>4, <2>2, <3>1, PassDependencyStep
  <2>. QED  BY <2>1, <2>2
<1>. QED  BY <1>2, <1>3, <1>4 DEF Dependency, After

\* Every component has been visited and what is visited has no cycle.
LEMMA NoCycleStep ==
    ASSUME DVInv, NoCycle
    PROVE  DVInv'
<1>. DEFINE deps == [n \in Declared |-> Dependencies(n)]
<1>1. /\ phase = "search" /\ stack = <<>> /\ next > Len(graph.id) /\ errors' = errors
      /\ phase' = IF errors = {} THEN "accepted" ELSE "rejected"
      /\ UNCHANGED <<graph, next, stack, state, parent, path, current>>
  BY DEF NoCycle, Decide
<1>2. /\ GraphOK /\ TypeOK /\ StatesOK /\ OnStack /\ VisitedOK /\ Started /\ Mentioned /\ errors = IdErrors
  BY <1>1 DEF DVInv, Searching, ErrorsOK
<1>3. /\ Positions' = Positions /\ Declared' = Declared /\ \A n : DependsOn(n)' = DependsOn(n) /\ Dependencies(n)' = Dependencies(n)
      /\ GraphOK' /\ IdErrors' = IdErrors /\ (Duplicate' <=> Duplicate)
  BY <1>1, <1>2, GraphFrame
<1>4. Declared \subseteq Visited
  <2>. SUFFICES ASSUME NEW n \in Declared PROVE n \in Visited
    OBVIOUS
  <2>1. PICK p \in Positions : graph.id[p] = n
    BY <1>2, GraphShape
  <2>2. n \in Name /\ p \in 1 .. Len(graph.id) /\ Len(graph.id) \in Nat
    BY <1>2, GraphShape
  <2>3. p < next
    BY <1>1, <1>2, <2>2 DEF TypeOK
  <2>4. state[n] # "unvisited"
    BY <1>2, <2>1, <2>3 DEF Started
  <2>5. state[n] # "absent"
    BY <1>2, <2>2 DEF StatesOK
  <2>6. Frames = {}
    BY <1>1 DEF Frames
  <2>7. state[n] # "visiting"
    BY <1>2, <2>6 DEF OnStack
  <2>. QED  BY <1>2, <2>2, <2>4, <2>5, <2>7 DEF TypeOK, Visited
<1>5. Acyclic(Declared, deps)
  <2>. SUFFICES ASSUME NEW S \in SUBSET Declared, S # {}
                PROVE  \E n \in S : deps[n] \cap S = {}
    BY DEF Acyclic
  <2>1. PICK n \in S : Dependencies(n) \cap S = {}
    BY <1>2, <1>4 DEF VisitedOK
  <2>. QED  BY <2>1
<1>6. errors = {} => ~Duplicate /\ Closed(Declared, deps)
  <2>. SUFFICES ASSUME errors = {} PROVE ~Duplicate /\ Closed(Declared, deps)
    OBVIOUS
  <2>1. ~Duplicate /\ ~Invalid
    BY <1>2 DEF IdErrors
  <2>2. ASSUME NEW n \in Declared PROVE Dependencies(n) \subseteq Declared
    BY <1>2, <2>1, Counts DEF Invalid, Dependencies
  <2>. QED  BY <2>1, <2>2 DEF Closed
<1>7. errors # {} => Duplicate \/ ~ValidGraph(Declared, deps)
  <2>. SUFFICES ASSUME errors # {}, ~Duplicate PROVE ~ValidGraph(Declared, deps)
    OBVIOUS
  <2>1. Self \/ Invalid
    BY <1>2 DEF IdErrors
  <2>2. CASE Self
    <3>1. PICK p \in Positions : graph.id[p] \in ToSet(graph.dependsOn[p])
      BY <2>2 DEF Self
    <3>2. graph.id[p] \in Declared /\ graph.id[p] \in Dependencies(graph.id[p])
      BY <1>2, <3>1, GraphShape, CountsAlone
    <3>3. {graph.id[p]} \in SUBSET Declared /\ {graph.id[p]} # {}
          /\ \A n \in {graph.id[p]} : deps[n] \cap {graph.id[p]} # {}
      BY <3>2
    <3>. QED  BY <1>5, <3>3 DEF Acyclic
  <2>3. CASE Invalid
    <3>1. PICK p \in Positions : ~(ToSet(graph.dependsOn[p]) \subseteq Declared)
      BY <2>3 DEF Invalid
    <3>2. graph.id[p] \in Declared /\ ~(deps[graph.id[p]] \subseteq Declared)
      BY <1>2, <3>1, GraphShape, CountsAlone
    <3>. QED  BY <3>2 DEF ValidGraph, Closed
  <2>. QED  BY <2>1, <2>2, <2>3
<1>8. "cyclic" \notin errors
  BY <1>2 DEF IdErrors
<1>9. deps' = deps
  BY <1>3
<1>10. Verdict'
  <2>1. /\ phase' = "accepted" => ~Duplicate /\ ValidGraph(Declared, deps)
        /\ phase' = "rejected" =>
              /\ Duplicate \/ ~ValidGraph(Declared, deps)
              /\ "cyclic" \in errors <=> ~Acyclic(Declared, deps)
    <3>. HIDE DEF deps
    <3>. QED  BY <1>1, <1>5, <1>6, <1>7, <1>8 DEF ValidGraph
  <2>2. ValidGraph(Declared', deps') <=> ValidGraph(Declared, deps)
    BY <1>3, <1>9
  <2>3. Acyclic(Declared', deps') <=> Acyclic(Declared, deps)
    BY <1>3, <1>9
  <2>. QED  BY <1>1, <1>3, <2>1, <2>2, <2>3 DEF Verdict
<1>11. TypeOK'
  BY <1>1, <1>2 DEF TypeOK
<1>12. ErrorsOK' /\ Searching' /\ Backtracking' /\ CycleIsReal'
  BY <1>1, <1>8 DEF ErrorsOK, Searching, Backtracking, CycleIsReal
<1>. QED  BY <1>3, <1>10, <1>11, <1>12 DEF DVInv

LEMMA FollowParentStep ==
    ASSUME DVInv, FollowParent
    PROVE  DVInv'
<1>1. /\ phase = "path" /\ current # path[1]
      /\ UNCHANGED <<graph, phase, errors, next, stack, state, parent>>
      /\ IF current = None THEN UNCHANGED <<path, current>>
                           ELSE path' = Append(path, current) /\ current' = parent[current]
  BY DEF FollowParent
<1>2. GraphOK /\ TypeOK /\ EdgesOK /\ errors = IdErrors
  BY <1>1 DEF DVInv, Backtracking, ErrorsOK
<1>3. /\ Positions' = Positions /\ Declared' = Declared /\ \A n : DependsOn(n)' = DependsOn(n) /\ Dependencies(n)' = Dependencies(n)
      /\ GraphOK' /\ IdErrors' = IdErrors /\ (NamedTwice' <=> NamedTwice)
  BY <1>1, <1>2, GraphFrame
<1>4. path' \in Seq(Name) /\ current' \in Name \cup {None}
  BY <1>1, <1>2, DependencyValidationAssumption DEF TypeOK
<1>5. TypeOK'
  BY <1>1, <1>2, <1>4 DEF TypeOK
<1>6. EdgesOK'
  BY <1>1, <1>2, <1>3 DEF EdgesOK
<1>7. PICK m \in Nat \ {0} : \E w \in [1 .. m -> Name] : Trail(m, w)
  BY <1>1 DEF DVInv, Backtracking
<1>8. PICK w \in [1 .. m -> Name] : Trail(m, w)
  BY <1>7
<1>9. Trail(m, w)'
  <2>1. CASE current = None
    BY <1>1, <1>3, <1>8, <2>1 DEF Trail
  <2>2. CASE current # None
    <3>1. path' = Append(path, current) /\ current' = parent[current]
      BY <1>1, <2>2
    <3>2. /\ path \in Seq(Name) /\ Len(path) \in 1 .. m
          /\ \A i \in 1 .. Len(path) : path[i] = w[i]
          /\ current = IF Len(path) < m THEN w[Len(path) + 1] ELSE parent[w[m]]
      BY <1>2, <1>8 DEF Trail, TypeOK
    <3>3. Len(path) < m
      <4>. SUFFICES ASSUME Len(path) = m PROVE FALSE
        BY <3>2
      <4>1. current = w[1] /\ path[1] = w[1]
        BY <1>8, <2>2, <3>2 DEF Trail
      <4>. QED  BY <1>1, <4>1
    <3>4. current = w[Len(path) + 1] /\ Len(path) + 1 \in 1 .. m /\ current \in Name
      BY <3>2, <3>3
    <3>5. /\ Len(path') = Len(path) + 1 /\ path'[Len(path) + 1] = current
          /\ \A i \in 1 .. Len(path) : path'[i] = path[i]
      BY <3>1, <3>2, <3>4
    <3>6. \A i \in 1 .. Len(path') : path'[i] = w[i]
      BY <3>2, <3>4, <3>5
    <3>7. current' = IF Len(path') < m THEN w[Len(path') + 1] ELSE parent[w[m]]
      <4>1. CASE Len(path') < m
        <5>1. Len(path) + 1 \in 1 .. m - 1
          BY <3>2, <3>5, <4>1
        <5>. QED  BY <1>8, <3>1, <3>4, <3>5, <4>1, <5>1 DEF Trail
      <4>2. CASE ~(Len(path') < m)
        <5>1. Len(path) + 1 = m
          BY <3>2, <3>3, <3>5, <4>2
        <5>. QED  BY <3>1, <3>4, <4>2, <5>1
      <4>. QED  BY <4>1, <4>2
    <3>. QED  BY <1>1, <1>3, <1>8, <3>4, <3>5, <3>6, <3>7 DEF Trail
  <2>. QED  BY <2>1, <2>2
<1>10. Backtracking'
  BY <1>6, <1>9 DEF Backtracking
<1>11. ErrorsOK' /\ Searching' /\ Verdict' /\ CycleIsReal'
  BY <1>1, <1>2, <1>3 DEF ErrorsOK, Searching, Verdict, CycleIsReal, IdErrors
<1>. QED  BY <1>3, <1>5, <1>10, <1>11 DEF DVInv

\* Back where it started: the whole way has been followed, against the edges.
LEMMA CycleClosedStep ==
    ASSUME DVInv, CycleClosed
    PROVE  DVInv'
<1>. DEFINE deps == [n \in Declared |-> Dependencies(n)]
<1>1. /\ phase = "path" /\ current = path[1] /\ errors' = errors \cup {"cyclic"}
      /\ phase' = "rejected"
      /\ UNCHANGED <<graph, next, stack, state, parent, path, current>>
  BY DEF CycleClosed, Decide
<1>2. GraphOK /\ TypeOK /\ EdgesOK /\ errors = IdErrors
  BY <1>1 DEF DVInv, Backtracking, ErrorsOK
<1>3. /\ Positions' = Positions /\ Declared' = Declared /\ \A n : DependsOn(n)' = DependsOn(n) /\ Dependencies(n)' = Dependencies(n)
      /\ GraphOK' /\ IdErrors' = IdErrors
  BY <1>1, <1>2, GraphFrame
<1>4. PICK m \in Nat \ {0} : \E w \in [1 .. m -> Name] : Trail(m, w)
  BY <1>1 DEF DVInv, Backtracking
<1>5. PICK w \in [1 .. m -> Name] : Trail(m, w)
  BY <1>4
<1>6. /\ Len(path) = m /\ parent[w[m]] = w[1] /\ \A i \in 1 .. m : path[i] = w[i]
      /\ 1 \in 1 .. m /\ m \in 1 .. m
  <2>1. /\ Len(path) \in 1 .. m /\ \A i \in 1 .. Len(path) : path[i] = w[i]
        /\ current = IF Len(path) < m THEN w[Len(path) + 1] ELSE parent[w[m]]
        /\ \A i, j \in 1 .. m : w[i] = w[j] => i = j
    BY <1>5 DEF Trail
  <2>2. path[1] = w[1] /\ 1 \in 1 .. m /\ m \in 1 .. m
    BY <2>1
  <2>3. Len(path) = m
    <3>. SUFFICES ASSUME Len(path) < m PROVE FALSE
      BY <2>1
    <3>1. w[Len(path) + 1] = w[1]
      BY <1>1, <2>1, <2>2
    <3>2. PICK k \in 1 .. m : k = Len(path)
      BY <2>1
    <3>3. k + 1 \in 1 .. m /\ k + 1 # 1
      BY <3>2
    <3>. QED  BY <2>1, <2>2, <3>1, <3>2, <3>3
  <2>4. parent[w[m]] = w[1]
    <3>1. ~(Len(path) < m)
      BY <2>3
    <3>2. current = parent[w[m]]
      BY <2>1, <3>1
    <3>. QED  BY <1>1, <2>2, <3>2
  <2>. QED  BY <2>1, <2>2, <2>3, <2>4
<1>7. \A i \in 1 .. m : /\ w[i] \in Name
                        /\ parent[w[i]] = IF i = m THEN w[1] ELSE w[i + 1]
  <2>1. \A i \in 1 .. m : i # m => i \in 1 .. m - 1
    OBVIOUS
  <2>. QED  BY <1>5, <1>6, <2>1 DEF Trail
<1>8. \A i \in 1 .. m : parent[w[i]] \in Name /\ parent[w[i]] # None
  <2>1. \A i \in 1 .. m : i # m => i + 1 \in 1 .. m
    OBVIOUS
  <2>. QED  BY <1>6, <1>7, <2>1, DependencyValidationAssumption
<1>9. \A i \in 1 .. m : parent[w[i]] \in Declared /\ w[i] \in Dependencies(parent[w[i]])
  BY <1>2, <1>7, <1>8 DEF EdgesOK
<1>10. \A i \in 1 .. m : \E j \in 1 .. m : w[i] = parent[w[j]]
  <2>. SUFFICES ASSUME NEW i \in 1 .. m PROVE \E j \in 1 .. m : w[i] = parent[w[j]]
    OBVIOUS
  <2>1. CASE i = 1
    BY <1>6, <2>1
  <2>2. CASE i # 1
    <3>1. i - 1 \in 1 .. m /\ i - 1 # m /\ (i - 1) + 1 = i
      BY <2>2
    <3>2. parent[w[i - 1]] = w[(i - 1) + 1]
      BY <1>7, <3>1
    <3>. QED  BY <3>1, <3>2
  <2>. QED  BY <2>1, <2>2
<1>11. ~Acyclic(Declared, deps)
  <2>. DEFINE S == {w[i] : i \in 1 .. m}
  <2>1. S \in SUBSET Declared /\ S # {}
    <3>1. \A i \in 1 .. m : w[i] \in Declared
      <4>. SUFFICES ASSUME NEW i \in 1 .. m PROVE w[i] \in Declared
        OBVIOUS
      <4>1. PICK j \in 1 .. m : w[i] = parent[w[j]]
        BY <1>10
      <4>. QED  BY <1>9, <4>1
    <3>2. w[1] \in S
      BY <1>6
    <3>. QED  BY <3>1, <3>2
  <2>2. ASSUME NEW n \in S
        PROVE  Dependencies(n) \cap S # {}
    <3>1. PICK i \in 1 .. m : n = w[i]
      OBVIOUS
    <3>2. PICK j \in 1 .. m : w[i] = parent[w[j]]
      BY <1>10
    <3>3. w[j] \in Dependencies(n)
      BY <1>9, <3>1, <3>2
    <3>. QED  BY <3>3
  <2>3. \A n \in S : deps[n] = Dependencies(n)
    BY <2>1
  <2>. HIDE DEF S, deps
  <2>. QED  BY <2>1, <2>2, <2>3 DEF Acyclic
<1>12. Verdict'
  <2>1. deps' = deps
    BY <1>3
  <2>2. ~Acyclic(Declared', deps')
    BY <1>3, <1>11, <2>1
  <2>. QED  BY <1>1, <2>2 DEF Verdict, ValidGraph
<1>13. CycleIsReal'
  <2>1. DOMAIN path' = 1 .. m /\ Len(path') = m
    BY <1>1, <1>2, <1>6 DEF TypeOK
  <2>2. ASSUME NEW i \in 1 .. m
        PROVE  /\ path[i] \in Dependencies(path[IF i = m THEN 1 ELSE i + 1])
               /\ \A j \in 1 .. m : path[i] = path[j] => i = j
    <3>1. path[IF i = m THEN 1 ELSE i + 1] = parent[w[i]]
      <4>1. i # m => i + 1 \in 1 .. m
        OBVIOUS
      <4>. QED  BY <1>6, <1>7, <4>1
    <3>2. path[i] = w[i]
      BY <1>6
    <3>. QED  BY <1>5, <1>6, <1>9, <3>1, <3>2 DEF Trail
  <2>. QED  BY <1>1, <1>3, <2>1, <2>2 DEF CycleIsReal
<1>14. TypeOK'
  BY <1>1, <1>2 DEF TypeOK
<1>15. ErrorsOK' /\ Searching' /\ Backtracking'
  BY <1>1 DEF ErrorsOK, Searching, Backtracking
<1>. QED  BY <1>3, <1>12, <1>13, <1>14, <1>15 DEF DVInv

LEMMA StutterDV ==
    ASSUME DVInv, UNCHANGED vars
    PROVE  DVInv'
<1>1. UNCHANGED <<graph, phase, errors, next, stack, state, parent, path, current>>
  BY DEF vars
<1>2. /\ Positions' = Positions /\ Declared' = Declared /\ \A n : DependsOn(n)' = DependsOn(n) /\ Dependencies(n)' = Dependencies(n)
      /\ GraphOK' /\ IdErrors' = IdErrors /\ (Duplicate' <=> Duplicate)
      /\ (NamedTwice' <=> NamedTwice)
  BY <1>1, GraphFrame DEF DVInv
<1>3. TypeOK'
  BY <1>1 DEF DVInv, TypeOK
<1>4. Searching'
  BY <1>1, <1>2 DEF DVInv, Searching, StatesOK, EdgesOK, OnStack, Callers, Taken, VisitedOK,
                    Started, Mentioned, Asked, Frames, Visited
<1>5. ErrorsOK'
  BY <1>1, <1>2 DEF DVInv, ErrorsOK
<1>6. Backtracking'
  BY <1>1, <1>2 DEF DVInv, Backtracking, EdgesOK, Trail
<1>7. Verdict' /\ CycleIsReal'
  <2>. DEFINE deps == [n \in Declared |-> Dependencies(n)]
  <2>1. deps' = deps
    BY <1>2
  <2>2. /\ ValidGraph(Declared', deps') <=> ValidGraph(Declared, deps)
        /\ Acyclic(Declared', deps') <=> Acyclic(Declared, deps)
    BY <1>2, <2>1
  <2>. QED  BY <1>1, <1>2, <2>2 DEF DVInv, Verdict, CycleIsReal
<1>. QED  BY <1>2, <1>3, <1>4, <1>5, <1>6, <1>7 DEF DVInv

LEMMA ValidationInvariant == Spec => []DVInv
<1>1. ASSUME DVInv, [Next]_vars
      PROVE  DVInv'
  <2>1. CASE CheckIds  BY <1>1, <2>1, CheckIdsStep
  <2>2. CASE NextComponent  BY <1>1, <2>2, NextComponentStep
  <2>3. CASE Leave  BY <1>1, <2>3, LeaveStep
  <2>4. CASE NoCycle  BY <1>1, <2>4, NoCycleStep
  <2>5. CASE FollowParent  BY <1>1, <2>5, FollowParentStep
  <2>6. CASE CycleClosed  BY <1>1, <2>6, CycleClosedStep
  <2>7. ASSUME NEW d \in Name, Dependency(d)
        PROVE  DVInv'
    BY <1>1, <2>7, DependencyStep
  <2>8. CASE UNCHANGED vars  BY <1>1, <2>8, StutterDV
  <2>. QED  BY <1>1, <2>1, <2>2, <2>3, <2>4, <2>5, <2>6, <2>7, <2>8 DEF Next
<1>. QED  BY InitDV, <1>1, PTL DEF Spec

-----------------------------------------------------------------------------

\* Every variable of the validation keeps its type: the stack holds calls for
\* ids of the pitfile, the search never starts past the end of the list.
THEOREM ValidationTypeCorrect == Spec => []TypeOK
<1>1. DVInv => TypeOK
  BY DEF DVInv
<1>. QED  BY ValidationInvariant, <1>1, PTL

\* For every pitfile: what is accepted has unique ids, no undeclared dependency
\* and no cycle, what is rejected lacks one of these, and a cycle is among the
\* errors exactly when the graph has one.
THEOREM VerdictIsRight == Spec => []Verdict
<1>1. DVInv => Verdict
  BY DEF DVInv
<1>. QED  BY ValidationInvariant, <1>1, PTL

\* For every pitfile: the cycle that is printed is one, without repetition,
\* although the search overwrites the parents with every edge it looks at.
THEOREM ReportedCycleIsReal == Spec => []CycleIsReal
<1>1. DVInv => CycleIsReal
  BY DEF DVInv
<1>. QED  BY ValidationInvariant, <1>1, PTL

\* While a cycle is reconstructed.
Guided == phase = "path" => NamedTwice \/ current \in Name

LEMMA GuidedStep == DVInv => Guided
<1>. SUFFICES ASSUME DVInv, phase = "path", ~NamedTwice PROVE current \in Name
  BY DEF Guided
<1>1. PICK m \in Nat \ {0} : \E w \in [1 .. m -> Name] : Trail(m, w)
  BY DEF DVInv, Backtracking
<1>2. PICK w \in [1 .. m -> Name] : Trail(m, w)
  BY <1>1
<1>3. PICK k \in 1 .. m : k = Len(path)
  BY <1>2 DEF Trail
<1>4. current = IF k < m THEN w[k + 1] ELSE w[1]
  BY <1>2, <1>3 DEF Trail
<1>5. 1 \in 1 .. m /\ (k < m => k + 1 \in 1 .. m)
  BY <1>3
<1>. QED  BY <1>4, <1>5

\* For every pitfile, whatever its lists repeat: the reconstruction of a cycle
\* comes to an id without a parent, after which it would go on for ever, only
\* when an undeclared id is named at two places, of two lists or of one.
THEOREM ReconstructionGuided == Spec => []Guided
BY ValidationInvariant, GuidedStep, PTL

\* The graph as the deployment numbers it, by positions in the pitfile.
Numbered == [p \in Positions |-> {q \in Positions : graph.id[q] \in ToSet(graph.dependsOn[p])}]

Deployable ==
    phase = "accepted" =>
        /\ ValidGraph(Positions, Numbered)
        /\ \A p \in Positions : \A n \in ToSet(graph.dependsOn[p]) :
              \E q \in Numbered[p] : \A r \in Positions : graph.id[r] = n <=> r = q

\* For every pitfile: what is accepted is a graph that WholeGraphDeployed and
\* RolloutImplemented (GraphDeploymentProofs) assume: every dependency is one
\* position of the list, and in every group of positions there is one that
\* depends on none of the group.
THEOREM AcceptedIsDeployable == Spec => []Deployable
<1>. DEFINE deps == [n \in Declared |-> Dependencies(n)]
<1>1. ASSUME DVInv
      PROVE  Deployable
  <2>. SUFFICES ASSUME phase = "accepted"
                PROVE  /\ ValidGraph(Positions, Numbered)
                       /\ \A p \in Positions : \A n \in ToSet(graph.dependsOn[p]) :
                             \E q \in Numbered[p] :
                                \A r \in Positions : graph.id[r] = n <=> r = q
    BY DEF Deployable
  <2>1. GraphOK /\ ~Duplicate /\ Closed(Declared, deps) /\ Acyclic(Declared, deps)
    BY <1>1 DEF DVInv, Verdict, ValidGraph
  <2>2. \A p \in Positions : /\ graph.id[p] \in Declared
                             /\ deps[graph.id[p]] = ToSet(graph.dependsOn[p])
    BY <2>1, GraphShape, CountsAlone
  <2>3. ASSUME NEW p \in Positions, NEW n \in ToSet(graph.dependsOn[p])
        PROVE  \E q \in Numbered[p] : \A r \in Positions : graph.id[r] = n <=> r = q
    <3>1. n \in Declared
      BY <2>1, <2>2, <2>3 DEF Closed
    <3>2. PICK q \in Positions : graph.id[q] = n
      BY <2>1, <3>1, GraphShape
    <3>3. \A r \in Positions : graph.id[r] = n => r = q
      BY <2>1, <3>2 DEF Duplicate
    <3>. QED  BY <2>3, <3>2, <3>3 DEF Numbered
  <2>4. Closed(Positions, Numbered)
    BY DEF Closed, Numbered
  <2>5. ASSUME NEW S \in SUBSET Positions, S # {}
        PROVE  \E p \in S : Numbered[p] \cap S = {}
    <3>. DEFINE T == {graph.id[p] : p \in S}
    <3>1. T \in SUBSET Declared /\ T # {}
      BY <2>2, <2>5
    <3>2. PICK n \in T : deps[n] \cap T = {}
      <4>. HIDE DEF T, deps
      <4>. QED  BY <2>1, <3>1 DEF Acyclic
    <3>3. PICK p \in S : graph.id[p] = n
      OBVIOUS
    <3>4. deps[n] = ToSet(graph.dependsOn[p])
      BY <2>2, <3>3
    <3>5. \A q \in S : graph.id[q] \notin ToSet(graph.dependsOn[p])
      BY <3>2, <3>4
    <3>. QED  BY <3>5 DEF Numbered
  <2>6. Acyclic(Positions, Numbered)
    BY <2>5 DEF Acyclic
  <2>. QED  BY <2>3, <2>4, <2>6 DEF ValidGraph
<1>. QED  BY ValidationInvariant, <1>1, PTL

\* The places in a component's list the search has not come to.
Open(c) == {k \in 1 .. Len(DependsOn(c)) : ~Asked(k, c)}

Advances ==
    /\ phase = "search" /\ phase' = "search" =>
          /\ next' >= next /\ Visited \subseteq Visited'
          /\ \A c \in Declared : Open(c)' \subseteq Open(c)
          /\ next' > next \/ Visited' # Visited \/ \E c \in Declared : Open(c)' # Open(c)
    /\ phase = "path" /\ phase' = "path" =>
          \/ NamedTwice
          \/ /\ Len(path') = Len(path) + 1
             /\ \A i, j \in DOMAIN path' : path'[i] = path'[j] => i = j

LEMMA OpenShrinks ==
    ASSUME graph' = graph, Remembered, TypeOK, TypeOK'
    PROVE  \A c : Open(c)' \subseteq Open(c)
<1>1. \A c : DependsOn(c)' = DependsOn(c)
  BY GraphFrame
<1>2. ASSUME NEW c, NEW k \in 1 .. Len(DependsOn(c)), ~Asked(k, c)'  PROVE ~Asked(k, c)
  BY <1>2, AskedFrame
<1>. QED  BY <1>1, <1>2 DEF Open

\* For every pitfile: each step of the search starts from a later component,
\* finishes one or takes an entry of a list it had not taken, and takes nothing
\* of this back; each turn of the reconstruction adds an id to the path that it
\* did not have.  A pitfile has finitely many of each, so that nothing is left
\* that the validation could do for ever, but for an undeclared id named twice.
THEOREM ValidationAdvances == Spec => [][Advances]_vars
<1>1. ASSUME DVInv, DVInv', Next
      PROVE  Advances
  <2>1. ASSUME phase = "search", phase' = "search"
        PROVE  /\ next' >= next /\ Visited \subseteq Visited'
               /\ \A c \in Declared : Open(c)' \subseteq Open(c)
               /\ next' > next \/ Visited' # Visited \/ \E c \in Declared : Open(c)' # Open(c)
    <3>1. next \in Nat /\ graph' = graph /\ TypeOK /\ TypeOK'
      <4>1. next \in 1 .. Len(graph.id) + 1 /\ Len(graph.id) \in Nat
        BY <1>1, GraphShape DEF DVInv, TypeOK
      <4>2. graph' = graph
        BY <1>1 DEF Next, CheckIds, NextComponent, Leave, NoCycle, FollowParent, CycleClosed,
                    Dependency
      <4>. QED  BY <1>1, <4>1, <4>2 DEF DVInv
    <3>2. CASE NextComponent
      <4>1. Remembered /\ next' > next /\ next' = next + 1
        BY <1>1, <3>2, NextComponentStep DEF NextComponent
      <4>. QED  BY <3>1, <4>1, OpenShrinks DEF Remembered
    <3>3. CASE Leave
      <4>1. Remembered /\ next' = next /\ \E n \in Declared : n \notin Visited /\ n \in Visited'
        BY <1>1, <3>3, LeaveStep DEF Leave
      <4>2. Visited' # Visited
        BY <4>1
      <4>. QED  BY <3>1, <4>1, <4>2, OpenShrinks DEF Remembered
    <3>4. ASSUME NEW d \in Name, Dependency(d)
          PROVE  /\ next' >= next /\ Visited \subseteq Visited'
                 /\ \A c \in Declared : Open(c)' \subseteq Open(c)
                 /\ \E c \in Declared : Open(c)' # Open(c)
      <4>1. Remembered /\ next' = next /\ \A c, k : c = stack[1].id /\ k = stack[1].taken + 1 => Asked(k, c)'
        BY <1>1, <2>1, <3>4, DependencyStep DEF Dependency
      <4>2. /\ 1 \in Frames /\ stack[1].id \in Declared /\ OnStack
            /\ stack[1].taken + 1 \in 1 .. Len(DependsOn(stack[1].id)) /\ stack[1].taken \in Nat
        BY <1>1, <3>4, TakenEdge, TakeOne
      <4>3. PICK c \in Declared : c = stack[1].id
        BY <4>2
      <4>4. stack[1].taken + 1 \in Open(c)
        <5>1. c \notin Visited
          BY <4>2, <4>3 DEF OnStack, Visited
        <5>2. \A i \in Frames : stack[i].id = c => i = 1
          BY <4>2, <4>3 DEF OnStack
        <5>. QED  BY <4>2, <4>3, <5>1, <5>2 DEF Open, Asked
      <4>5. stack[1].taken + 1 \notin Open(c)'
        BY <4>1, <4>3 DEF Open
      <4>. QED  BY <3>1, <4>1, <4>4, <4>5, OpenShrinks DEF Remembered
    <3>5. ~CheckIds /\ ~NoCycle /\ ~FollowParent /\ ~CycleClosed
      BY <2>1 DEF CheckIds, NoCycle, FollowParent, CycleClosed, Decide
    <3>. QED  BY <1>1, <3>2, <3>3, <3>4, <3>5 DEF Next
  <2>2. ASSUME phase = "path", phase' = "path", ~NamedTwice
        PROVE  /\ Len(path') = Len(path) + 1
               /\ \A i, j \in DOMAIN path' : path'[i] = path'[j] => i = j
    <3>1. FollowParent /\ (NamedTwice' <=> NamedTwice)
      <4>1. FollowParent
        BY <1>1, <2>2 DEF Next, CheckIds, NextComponent, Leave, NoCycle, CycleClosed,
                          Dependency, Decide
      <4>. QED  BY <4>1, GraphFrame DEF FollowParent
    <3>2. current \in Name
      BY <1>1, <2>2, GuidedStep DEF Guided
    <3>3. path' = Append(path, current) /\ path \in Seq(Name)
      BY <1>1, <3>1, <3>2, DependencyValidationAssumption DEF FollowParent, DVInv, TypeOK
    <3>4. path' \in Seq(Name) /\ Len(path') = Len(path) + 1
      BY <3>2, <3>3
    <3>5. PICK m \in Nat \ {0} : \E w \in [1 .. m -> Name] : Trail(m, w)'
      BY <1>1, <2>2 DEF DVInv, Backtracking
    <3>6. PICK w \in [1 .. m -> Name] : Trail(m, w)'
      BY <3>5
    <3>7. \A i \in DOMAIN path' : i \in 1 .. m /\ path'[i] = w[i]
      BY <3>4, <3>6 DEF Trail
    <3>. QED  BY <3>4, <3>6, <3>7 DEF Trail
  <2>. QED  BY <2>1, <2>2 DEF Advances
<1>. QED  BY ValidationInvariant, <1>1, PTL DEF Spec
=============================================================================
