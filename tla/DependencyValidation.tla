------------------------ MODULE DependencyValidation ------------------------
(***************************************************************************)
(* validateDependencies and detectCyclicDependencies                       *)
(* (k8s-deployer/src/dependency-resolver.ts), which main() applies to the  *)
(* graph of every suite before it deploys anything.                        *)
(*                                                                         *)
(* A graph is the list of components of the pitfile: id and dependsOn of   *)
(* each position.  A dependsOn is a list of ids, which may hold one id     *)
(* more than once.  The depth-first search is the recursion of dfs() with  *)
(* its call stack made explicit.                                           *)
(***************************************************************************)
EXTENDS ComponentGraph, Naturals, Sequences, SequencesExt

CONSTANTS Name,       \* ids that occur in the pitfile, declared or not
          None,       \* JavaScript's undefined
          Pitfiles    \* the graphs to validate

ASSUME DependencyValidationAssumption ==
    /\ None \notin Name
    /\ \A g \in Pitfiles :
          /\ g.id \in Seq(Name) /\ g.dependsOn \in Seq(Seq(Name))
          /\ Len(g.id) = Len(g.dependsOn)

VARIABLES
    graph,      \* the graph under validation
    phase,      \* what validateDependencies is doing
    errors,     \* kinds of the errors found so far
    next,       \* position of the next component to start the search from
    stack,      \* calls of dfs() under way, innermost first
    state,      \* unvisited, visiting or visited; absent for undeclared ids
    parent,     \* who reached an id last
    path,       \* the cycle under reconstruction
    current     \* the id reconstructCyclePath has come to

vars == <<graph, phase, errors, next, stack, state, parent, path, current>>

Positions == DOMAIN graph.id
Declared == ToSet(graph.id)

\* The list of a component.  componentMap: of two components with one id the
\* later one counts.
DependsOn(n) ==
    graph.dependsOn[CHOOSE p \in Positions :
                      graph.id[p] = n /\ \A q \in Positions : graph.id[q] = n => q <= p]

\* The ids in it.
Dependencies(n) == ToSet(DependsOn(n))

\* A call of dfs(): the component and how many of its dependencies it has taken.
Frame == [id : Name, taken : Nat]

TypeOK ==
    /\ phase \in {"ids", "search", "path", "accepted", "rejected"}
    /\ errors \subseteq {"duplicate", "self", "invalid", "cyclic"}
    /\ next \in 1 .. Len(graph.id) + 1
    /\ stack \in Seq(Frame) /\ path \in Seq(Name)
    /\ state \in [Name -> {"absent", "unvisited", "visiting", "visited"}]
    /\ parent \in [Name -> Name \cup {None}] /\ current \in Name \cup {None}

Init ==
    /\ graph \in Pitfiles
    /\ phase = "ids" /\ errors = {} /\ next = 1 /\ stack = <<>>
    /\ state = [n \in Name |-> IF n \in ToSet(graph.id) THEN "unvisited" ELSE "absent"]
    /\ parent = [n \in Name |-> None] /\ path = <<>> /\ current = None

-----------------------------------------------------------------------------
(* Duplicate ids, self-dependencies and undeclared dependencies *)

Duplicate == \E p, q \in Positions : p # q /\ graph.id[p] = graph.id[q]
Self == \E p \in Positions : graph.id[p] \in ToSet(graph.dependsOn[p])
Invalid == \E p \in Positions : ~(ToSet(graph.dependsOn[p]) \subseteq Declared)

CheckIds ==
    /\ phase = "ids"
    /\ errors' = {e \in {"duplicate", "self", "invalid"} :
                    \/ e = "duplicate" /\ Duplicate
                    \/ e = "self" /\ Self
                    \/ e = "invalid" /\ Invalid}
    /\ phase' = "search"
    /\ UNCHANGED <<graph, next, stack, state, parent, path, current>>

-----------------------------------------------------------------------------
(* detectCyclicDependencies *)

\* dfs(n) of an id that is neither visited nor being visited, called by
\* `callers'.  It returns at once for an undeclared id, which stays visiting.
Visit(n, callers) ==
    /\ state' = [state EXCEPT ![n] = "visiting"]
    /\ stack' = IF n \in Declared THEN <<[id |-> n, taken |-> 0]>> \o callers ELSE callers

\* Mutants: only the first search counts; the loop runs past the last component.
FirstComponentOnly ==
    /\ phase = "search" /\ stack = <<>> /\ next <= Len(graph.id)
    /\ next' = Len(graph.id) + 1
    /\ Visit(graph.id[next], <<>>)
    /\ UNCHANGED <<graph, phase, errors, parent, path, current>>
NextComponentPastEnd ==
    /\ phase = "search" /\ stack = <<>> /\ next <= Len(graph.id) + 1
    /\ next' = next + 1
    /\ IF next <= Len(graph.id) /\ state[graph.id[next]] = "unvisited"
       THEN Visit(graph.id[next], <<>>)
       ELSE UNCHANGED <<state, stack>>
    /\ UNCHANGED <<graph, phase, errors, parent, path, current>>

NextComponent ==
    /\ phase = "search" /\ stack = <<>> /\ next <= Len(graph.id)
    /\ next' = next + 1
    /\ IF state[graph.id[next]] = "unvisited"
       THEN Visit(graph.id[next], <<>>)
       ELSE UNCHANGED <<state, stack>>
    /\ UNCHANGED <<graph, phase, errors, parent, path, current>>

\* The innermost dfs() has not taken all of its dependencies, d is the next one.
IsNext(d) ==
    /\ stack # <<>> /\ Head(stack).taken < Len(DependsOn(Head(stack).id))
    /\ d = DependsOn(Head(stack).id)[Head(stack).taken + 1]

Dependency(d) ==
    /\ phase = "search" /\ IsNext(d)
    /\ parent' = [parent EXCEPT ![d] = Head(stack).id]
    /\ LET callers == <<[Head(stack) EXCEPT !.taken = @ + 1]>> \o Tail(stack)
       IN  \/ /\ state[d] = "visited"
              /\ stack' = callers /\ UNCHANGED <<phase, state, path, current>>
           \/ /\ state[d] = "visiting"
              /\ phase' = "path" /\ stack' = <<>>
              /\ path' = <<d>> /\ current' = parent'[d]
              /\ UNCHANGED state
           \/ /\ state[d] \in {"absent", "unvisited"}
              /\ Visit(d, callers) /\ UNCHANGED <<phase, path, current>>
    /\ UNCHANGED <<graph, errors, next>>

AllTaken == stack # <<>> /\ Head(stack).taken = Len(DependsOn(Head(stack).id))

\* Mutant: the component is not marked as visited.
LeaveVisiting ==
    /\ phase = "search" /\ AllTaken
    /\ stack' = Tail(stack)
    /\ UNCHANGED <<graph, phase, errors, next, state, parent, path, current>>

Leave ==
    /\ phase = "search" /\ AllTaken
    /\ state' = [state EXCEPT ![Head(stack).id] = "visited"]
    /\ stack' = Tail(stack)
    /\ UNCHANGED <<graph, phase, errors, next, parent, path, current>>

\* Throw all the errors found, or return.
Decide(found) ==
    /\ errors' = found
    /\ phase' = IF found = {} THEN "accepted" ELSE "rejected"

NoCycle ==
    /\ phase = "search" /\ stack = <<>> /\ next > Len(graph.id)
    /\ Decide(errors)
    /\ UNCHANGED <<graph, next, stack, state, parent, path, current>>

\* Mutant: the step to the parent is taken before the id is appended.
FollowParentFirst ==
    /\ phase = "path" /\ current # path[1]
    /\ IF current = None
       THEN UNCHANGED <<path, current>>
       ELSE path' = Append(path, parent[current]) /\ current' = parent[current]
    /\ UNCHANGED <<graph, phase, errors, next, stack, state, parent>>

\* reconstructCyclePath: from parent to parent, back to where it started.  Past
\* an id without a parent the loop goes on with undefined; the undefined
\* entries it appends are not recorded in `path'.
FollowParent ==
    /\ phase = "path" /\ current # path[1]
    /\ IF current = None
       THEN UNCHANGED <<path, current>>
       ELSE path' = Append(path, current) /\ current' = parent[current]
    /\ UNCHANGED <<graph, phase, errors, next, stack, state, parent>>

CycleClosed ==
    /\ phase = "path" /\ current = path[1]
    /\ Decide(errors \cup {"cyclic"})
    /\ UNCHANGED <<graph, next, stack, state, parent, path, current>>

Next ==
    \/ CheckIds \/ NextComponent \/ Leave \/ NoCycle \/ FollowParent \/ CycleClosed
    \/ \E d \in Name : Dependency(d)

Spec == Init /\ [][Next]_vars
FairSpec == Spec /\ WF_vars(Next)

-----------------------------------------------------------------------------
(* Properties *)

\* Validation accepts the graphs that can be deployed and no others, and it
\* reports a cycle exactly when there is one, whatever else is wrong and
\* wherever in the list the search starts.
Verdict ==
    LET dependsOn == [n \in Declared |-> Dependencies(n)] IN
    /\ phase = "accepted" => ~Duplicate /\ ValidGraph(Declared, dependsOn)
    /\ phase = "rejected" =>
          /\ Duplicate \/ ~ValidGraph(Declared, dependsOn)
          /\ "cyclic" \in errors <=> ~Acyclic(Declared, dependsOn)

\* The cycle shown to the user is one: each id of it is a dependency of the
\* one after it, the last id one of the first, and no id occurs twice.  The
\* search overwrites `parent' with every edge it looks at.
CycleIsReal ==
    "cyclic" \in errors =>
        \A i \in DOMAIN path :
            /\ path[i] \in Dependencies(path[IF i = Len(path) THEN 1 ELSE i + 1])
            /\ \A j \in DOMAIN path : path[i] = path[j] => i = j

\* An id that no component declares is named at two places: by two components,
\* or twice in the list of one.
NamedTwice ==
    \E n \in Name \ Declared, p, q \in Positions :
        \E i \in DOMAIN graph.dependsOn[p], j \in DOMAIN graph.dependsOn[q] :
            <<p, i>> # <<q, j>> /\ graph.dependsOn[p][i] = n /\ graph.dependsOn[q][j] = n

\* Validation ends with a verdict: main() does not hang on a pitfile it should
\* refuse, whatever is wrong with it, an id repeated in a list included.  Only a
\* mistake made twice may keep it for ever: an undeclared id stays `visiting',
\* so that its second mention is taken for a cycle, which is never closed.
ValidationEnds == NamedTwice \/ <>(phase \in {"accepted", "rejected"})
=============================================================================
