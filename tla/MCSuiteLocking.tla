-------------------------- MODULE MCSuiteLocking ---------------------------
(* Values of the constants of SuiteLocking for its runs. *)
EXTENDS SuiteLocking, TLC

CONSTANTS s1, s2

TwoLocks == {1, 2}
BothWantBoth == [o \in Owner |-> TwoLocks]
Symmetry == Permutations(Owner)
OneEach == [o \in Owner |-> {1}]

\* The runs of prompt systems are about the constants that the theorems on
\* Exclusive and BeliefBacked presuppose.
ASSUME TimelyRunsArePrompt == Timely /\ NoTimeout = {} => Prompt
=============================================================================
