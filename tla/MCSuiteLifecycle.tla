-------------------------- MODULE MCSuiteLifecycle --------------------------
(* Pitfiles for the runs of SuiteLifecycle. *)
EXTENDS SuiteLifecycle, TLC

CONSTANTS d1, d2

\* Two deployers with one suite each; one deployer with a remote entry of which no
\* suite is chosen and one of two suites, and another without suites.
SmallPitfiles == {d1 :> <<1>> @@ d2 :> <<1>>, d1 :> <<0, 2>> @@ d2 :> <<0>>}

\* All were started for the same commit.
SameStamp == [d \in Deployer |-> "commit"]

\* One suite does without locks.
NeedLocks == Suite \ {<<d1, 2, 2>>}
AllNamespaces == {NamespaceName(s) : s \in Suite}
=============================================================================
