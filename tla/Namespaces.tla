----------------------------- MODULE Namespaces -----------------------------
(***************************************************************************)
(* The temporary namespaces of the cluster: the script with which a        *)
(* deployer creates and deletes them                                       *)
(* (k8s-deployer/scripts/k8s-manage-namespace.sh), and the job that        *)
(* removes those left behind (brownie/scripts/clean-ns.sh,                 *)
(* brownie/src/k8ns/index.ts).                                             *)
(*                                                                         *)
(* A name may be used again.  Its incarnations are numbered, and time is   *)
(* how many of them have reached the retention period.                     *)
(***************************************************************************)
EXTENDS Naturals

CONSTANTS Client,       \* who runs scripts: the deployers
          Namespace     \* names of namespaces

VARIABLES
    phase,     \* of each namespace
    born,      \* incarnations of each name so far
    aged,      \* how many of them are older than the retention period
    scripts,   \* scripts under way
    undeleted, \* names whose namespace a script has failed to delete
    listed     \* the incarnations Brownie has yet to look at; 0: none

nsVars == <<phase, born, aged, scripts, undeleted, listed>>

Script == [client : Client, action : {"create", "delete"}, name : Namespace]

NamespacesTypeOK ==
    /\ phase \in [Namespace -> {"absent", "active", "terminating"}]
    /\ born \in [Namespace -> Nat] /\ aged \in [Namespace -> Nat]
    /\ \A n \in Namespace : aged[n] <= born[n]
    /\ scripts \subseteq Script /\ undeleted \subseteq Namespace
    /\ listed \in [Namespace -> Nat]

NamespacesInit ==
    /\ phase = [n \in Namespace |-> "absent"]
    /\ born = [n \in Namespace |-> 0] /\ aged = [n \in Namespace |-> 0]
    /\ scripts = {} /\ undeleted = {}
    /\ listed = [n \in Namespace |-> 0]

-----------------------------------------------------------------------------
(* The script *)

\* A namespace that exists is taken as it is, whoever made it and even if it is
\* about to go.
CreateNamespace(x) ==
    /\ x \in scripts /\ x.action = "create"
    /\ IF phase[x.name] = "absent"
       THEN /\ phase' = [phase EXCEPT ![x.name] = "active"]
            /\ born' = [born EXCEPT ![x.name] = @ + 1]
       ELSE UNCHANGED <<phase, born>>
    /\ scripts' = scripts \ {x}
    /\ UNCHANGED <<aged, undeleted, listed>>

\* kubectl delete on behalf of a script or of Brownie.
Delete(n) == phase' = IF phase[n] = "active" THEN [phase EXCEPT ![n] = "terminating"] ELSE phase

\* The script answers DONE whatever becomes of the command.
DeleteNamespace(x) ==
    /\ x \in scripts /\ x.action = "delete"
    /\ \/ Delete(x.name) /\ undeleted' = undeleted \ {x.name}
       \/ UNCHANGED phase /\ phase[x.name] = "active" /\ undeleted' = undeleted \cup {x.name}
    /\ scripts' = scripts \ {x}
    /\ UNCHANGED <<born, aged, listed>>

\* The cluster takes its time.
Terminate(n) ==
    /\ phase[n] = "terminating"
    /\ phase' = [phase EXCEPT ![n] = "absent"]
    /\ UNCHANGED <<born, aged, scripts, undeleted, listed>>

\* Of a namespace that is gone the age does not matter any more.
GrowOld(n) ==
    /\ aged[n] < born[n] /\ (phase[n] # "absent" \/ listed[n] # 0)
    /\ aged' = [aged EXCEPT ![n] = @ + 1]
    /\ UNCHANGED <<phase, born, scripts, undeleted, listed>>

-----------------------------------------------------------------------------
(* Brownie; a dry run deletes nothing and is not modelled *)

\* The job starts with a list of the namespaces and their creation times.
List ==
    /\ \A n \in Namespace : listed[n] = 0
    /\ listed' = [n \in Namespace |-> IF phase[n] = "absent" THEN 0 ELSE born[n]]
    /\ UNCHANGED <<phase, born, aged, scripts, undeleted>>

\* Mutants: the comparison with the retention period is missing, or reversed.
ExamineAnyAge(n) ==
    /\ listed[n] # 0
    /\ Delete(n)
    /\ listed' = [listed EXCEPT ![n] = 0]
    /\ UNCHANGED <<born, aged, scripts, undeleted>>
ExamineYoung(n) ==
    /\ listed[n] # 0
    /\ IF aged[n] >= listed[n] THEN UNCHANGED phase ELSE Delete(n)
    /\ listed' = [listed EXCEPT ![n] = 0]
    /\ UNCHANGED <<born, aged, scripts, undeleted>>

\* What counts is the creation time on the list; what is deleted is the
\* namespace that has the name now.
Examine(n) ==
    /\ listed[n] # 0
    /\ IF aged[n] >= listed[n] THEN Delete(n) ELSE UNCHANGED phase
    /\ listed' = [listed EXCEPT ![n] = 0]
    /\ UNCHANGED <<born, aged, scripts, undeleted>>

Brownie == List \/ \E n \in Namespace : Examine(n)
=============================================================================
