-------------------------- MODULE ResourceCleaning --------------------------
(***************************************************************************)
(* Brownie's job for databases, topics and indices: main (brownie/src/     *)
(* index.ts) and clean of modules/pg, modules/kafka and modules/           *)
(* elasticsearch, with evaluateResource (utils.ts).  The cluster runs the  *)
(* job again and again, one at a time; tests create the resources and drop *)
(* them while it is at work, and servers come and go.                      *)
(***************************************************************************)
EXTENDS Integers, Sequences

CONSTANTS Ids,          \* the servers of each kind of module, in the order of the settings
          Resource,     \* names
          Home,         \* the server of each
          Naming,       \* what the name holds: a stamp, an impossible one, or none;
                        \* or it is one the module's query leaves out
          Retention,
          MaxTime, MaxKills

ServersOf(kind) == {Ids[kind][i] : i \in DOMAIN Ids[kind]}
Server == UNION {ServersOf(kind) : kind \in DOMAIN Ids}
Module == Ids["postgres"] \o Ids["kafka"] \o Ids["elasticsearch"]

ASSUME ResourceCleaningAssumption ==
    /\ DOMAIN Ids = {"postgres", "kafka", "elasticsearch"}
    /\ \A kind \in DOMAIN Ids : Ids[kind] \in Seq(ServersOf(kind))
    /\ \A k1, k2 \in DOMAIN Ids : k1 # k2 => ServersOf(k1) \cap ServersOf(k2) = {}
    /\ Len(Module) > 0
    /\ Home \in [Resource -> Server]
    /\ Naming \in [Resource -> {"stamp", "impossible", "none", "leftOut"}]
    /\ Retention \in Nat /\ MaxTime \in Nat /\ MaxKills \in Nat

VARIABLES
    clock, kills,
    born,       \* when a resource was created, which is what its stamp says
    here,       \* resources that exist
    up,         \* servers that can be reached
    dryRun,
    pc,         \* what the job is doing
    at,         \* the module it has come to
    found,      \* resources of the list it has not looked at
    victim      \* those among them, one at most, whose deletion it has asked for

world == <<clock, born, here, up>>
job == <<pc, at, found, victim>>
vars == <<world, job, kills, dryRun>>

Unborn == -1

TypeOK ==
    /\ clock \in 0 .. MaxTime /\ kills \in 0 .. MaxKills /\ dryRun \in BOOLEAN
    /\ born \in [Resource -> {Unborn} \cup 0 .. MaxTime]
    /\ here \subseteq {r \in Resource : born[r] # Unborn} /\ up \subseteq Server
    /\ pc \in {"idle", "connecting", "cleaning"} /\ at \in 1 .. Len(Module)
    /\ found \subseteq {r \in Resource : Home[r] = Module[at] /\ Naming[r] # "leftOut"}
    /\ \A r \in victim : r \in Resource \ found /\ victim = {r}
    /\ pc # "cleaning" => found = {} /\ victim = {}

Init ==
    /\ clock = 0 /\ kills = 0 /\ dryRun \in BOOLEAN
    /\ born = [r \in Resource |-> Unborn] /\ here = {} /\ up = Server
    /\ pc = "idle" /\ at = 1 /\ found = {} /\ victim = {}

Age(r) == clock - born[r]

-----------------------------------------------------------------------------
(* The job *)

\* Mutant: a resource as old as the retention period is taken for older.
EvaluateEarly(r) ==
    CASE Naming[r] = "none" -> "SKIP"
      [] Naming[r] = "stamp" /\ Age(r) < Retention -> "RETAIN"
      [] Naming[r] = "stamp" /\ Age(r) >= Retention -> "CLEAN"
      [] OTHER -> "error"

\* evaluateResource; an impossible stamp makes it throw.
Evaluate(r) ==
    CASE Naming[r] = "none" -> "SKIP"
      [] Naming[r] = "stamp" /\ Age(r) <= Retention -> "RETAIN"
      [] Naming[r] = "stamp" /\ Age(r) > Retention -> "CLEAN"
      [] OTHER -> "error"

EndJob == pc' = "idle" /\ at' = 1
NextModule ==
    IF at < Len(Module) THEN pc' = "connecting" /\ at' = at + 1 ELSE EndJob

StartJob ==
    /\ pc = "idle" /\ pc' = "connecting"
    /\ UNCHANGED <<world, kills, dryRun, at, found, victim>>

\* The query for databases and the filter for topics leave some names out.
List(s) == {r \in here : Home[r] = s /\ Naming[r] # "leftOut"}

Connect ==
    /\ pc = "connecting" /\ Module[at] \in up
    /\ pc' = "cleaning" /\ found' = List(Module[at])
    /\ UNCHANGED <<world, kills, dryRun, at, victim>>

\* Mutant: no module puts up with a server it cannot reach.
ConnectFailsAlways ==
    /\ pc = "connecting" /\ Module[at] \notin up
    /\ EndJob
    /\ UNCHANGED <<world, kills, dryRun, found, victim>>

\* No connection or no list: the exception leaves main, unless it is the module
\* for indices, which returns.
ConnectFails ==
    /\ pc = "connecting" /\ Module[at] \notin up
    /\ IF Module[at] \in ServersOf("elasticsearch") THEN NextModule ELSE EndJob
    /\ UNCHANGED <<world, kills, dryRun, found, victim>>

Skip(r) ==
    /\ pc = "cleaning" /\ victim = {} /\ r \in found /\ Evaluate(r) \in {"SKIP", "RETAIN"}
    /\ found' = found \ {r}
    /\ UNCHANGED <<world, kills, dryRun, pc, at, victim>>

\* The exception of evaluateResource is caught and the deletion goes ahead.
AskDelete(r) ==
    /\ pc = "cleaning" /\ victim = {} /\ r \in found /\ Evaluate(r) \notin {"SKIP", "RETAIN"}
    /\ found' = found \ {r} /\ victim' = IF dryRun THEN {} ELSE {r}
    /\ UNCHANGED <<world, kills, dryRun, pc, at>>

\* The server deletes it; whether the answer arrives makes no difference.
Deleted(r) ==
    /\ r \in victim /\ Home[r] \in up
    /\ here' = here \ {r} /\ victim' = {}
    /\ UNCHANGED <<clock, born, up, kills, dryRun, pc, at, found>>

\* Refused, because it is in use or gone, or the server cannot be reached.
NotDeleted(r) ==
    /\ r \in victim /\ victim' = {}
    /\ UNCHANGED <<world, kills, dryRun, pc, at, found>>

\* Disconnecting from a kafka server that is gone throws.
EndModule ==
    /\ pc = "cleaning" /\ found = {} /\ victim = {}
    /\ \/ NextModule
       \/ Module[at] \in ServersOf("kafka") \ up /\ EndJob
    /\ UNCHANGED <<world, kills, dryRun, found, victim>>

\* Mutant: the next job goes on with the list of the last one.
KilledKeepsList ==
    /\ pc # "idle" /\ kills < MaxKills
    /\ kills' = kills + 1 /\ EndJob
    /\ UNCHANGED <<world, dryRun, found, victim>>

\* The pod of the job is killed.
Killed ==
    /\ pc # "idle" /\ kills < MaxKills
    /\ kills' = kills + 1 /\ EndJob /\ found' = {} /\ victim' = {}
    /\ UNCHANGED <<world, dryRun>>

-----------------------------------------------------------------------------
(* What happens around it *)

Tick == clock < MaxTime /\ clock' = clock + 1 /\ UNCHANGED <<born, here, up>>

\* A test creates a resource under a name that was never used before.
Create(r) ==
    /\ born[r] = Unborn
    /\ born' = [born EXCEPT ![r] = clock] /\ here' = here \cup {r}
    /\ UNCHANGED <<clock, up>>

\* A test drops it, as it should.
Drop(r) == r \in here /\ here' = here \ {r} /\ UNCHANGED <<clock, born, up>>

ServerFails(s) == s \in up /\ up' = up \ {s} /\ UNCHANGED <<clock, born, here>>
ServerReturns(s) == s \in Server \ up /\ up' = up \cup {s} /\ UNCHANGED <<clock, born, here>>

World ==
    /\ \/ Tick
       \/ \E r \in Resource : Create(r) \/ Drop(r)
       \/ \E s \in Server : ServerFails(s) \/ ServerReturns(s)
    /\ UNCHANGED <<job, kills, dryRun>>

Job ==
    \/ StartJob \/ Connect \/ ConnectFails \/ EndModule
    \/ \E r \in Resource : Skip(r) \/ AskDelete(r) \/ Deleted(r) \/ NotDeleted(r)

Next == Job \/ Killed \/ World

Spec == Init /\ [][Next]_vars

\* The job is started again and again, requests are answered, and no server that
\* can be reached refuses to delete the same resource for ever.
FairSpec == Spec /\ WF_vars(Job) /\ \A r \in Resource : SF_vars(Deleted(r))

-----------------------------------------------------------------------------
(* Properties *)

\* What may go: a resource older than the retention period, and one whose age
\* cannot be told from its name.
Due(r) == Naming[r] = "impossible" \/ (Naming[r] = "stamp" /\ Age(r) > Retention)

\* Between the list, the evaluation and the deletion tests come and go, but the
\* job never deletes a resource that is not due, and none at all in a dry run.
OnlyWhatIsDue ==
    [][\A r \in victim \ victim' : r \in here \ here' => Due(r) /\ ~dryRun]_vars

\* The servers whose failure keeps the job from the resource: its own, and those
\* of the modules for databases and topics that come first.
Needed(r) ==
    {Home[r]} \cup {Module[i] : i \in {j \in DOMAIN Module :
        /\ Module[j] \notin ServersOf("elasticsearch")
        /\ \E k \in DOMAIN Module : j < k /\ Module[k] = Home[r]}}

Stale(r) == r \in here /\ Naming[r] \in {"stamp", "impossible"} /\ Due(r)

\* Nothing stale stays for ever once the servers that matter to it are up for
\* good, whatever becomes of the other ones.
StaleGoes ==
    \A r \in Resource :
        ~dryRun /\ <>[](Needed(r) \subseteq up) => []<>~Stale(r)
=============================================================================
