----------------------- MODULE ResourceCleaningProofs -----------------------
(***************************************************************************)
(* Proofs about ResourceCleaning, for any servers, names and retention     *)
(* period: types, and that the job deletes nothing that is not due.        *)
(***************************************************************************)
EXTENDS ResourceCleaning, TLAPS

\* What the job has asked a server to delete was due when it was evaluated, and
\* remains so: a stamp does not change and the clock does not go back.
VictimIsDue == \A r \in victim : r \in Resource /\ born[r] # Unborn /\ Due(r) /\ ~dryRun

\* The list holds only what was there once.
FoundWasBorn == \A r \in found : born[r] # Unborn

Inv == TypeOK /\ VictimIsDue /\ FoundWasBorn

LEMMA Places ==
    /\ Len(Module) \in Nat \ {0} /\ \A i \in 1 .. Len(Module) : Module[i] \in Server
<1>1. \A kind \in DOMAIN Ids : Ids[kind] \in Seq(Server)
  <2>1. ASSUME NEW kind \in DOMAIN Ids PROVE ServersOf(kind) \subseteq Server
    BY DEF Server
  <2> HIDE DEF Server
  <2> QED
    BY <2>1, ResourceCleaningAssumption
<1> HIDE DEF Server
<1>2. Module \in Seq(Server)
  BY <1>1, ResourceCleaningAssumption DEF Module
<1>3. Len(Module) > 0
  BY ResourceCleaningAssumption
<1> QED
  BY <1>2, <1>3

LEMMA Ages ==
    ASSUME TypeOK, NEW r \in Resource, born[r] # Unborn
    PROVE  born[r] \in Int /\ clock \in Int /\ Age(r) \in Int
BY ResourceCleaningAssumption DEF TypeOK, Unborn, Age

\* Leaving a module for the next one, or the job.
LEMMA NextModuleType ==
    ASSUME TypeOK, NextModule \/ EndJob
    PROVE  pc' \in {"idle", "connecting"} /\ at' \in 1 .. Len(Module)
BY Places DEF TypeOK, NextModule, EndJob

LEMMA InitInv == ASSUME Init PROVE Inv
BY Places, ResourceCleaningAssumption
   DEF Init, Inv, TypeOK, VictimIsDue, FoundWasBorn, Unborn

\* Whoever is due stays due, as long as stamps stay and time goes on.
LEMMA DueStays ==
    ASSUME TypeOK, NEW r \in Resource, born[r] # Unborn, Due(r),
           born'[r] = born[r], clock' \in Nat, clock <= clock'
    PROVE  Due(r)'
BY Ages, ResourceCleaningAssumption DEF Due, Age

\* What the evaluation does not spare is due.
LEMMA EvaluateIsDue ==
    ASSUME TypeOK, NEW r \in Resource, born[r] # Unborn, Naming[r] # "leftOut",
           Evaluate(r) \notin {"SKIP", "RETAIN"}
    PROVE  Due(r)
BY Ages, ResourceCleaningAssumption DEF Evaluate, Due

LEMMA QuietWorld == ASSUME UNCHANGED world, Inv, NEW r \in Resource, Due(r) PROVE Due(r)'
BY DEF world, Due, Age

LEMMA WorldKeeps ==
    ASSUME Inv, World
    PROVE  /\ clock' \in 0 .. MaxTime /\ clock <= clock'
           /\ born' \in [Resource -> {Unborn} \cup 0 .. MaxTime]
           /\ \A r \in Resource : born[r] # Unborn => born'[r] = born[r]
           /\ here' \subseteq {r \in Resource : born'[r] # Unborn} /\ up' \subseteq Server
<1>1. CASE Tick
  BY <1>1, ResourceCleaningAssumption DEF Inv, TypeOK, Tick
<1>2. CASE \E r \in Resource : Create(r)
  BY <1>2, ResourceCleaningAssumption DEF Inv, TypeOK, Create, Unborn
<1>3. CASE \E r \in Resource : Drop(r)
  BY <1>3 DEF Inv, TypeOK, Drop
<1>4. CASE \E s \in Server : ServerFails(s) \/ ServerReturns(s)
  BY <1>4 DEF Inv, TypeOK, ServerFails, ServerReturns
<1> QED
  BY <1>1, <1>2, <1>3, <1>4 DEF World

LEMMA WorldSafe == ASSUME Inv, World PROVE Inv'
<1>1. UNCHANGED <<pc, at, found, victim, kills, dryRun>>
  BY DEF World, job
<1>2. TypeOK'
  BY <1>1, WorldKeeps DEF Inv, TypeOK
<1>3. VictimIsDue'
  <2>1. ASSUME NEW r \in victim
        PROVE  r \in Resource /\ born'[r] # Unborn /\ Due(r)' /\ ~dryRun
    BY <2>1, WorldKeeps, DueStays, ResourceCleaningAssumption DEF Inv, VictimIsDue
  <2> QED
    BY <1>1, <2>1 DEF VictimIsDue
<1>4. FoundWasBorn'
  BY <1>1, WorldKeeps DEF Inv, FoundWasBorn, TypeOK
<1> QED
  BY <1>2, <1>3, <1>4 DEF Inv

\* Steps of the job that leave the world alone, but for what is there.
JobQuiet == UNCHANGED <<clock, born, up, kills, dryRun>> /\ here' \subseteq here

\* What they must see to.
JobFits ==
    /\ pc' \in {"idle", "connecting", "cleaning"} /\ at' \in 1 .. Len(Module)
    /\ \A r \in found' : /\ r \in Resource /\ Home[r] = Module[at'] /\ Naming[r] # "leftOut"
                         /\ born[r] # Unborn
    /\ \A r \in victim' : /\ r \in Resource \ found' /\ victim' = {r}
                          /\ born[r] # Unborn /\ Due(r) /\ ~dryRun
    /\ pc' # "cleaning" => found' = {} /\ victim' = {}

LEMMA JobKeeps == ASSUME Inv, JobQuiet, JobFits PROVE Inv'
<1>1. TypeOK'
  BY DEF Inv, TypeOK, JobQuiet, JobFits
<1>2. VictimIsDue' /\ FoundWasBorn'
  BY DEF VictimIsDue, FoundWasBorn, JobQuiet, JobFits, Due, Age
<1> QED
  BY <1>1, <1>2 DEF Inv

\* The job as it is fits.
LEMMA JobFitsNow ==
    ASSUME Inv
    PROVE  /\ pc \in {"idle", "connecting", "cleaning"} /\ at \in 1 .. Len(Module)
           /\ \A r \in found : /\ r \in Resource /\ Home[r] = Module[at] /\ Naming[r] # "leftOut"
                               /\ born[r] # Unborn
           /\ \A r \in victim : /\ r \in Resource \ found /\ victim = {r}
                                /\ born[r] # Unborn /\ Due(r) /\ ~dryRun
           /\ pc # "cleaning" => found = {} /\ victim = {}
BY DEF Inv, TypeOK, VictimIsDue, FoundWasBorn

LEMMA JobSafe == ASSUME Inv, Job \/ Killed PROVE Inv'
<1>1. CASE StartJob
  <2>1. JobFits
    BY <1>1, JobFitsNow DEF StartJob, JobFits
  <2> QED
    BY <1>1, <2>1, JobKeeps DEF StartJob, JobQuiet, world
<1>2. CASE Connect
  <2>1. \A r \in List(Module[at]) : /\ r \in Resource /\ Home[r] = Module[at]
                                   /\ Naming[r] # "leftOut" /\ born[r] # Unborn
    BY DEF Inv, TypeOK, List
  <2>2. victim = {} /\ victim' = {} /\ at' = at /\ pc' = "cleaning" /\ found' = List(Module[at])
    BY <1>2, JobFitsNow DEF Connect
  <2>3. JobFits
    BY <2>1, <2>2, JobFitsNow DEF JobFits
  <2> QED
    BY <1>2, <2>3, JobKeeps DEF Connect, JobQuiet, world
<1>3. CASE ConnectFails \/ EndModule \/ Killed
  <2>1. /\ NextModule \/ EndJob
        /\ found' = {} /\ victim' = {} /\ UNCHANGED <<clock, born, up, dryRun, here>>
    BY <1>3, JobFitsNow DEF ConnectFails, EndModule, Killed, world
  <2>2. Inv /\ JobFits
    BY <2>1, NextModuleType DEF Inv, JobFits
  <2>3. kills' \in 0 .. MaxKills
    BY <1>3, ResourceCleaningAssumption DEF Inv, TypeOK, ConnectFails, EndModule, Killed
  <2>4. TypeOK'
    BY <2>1, <2>2, <2>3 DEF Inv, TypeOK, JobFits
  <2> QED
    BY <2>1, <2>4 DEF Inv, VictimIsDue, FoundWasBorn
<1>4. ASSUME NEW r \in Resource, Skip(r) PROVE Inv'
  <2>1. JobFits
    BY <1>4, JobFitsNow DEF Skip, JobFits
  <2> QED
    BY <1>4, <2>1, JobKeeps DEF Skip, JobQuiet, world
<1>5. ASSUME NEW r \in Resource, AskDelete(r) PROVE Inv'
  <2>1. /\ r \in found /\ Naming[r] # "leftOut" /\ born[r] # Unborn /\ Due(r)
        /\ found' = found \ {r} /\ (victim' = {} \/ (victim' = {r} /\ ~dryRun)) /\ pc = "cleaning"
        /\ UNCHANGED <<pc, at>>
    BY <1>5, JobFitsNow, EvaluateIsDue DEF AskDelete, Inv
  <2>2. JobFits
    BY <2>1, JobFitsNow DEF JobFits
  <2> QED
    BY <1>5, <2>2, JobKeeps DEF AskDelete, JobQuiet, world
<1>6. ASSUME NEW r \in Resource, Deleted(r) \/ NotDeleted(r) PROVE Inv'
  <2>1. JobFits
    BY <1>6, JobFitsNow DEF Deleted, NotDeleted, JobFits
  <2> QED
    BY <1>6, <2>1, JobKeeps DEF Deleted, NotDeleted, JobQuiet, world
<1> QED
  BY <1>1, <1>2, <1>3, <1>4, <1>5, <1>6 DEF Job

-----------------------------------------------------------------------------
LEMMA InvIsInductive == ASSUME Inv, [Next]_vars PROVE Inv'
<1>1. CASE UNCHANGED vars
  BY <1>1 DEF vars, world, job, Inv, TypeOK, VictimIsDue, FoundWasBorn, Due, Age
<1> QED
  BY <1>1, WorldSafe, JobSafe DEF Next

\* The clock, the servers and the job's variables have the types of the code, and
\* the job asks for one deletion at a time, of nothing that is still on its list.
THEOREM CleaningTypeCorrect == Spec => []TypeOK
<1>1. Inv => TypeOK
  BY DEF Inv
<1> QED
  BY <1>1, InitInv, InvIsInductive, PTL DEF Spec

\* clean deletes nothing that is younger than the retention period, or that it
\* cannot have taken for a resource of a test, and a dry run deletes nothing: not
\* even when the clock, the tests or the servers move between the evaluation and
\* the deletion.
THEOREM OnlyDueIsDeleted == Spec => OnlyWhatIsDue
<1>1. Inv => \A r \in victim \ victim' : r \in here \ here' => Due(r) /\ ~dryRun
  BY DEF Inv, VictimIsDue
<1> QED
  BY <1>1, InitInv, InvIsInductive, PTL DEF Spec, OnlyWhatIsDue
=============================================================================
