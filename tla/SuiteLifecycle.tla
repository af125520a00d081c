--------------------------- MODULE SuiteLifecycle ---------------------------
(***************************************************************************)
(* Runs of the deployer from start to exit: main (k8s-deployer/src/        *)
(* index.ts), processTestSuite, deployAll and undeployAll                  *)
(* (test-suite-handler.ts), runAll and runSuite (test-app-client/          *)
(* test-runner.ts), in a cluster they share with other deployers and with  *)
(* Brownie.                                                                *)
(*                                                                         *)
(* An entry of the pitfile stands for one suite when it is local and for   *)
(* the chosen suites of another pitfile when it is remote.  What is        *)
(* deployed into a namespace is left to GraphDeployment, and the lock      *)
(* protocol to SuiteLocking: here a suite holds the lock until it is given *)
(* back or its lease ends.                                                 *)
(***************************************************************************)
EXTENDS Namespaces, Sequences

CONSTANTS Deployer,           \* processes
          Pitfiles,           \* what they are given: the suites of each entry, counted
          Stamp,              \* what each one's names begin with: date or commit
          Locked,             \* suites with a lock section; they name the same lock
          Nobody,
          MaxTechFailures,    \* polls that may fail in a row
          EnableCleanups

Suites(f) == UNION {UNION {{<<d, i, j>> : j \in 1 .. f[d][i]} : i \in DOMAIN f[d]} : d \in Deployer}
Suite == UNION {Suites(f) : f \in Pitfiles}

\* generateNamespaceName.
NamespaceName(s) == <<Stamp[s[1]], s[2], s[3]>>

ASSUME SuiteLifecycleAssumption ==
    /\ \A s \in Suite : NamespaceName(s) \in Namespace
    /\ Deployer = Client /\ Nobody \notin Suite
    /\ \A f \in Pitfiles : \A d \in Deployer : f[d] \in Seq(Nat) /\ Len(f[d]) > 0
    /\ Locked \subseteq Suite
    /\ MaxTechFailures \in Nat \ {0} /\ EnableCleanups \in BOOLEAN

VARIABLES
    entries,    \* the pitfile of each deployer
    pc,         \* what each deployer is doing
    at,         \* the entry and the suite of it that the loops have come to
    failures,   \* polls that failed in a row
    holder,     \* the suite that has the lock
    beating,    \* deployers whose heartbeat prolongs the lock of their suite
    lost,       \* deployers whose lock ended under the test
    tested      \* suites that runAll is through with

lockVars == <<holder, beating, lost>>
testVars == <<failures, lockVars, tested>>
vars == <<nsVars, entries, pc, at, testVars>>

Testing == {"starting", "polling", "timeout", "reporting", "passed", "erred"}
Ended == {"done", "failed"}

TypeOK ==
    /\ NamespacesTypeOK /\ entries \in Pitfiles
    /\ pc \in [Deployer -> Testing \cup Ended \cup
                  {"validating", "deployAll", "creating", "deploying", "runAll", "storing",
                   "undeployAll", "deleting"}]
    /\ at \in [Deployer -> [entry : Nat, suite : Nat]]
    /\ \A d \in Deployer :
          /\ at[d].entry \in DOMAIN entries[d]
          /\ at[d].suite \in 1 .. entries[d][at[d].entry] + 1
    /\ failures \in [Deployer -> 0 .. MaxTechFailures - 1]
    /\ holder \in Suite \cup {Nobody} /\ beating \subseteq Deployer /\ lost \subseteq Deployer
    /\ tested \subseteq Suite

Init ==
    /\ NamespacesInit /\ entries \in Pitfiles
    /\ pc = [d \in Deployer |-> "validating"]
    /\ at = [d \in Deployer |-> [entry |-> 1, suite |-> 1]]
    /\ failures = [d \in Deployer |-> 0]
    /\ holder = Nobody /\ beating = {} /\ lost = {}
    /\ tested = {}

SuitesOf(d) == {s \in Suites(entries) : s[1] = d}
Current(d) == <<d, at[d].entry, at[d].suite>>
MoreSuites(d) == at[d].suite <= entries[d][at[d].entry]
MoreEntries(d) == at[d].entry < Len(entries[d])

GoTo(d, where) == pc' = [pc EXCEPT ![d] = where]
NextSuite(d) == at' = [at EXCEPT ![d] = [entry |-> @.entry, suite |-> @.suite + 1]]
FirstSuite(d) == at' = [at EXCEPT ![d] = [entry |-> @.entry, suite |-> 1]]
NextEntry(d) == at' = [at EXCEPT ![d] = [entry |-> @.entry + 1, suite |-> 1]]
FirstEntry(d) == at' = [at EXCEPT ![d] = [entry |-> 1, suite |-> 1]]

Launch(d, action) ==
    scripts' = scripts \cup {[client |-> d, action |-> action, name |-> NamespaceName(Current(d))]}
Waits(d) == \E x \in scripts : x.client = d

-----------------------------------------------------------------------------
(* main and deployAll *)

Validated(d) ==
    /\ pc[d] = "validating"
    /\ GoTo(d, "deployAll")
    /\ UNCHANGED <<nsVars, at, testVars>>

DeploySuite(d) ==
    /\ pc[d] = "deployAll" /\ MoreSuites(d)
    /\ GoTo(d, "creating") /\ Launch(d, "create")
    /\ UNCHANGED <<phase, born, aged, undeleted, listed, at, testVars>>

NamespaceCreated(d) ==
    /\ pc[d] = "creating" /\ ~Waits(d)
    /\ GoTo(d, "deploying")
    /\ UNCHANGED <<nsVars, at, testVars>>

\* The lock manager and the graph are up.
GraphDeployed(d) ==
    /\ pc[d] = "deploying"
    /\ GoTo(d, "deployAll") /\ NextSuite(d)
    /\ UNCHANGED <<nsVars, testVars>>

AllDeployed(d) ==
    /\ pc[d] = "deployAll" /\ ~MoreSuites(d)
    /\ GoTo(d, "runAll") /\ FirstSuite(d)
    /\ UNCHANGED <<nsVars, testVars>>

-----------------------------------------------------------------------------
(* runAll and runSuite *)

\* runAll turns to the next suite.
Through(d) == GoTo(d, "runAll") /\ tested' = tested \cup {Current(d)} /\ NextSuite(d)

Lock(d) ==
    /\ pc[d] = "runAll" /\ MoreSuites(d)
    /\ IF Current(d) \in Locked
       THEN holder = Nobody /\ holder' = Current(d) /\ beating' = beating \cup {d}
       ELSE UNCHANGED <<holder, beating>>
    /\ GoTo(d, "starting")
    /\ UNCHANGED <<nsVars, at, failures, lost, tested>>

\* lock() throws.  What it had acquired it gives back and stops the heartbeat, but
\* the release may fail, too; and when only the answer is lost, nothing is given back.
LockFails(d) ==
    /\ pc[d] = "runAll" /\ MoreSuites(d) /\ Current(d) \in Locked
    /\ UNCHANGED holder \/ (holder = Nobody /\ holder' = Current(d))
    /\ Through(d)
    /\ UNCHANGED <<nsVars, failures, beating, lost>>

\* POST /start succeeds, or fails, or only its answer is lost; the sessions of the test
\* application are the matter of TestSessions.
Start(d) ==
    /\ pc[d] = "starting"
    /\ GoTo(d, "polling") \/ GoTo(d, "erred")
    /\ UNCHANGED <<nsVars, at, testVars>>

\* The local variable of waitUntilFinish goes with it.
EndWait(d, where) == GoTo(d, where) /\ failures' = [failures EXCEPT ![d] = 0]

\* testTimeoutMs have passed.
TimePasses(d) ==
    /\ pc[d] = "polling" /\ EndWait(d, "timeout")
    /\ UNCHANGED <<nsVars, at, lockVars, tested>>

TimesOut(d) ==
    /\ pc[d] = "timeout" /\ GoTo(d, "erred")
    /\ UNCHANGED <<nsVars, at, testVars>>

\* Mutant: one more failed poll is put up with.
PollFailsOnceMore(d) ==
    /\ pc[d] = "polling"
    /\ IF failures[d] < MaxTechFailures
       THEN failures' = [failures EXCEPT ![d] = @ + 1] /\ UNCHANGED pc
       ELSE EndWait(d, "erred")
    /\ UNCHANGED <<nsVars, at, lockVars, tested>>

PollFails(d) ==
    /\ pc[d] = "polling"
    /\ IF failures[d] + 1 < MaxTechFailures
       THEN failures' = [failures EXCEPT ![d] = @ + 1] /\ UNCHANGED pc
       ELSE EndWait(d, "erred")
    /\ UNCHANGED <<nsVars, at, lockVars, tested>>

\* GET /status is answered: the session is still running, or it is complete, or
\* the answer is an error.
PollAnswered(d) ==
    /\ pc[d] = "polling"
    /\ \E where \in {"polling", "reporting", "erred"} : EndWait(d, where)
    /\ UNCHANGED <<nsVars, at, lockVars, tested>>

GetReport(d) ==
    /\ pc[d] = "reporting"
    /\ GoTo(d, "passed") \/ GoTo(d, "erred")
    /\ UNCHANGED <<nsVars, at, testVars>>

\* The heartbeat stops at once.  The lock goes if the suite still has it, and
\* stays if the request fails, which is only warned of.
Unlock(d) ==
    /\ beating' = beating \ {d} /\ lost' = lost \ {d}
    /\ UNCHANGED holder \/ (holder = Current(d) /\ holder' = Nobody)

\* Mutants: an error skips the release, or the rest of the suites.
ReleaseWhenPassed(d) ==
    /\ \/ pc[d] = "passed" /\ Unlock(d) /\ GoTo(d, "storing") /\ UNCHANGED <<at, tested>>
       \/ pc[d] = "erred" /\ UNCHANGED lockVars /\ Through(d)
    /\ UNCHANGED <<nsVars, failures>>
ReleaseAndLeave(d) ==
    /\ Unlock(d)
    /\ \/ pc[d] = "passed" /\ GoTo(d, "storing") /\ UNCHANGED <<at, tested>>
       \/ /\ pc[d] = "erred" /\ GoTo(d, "runAll") /\ tested' = tested \cup {Current(d)}
          /\ at' = [at EXCEPT ![d].suite = entries[d][at[d].entry] + 1]
    /\ UNCHANGED <<nsVars, failures>>

\* The finally block; then runAll stores the report or logs the error.
Release(d) ==
    /\ Unlock(d)
    /\ \/ pc[d] = "passed" /\ GoTo(d, "storing") /\ UNCHANGED <<at, tested>>
       \/ pc[d] = "erred" /\ Through(d)
    /\ UNCHANGED <<nsVars, failures>>

\* The report is saved and published; what fails there is logged too.
Store(d) ==
    /\ pc[d] = "storing" /\ Through(d)
    /\ UNCHANGED <<nsVars, failures, lockVars>>

TestsDone(d) ==
    /\ pc[d] = "runAll" /\ ~MoreSuites(d)
    /\ IF MoreEntries(d)
       THEN GoTo(d, "deployAll") /\ NextEntry(d)
       ELSE GoTo(d, IF EnableCleanups THEN "undeployAll" ELSE "done") /\ FirstEntry(d)
    /\ UNCHANGED <<nsVars, testVars>>

-----------------------------------------------------------------------------
(* undeployAll *)

\* Lock manager, test app and components are gone; the namespace is next.
Undeployed(d) ==
    /\ pc[d] = "undeployAll" /\ MoreSuites(d)
    /\ GoTo(d, "deleting") /\ Launch(d, "delete")
    /\ UNCHANGED <<phase, born, aged, undeleted, listed, at, testVars>>

\* Mutant: only the first suite of an entry is cleaned up.
NamespaceDeletedFirstOnly(d) ==
    /\ pc[d] = "deleting" /\ ~Waits(d)
    /\ GoTo(d, "undeployAll")
    /\ at' = [at EXCEPT ![d].suite = entries[d][at[d].entry] + 1]
    /\ UNCHANGED <<nsVars, testVars>>

NamespaceDeleted(d) ==
    /\ pc[d] = "deleting" /\ ~Waits(d)
    /\ GoTo(d, "undeployAll") /\ NextSuite(d)
    /\ UNCHANGED <<nsVars, testVars>>

CleanedUpEntry(d) ==
    /\ pc[d] = "undeployAll" /\ ~MoreSuites(d)
    /\ IF MoreEntries(d)
       THEN NextEntry(d) /\ UNCHANGED pc
       ELSE GoTo(d, "done") /\ FirstEntry(d)
    /\ UNCHANGED <<nsVars, testVars>>

-----------------------------------------------------------------------------
(* What happens around the deployers *)

\* A script fails or is given up while it goes on, and the process exits without
\* a cleanup; or someone kills it.  What it knew is gone.
Stop(d) ==
    /\ pc[d] \notin Ended
    /\ EndWait(d, "failed") /\ FirstEntry(d)
    /\ beating' = beating \ {d} /\ lost' = lost \ {d}
    /\ UNCHANGED <<nsVars, holder, tested>>

LockEnds(s) ==
    /\ holder = s /\ holder' = Nobody
    /\ lost' = IF pc[s[1]] \in Testing /\ s = Current(s[1]) THEN lost \cup {s[1]} ELSE lost

\* A lease that nobody prolongs runs out, or the heartbeat comes too late for it.
LeaseEnds(s) ==
    /\ LockEnds(s)
    /\ UNCHANGED <<nsVars, pc, at, failures, beating, tested>>

\* A request of the heartbeat fails for good; it stops and gives the lock back under
\* the test, if it still has it and the release does not fail, too.
HeartbeatGivesUp(d) ==
    /\ d \in beating /\ beating' = beating \ {d}
    /\ UNCHANGED <<holder, lost>> \/ LockEnds(Current(d))
    /\ UNCHANGED <<nsVars, pc, at, failures, tested>>

Progress(d) ==
    \/ Validated(d) \/ DeploySuite(d) \/ NamespaceCreated(d) \/ GraphDeployed(d) \/ AllDeployed(d)
    \/ Lock(d) \/ LockFails(d) \/ Start(d) \/ TimesOut(d) \/ PollFails(d) \/ PollAnswered(d)
    \/ GetReport(d) \/ Release(d) \/ Store(d) \/ TestsDone(d)
    \/ Undeployed(d) \/ NamespaceDeleted(d) \/ CleanedUpEntry(d)

Cluster ==
    \/ /\ \/ \E x \in scripts : CreateNamespace(x) \/ DeleteNamespace(x)
          \/ \E n \in Namespace : GrowOld(n) \/ Terminate(n)
       /\ UNCHANGED <<pc, at, testVars>>
    \/ \E d \in Deployer : TimePasses(d)

CleanupJob == Brownie /\ UNCHANGED <<pc, at, testVars>>

Step ==
    \/ \E d \in Deployer : Progress(d) \/ Stop(d) \/ HeartbeatGivesUp(d)
    \/ Cluster \/ CleanupJob
    \/ \E s \in Suite : LeaseEnds(s)

Next == Step /\ UNCHANGED entries

Spec == Init /\ [][Next]_vars

\* Scripts end, namespaces grow old and go, and the cleanup job is run again and
\* again.  Of the deployers nothing is assumed: they may hang.
FairSpec ==
    Spec /\ WF_vars(Cluster /\ UNCHANGED entries) /\ WF_vars(CleanupJob /\ UNCHANGED entries)

-----------------------------------------------------------------------------
(* Properties *)

\* A run that ends well has tested every suite: a test that fails, times out or
\* finds its lock refused does not keep the others from being run.
EverySuiteTested ==
    \A d \in Deployer : pc[d] \in {"undeployAll", "deleting", "done"} =>
        SuitesOf(d) \subseteq tested

AwaitsLocked(d) == pc[d] \in Testing /\ Current(d) \in Locked

\* While a deployer awaits a test that needs the lock, the suite has the lock unless
\* its lease or its heartbeat failed it: no other deployer takes it or gives it back,
\* however late it releases what it has lost itself.  And the lock is prolonged not a
\* step longer than the test is awaited, whichever way the test ended and even if the
\* release fails: what is left of it then goes with the lease.
LockMatchesTest ==
    \A d \in Deployer :
        /\ AwaitsLocked(d) => holder = Current(d) \/ d \in lost
        /\ d \in beating => AwaitsLocked(d)

\* Suites of several runs may have the same name: of the same commit, or of a day.
Shared(n) ==
    \E s, t \in Suites(entries) : s # t /\ NamespaceName(s) = n /\ NamespaceName(t) = n

\* A run that ends well leaves no namespace behind, but where the deletion failed
\* unnoticed and where another run uses the name, too.
CleanedUp ==
    EnableCleanups => \A d \in Deployer : pc[d] = "done" =>
        \A s \in SuitesOf(d) :
            phase[NamespaceName(s)] = "active" =>
                NamespaceName(s) \in undeleted \/ Shared(NamespaceName(s))

\* The suite whose namespace d is filling or testing.
InUse(d, n) ==
    /\ pc[d] \in Testing \cup {"deploying"}
    /\ n = NamespaceName(Current(d))

\* Nobody deletes a namespace that a deployer is using, unless it is older than the
\* retention period; or another run uses its name, too, and cleans up, or Brownie
\* takes it for an old one that had the name before.
NotDeletedInUse ==
    [][\A d \in Deployer, n \in Namespace :
          InUse(d, n) /\ phase[n] = "active" /\ phase'[n] = "terminating" =>
              \/ aged[n] = born[n]
              \/ /\ Shared(n)
                 /\ \/ \E x \in scripts \ scripts' :
                          x.action = "delete" /\ x.name = n /\ x.client # d
                    \/ listed[n] \in 1 .. aged[n] /\ listed[n] < born[n]]_vars

\* No namespace stays for ever, whatever became of the run that created it.
NothingLeftForEver ==
    \A n \in Namespace : []<>(phase[n] = "absent")
=============================================================================
