# A TLA+ model of the PIT toolkit

The PIT toolkit deploys a graph of components into a temporary Kubernetes
namespace, runs a test suite against it while it holds locks on shared
resources, stores the report and cleans up. This directory holds TLA+ modules
translated from its source, the configurations with which TLC checks them on
small instances, and theorems that the TLA+ proof system TLAPS checks for every
instance. `PROJECT.json` lists runs, mutants, findings, hazards and theorems and
maps each definition to the lines it models. Paths below are relative to the
repository.

Contents: 1 the system, 2 the modules and how they are composed, 3-10 the models
and what their runs show, 11 fairness, 12 proofs, 13 what is only model-checked,
14 what is not modelled, 15 where the code and its documentation disagree.

## 1. The system

### Parts

| Part | State it keeps | Operations | How it talks to the others |
|------|----------------|------------|----------------------------|
| Lock service `lock-manager/src` | table `locks` (id, owner, expiry) in a permanent database, shared by every instance in the cluster | acquire, keepAlive, release | HTTP; each statement is one REPEATABLE READ transaction |
| Lock client `k8s-deployer/src/locks` | handle of the keep-alive job, locks acquired | lock, release, heartbeat; retries in `http-client.ts` | called by the test runner; calls the lock service |
| Dependency resolver `dependency-resolver.ts` | maps of one call | validateDependencies, topologicalSort, reverseTopologicalSort | called by `index.ts` and `test-suite-handler.ts` |
| Suite handler `test-suite-handler.ts` | lists of what was deployed, log tailers | deployGraph, deployLocal, deployRemote, undeployAll, processTestSuite | called by `index.ts`; calls deployer, test runner, `k8s.ts` |
| Deployer `deployer.ts`, `shell-facade.ts` | child processes, log files, reading position | deployApplication with its status check, exec | runs the scripts of components, which answer through markers in their logs |
| Namespaces `k8s.ts`, `scripts/k8s-manage-namespace.sh` | namespaces of the cluster | create, delete | run through exec; shared with other deployers and Brownie |
| Test runner `test-app-client` | elapsed time, consecutive failures | runAll, runSuite, waitUntilFinish, getReport | HTTP to the test application; lock client |
| Main `index.ts` | artefacts per suite | validate, process suites one by one, clean up at the end | everything above |
| Pitfile loader, parameters | none after loading | parse, apply defaults | read once by main |
| Test applications `examples/*/web-api` | test sessions, in memory | start, status, reports, native reports; the test itself in the background | HTTP from the test runners of all deployers that share the namespace |
| Report service | files in the workspace, a branch shared with other pipelines | store, publish to git | called by the test runner; its script may outlive it |
| Brownie, namespaces `brownie/src/k8ns` | a list read at its start | delete namespaces older than the retention period | cron job outside the cluster |
| Brownie, infrastructure `brownie/src/modules` | list of the module it works on | delete old databases, topics and indices | cron job inside the cluster, beside the tests that use them |
| Post test actions `post-test-actions/src` | git tags, chat messages | load and sort reports, tag, post | runs after the deployer, reads its reports |
| Report UI, example services, charts, release scripts | | | not part of the toolkit's logic |

### What is hard, and what makes each part correct

* **Locks.** Concurrent suites, a heartbeat that overlaps `release`, retries of
  calls that did happen, leases that run out while a statement waits for a
  connection, processes that die. Correct: tests that share a resource exclude
  each other; a suite never loses a lease it believes in; nobody waits in a
  circle; leases are not stolen; every `lock()` ends; nothing is left behind.
* **Graphs.** In-degree accounting, a search that overwrites its parent links,
  malformed pitfiles. Correct: exactly the valid graphs are accepted, the cycle
  shown is one, levels respect dependencies and are complete.
* **Deployment of a graph.** Concurrent scripts, partial failure, two flags that
  allow parallelism. Correct: nothing starts before what it needs, nothing is
  removed while it is needed, unflagged components are alone, tests see the
  whole graph, deployment ends.
* **Deployment of one application.** A child process that writes a log while a
  watcher and a polling loop read it; timeouts. Correct: the first marker
  decides, no line is lost, a marker in the file when time is up still counts,
  deployment ends.
* **Lifecycle of a run.** Many early exits, a cleanup at the very end, scripts
  that outlive their timeout, a cleanup job that works from a list, other
  deployers with the same names, requests and deletions that fail unnoticed.
  Correct: every suite is tested, no lock is prolonged after its test however that
  ends, a good run leaves nothing, a bad run leaves nothing for ever, nobody
  deletes a namespace in use; where the code makes an exception, that and nothing
  more.
* **Test sessions.** Several deployers poll one application, answers get lost, it
  restarts and counts sessions from one again, or a test keeps it from answering.
  Correct: a deployer gets the report of its own test, and waits for no test for
  ever.
* **Reports and what follows.** Scripts that go on after they were given up and
  push to a branch others push to; several reports that tag the same commit, or
  the next one when the branch moves;
  calls that throw and git commands whose failure goes unnoticed. Correct: what
  was published stays; the tags of a commit tell its verdict, and no failed
  report is outvoted.
* **Cleaning of databases, topics and indices.** A list that grows old while it
  is worked off, names that tell no age, servers that fail in one module and not
  in the next. Correct: nothing is deleted before its time, nothing stale stays
  for ever.

The complete list of hazards, each at its line, is in `PROJECT.json`.

## 2. The modules

| Modules | About | State |
|---------|-------|-------|
| `LockStorage`, `SuiteLocking`, abstract `ResourceLease`, `SuiteLockingProofs` | locks | checked; all safety properties and the refinement proved |
| `ComponentGraph`, `DependencyValidation`, `DependencyValidationProofs` | validation | checked; all safety properties proved |
| `TopologicalSort`, `GraphDeployment`, abstract `ComponentRollout`, `GraphDeploymentProofs` | deployment of graphs | checked; all safety properties and the refinement proved |
| `ApplicationDeployment`, `ApplicationDeploymentProofs` | one deployment script and its log | checked; all safety properties proved |
| `Namespaces`, `SuiteLifecycle`, `SuiteLifecycleProofs` | whole runs | checked; all invariants proved |
| `TestApplication`, `TestSessions`, `TestSessionsProofs` | the dialogue with test applications | checked; all invariants proved |
| abstract `PostTestActions`, `ReportPublishing`, `ReportPublishingProofs` | reports and what is made of them | checked; all safety properties and the refinement proved |
| `ResourceCleaning`, `ResourceCleaningProofs` | Brownie's other modules | checked; all safety properties proved |

How they are composed:

    ResourceLease <- SuiteLocking -> EXTENDS LockStorage
    ComponentRollout <- GraphDeployment -> EXTENDS TopologicalSort -> EXTENDS ComponentGraph
    DependencyValidation -> EXTENDS ComponentGraph
    SuiteLifecycle -> EXTENDS Namespaces
    TestSessions -> EXTENDS TestApplication
    PostTestActions <- ReportPublishing -> EXTENDS PostTestActions
    ApplicationDeployment, ResourceCleaning

(`A <- B`: B is shown to implement A.) `SuiteLifecycle` treats as single steps
what other modules detail: a lock (`SuiteLocking`), the deployment of a graph
(`GraphDeployment`), a script (`ApplicationDeployment`), the dialogue about one
test (`TestSessions`), the fate of a report (`ReportPublishing`).

What would come next: the selection of remote suites as part of
`SuiteLifecycle`.

Each `MC*` module only gives values to constants. Operators named after an
action with a suffix (`ProcessIntoLevel` beside `Process`) are mutants: plausible
bugs that the checked properties are known to catch. Nothing else refers to them.

## 3. Locks: `LockStorage`, `SuiteLocking`, `ResourceLease`

`LockStorage` is the service with its table. A row is `holder[l]` and `ttl[l]`,
the ticks until its `lockExpiry`. The three statements of `lock-operations.ts`
are `GrantRow`/`RefuseRow`, `RenewRows` and `DeleteRows`. A handler reads its
clock before it waits for a connection of the pool; `age` is the delay between
the two, at most `DbDelay`.

`SuiteLocking` is one run of a suite per owner. `main` says where `runSuite` is;
each owner has the thread `Main` and one thread per heartbeat that `setInterval`
started. `call` is the `HttpClient.invoke` in progress on each thread, with its
attempt number; `net` holds requests the service has not executed yet. A request
that its thread has given up loses its flag `live` and may still be executed.
`Begin`, `Granted`, `Refused`, `AcquireFails` are `lock()`; `TestEnds` and
`ReleaseReturns` the `finally` of `runSuite`; `Heartbeat*` and
`UnhandledRejection` the keep-alive job with its `catch`; `Serve*` the routes.
Faults are counted by `MaxFaults`: a request or an answer lost, a request
abandoned, a process that dies.

| Run | Shows | Bounds |
|-----|-------|--------|
| `locks_timely` | `Exclusive`, `BeliefBacked`, `LeasePromise` | two suites that want the same two locks, at most two faults of any kind, leases of 4 to 6 ticks, `Retries` 3 |
| `locks_async` | `TypeOK`, `NoWaitCycle`, `CleanRelease`, `NoTheft` | the same without any promptness, stale clocks, one fault |
| `locks_live` | `LockCallsEnd` | two suites, one of them without a timeout in its lock section, one lost request or crash |
| `locks_lost_reply` | violation of `LockCallsEnd` | one suite, two locks, one lost answer |
| `locks_killed` | violation of `NotKilledByHeartbeat` | one suite, one lock, no fault |

Why these bounds are enough: two suites and two locks are the least with which
a circular wait and a partly acquired set exist. With two faults and three
attempts the network alone cannot make a call fail for good, which is what
`Exclusive` and `BeliefBacked` need: a client that gives up its heartbeat
releases its locks under the running test, on purpose. `Exclusive` and `BeliefBacked` are claims
about timing, so `locks_timely` assumes promptness (`Timely`: due timers,
answers and heartbeats are handled before the next tick); the other safety
properties need nothing of the kind and `locks_async` assumes nothing. In the
runs at most one heartbeat of a suite is under way at a time (`Beats`), which
when everything is prompt is what the interval amounts to; the proofs cover any
number, as they cover any number of suites, locks and retries. `LockCallsEnd` is checked
without lost answers, since with one it is false (section 15).

## 4. Validation: `ComponentGraph`, `DependencyValidation`

`ComponentGraph` defines a valid graph without an algorithm: every dependency is
declared, and every non-empty group has a member that depends on none of the
group. `DependencyValidation` runs `validateDependencies`: `CheckIds` collects
duplicates, self-references and undeclared ids; the recursion of `dfs` has an
explicit `stack` of frames; `state` and `parent` are the maps of the code;
`FollowParent` is one turn of the loop in `reconstructCyclePath`. A
`dependsOn` is a list, as in the code, which nothing keeps from holding an id
twice; a frame counts how many of its list it has taken (`IsNext`, `AllTaken`).

| Run | Shows | Bounds |
|-----|-------|--------|
| `validation` | `TypeOK`, `Verdict`, `CycleIsReal`, `ValidationEnds` | every graph of three components that may name an undeclared id, every list of three components with duplicate ids; each `dependsOn` any list of up to two ids, the same one twice included, or one of all ids |

`ValidationEnds` makes one exception, `NamedTwice`: with an undeclared id that is
named at two places, by two components or twice by one, the program hangs
(section 15). A declared id that is repeated does no harm.

With three components a cycle may be reached through a tail, a component may be
reached twice, and a search may begin behind, on or before a cycle.

## 5. Graphs: `TopologicalSort`, `GraphDeployment`, `ComponentRollout`

`TopologicalSort` is `topologicalSort`: `Process` takes one component off the
queue and updates the in-degrees, `CompleteLevel` closes a level when as many
components were processed as the queue held when it began. Components are
numbered in the order of the pitfile, so a level that the code sorts by that
order is a set. Duplicate ids are excluded: validation rejects them. So are
repetitions in a `dependsOn`: they count twice in the in-degree and are taken off
twice when their component is processed, which gives the same levels.

`GraphDeployment` is `deployGraph` and the component part of `undeployAll`.
`DeployGroup` is the `Promise.all` over the parallel components of a level,
`DeployNext` the loop over the others, `NextLevel` the loop over levels; with
`testAppParallel` the test app starts at any time. `Ready` is the end of a
deployment script, `Gone` of an undeployment script, `Fail` of either with an
error, after which main exits. A deployment of `Untimed` has a status check without
`timeoutSeconds`, which is repeated as long as it fails (`MayHang`). `undeployAll` sorts the deployed components again
before it reverses the levels; the model walks `levels` backwards, which is the
same because `LevelsAreDepths` determines the levels from the graph alone.

`ComponentRollout` is the promise: a node is deployed when what it needs is ready
or it is flagged as independent, and undeployed when what needs it is removed.
In the refinement `needs` gives the test app every component and `independent`
holds the test app exactly when it is flagged.

| Run | Shows | Bounds |
|-----|-------|--------|
| `graph_deploy` | `TypeOK`, `LevelsAreDepths`, `AllDeployed`, `OneByOne`, `RolloutPromise`, `DeploymentEnds`, `UndeploymentEnds` | all 25 valid graphs of three components, every choice of flags for components and test app, untimed status checks of component 2 and the test app, failures anywhere |

Three components are the least with a diamond-free chain, a fork and a join, and
with a level that has both a group and a chain; the theorems of section 12 cover
every size. `DeploymentEnds` makes the exception that `ApplicationDeployment`
makes for one application: an untimed check may keep the deployment for ever.
The second of three components is in a group, a chain or alone, first or last in
it, in one graph or another.

## 6. One application: `ApplicationDeployment`

The script (`CreateFile`, `Write`), the polling loop (`WaitForFile`, `Poll`,
`Wake`, `Settle`) and the file watcher (`Watch`) run concurrently. A log is a
sequence of lines, each plain text or a marker; the line being written may be
partly in the file, or complete but for its newline, which the code cannot tell
from a finished one. `Read` is `tailLogFile` with its `linesRead` that stays on
the last line. Time is the flag `late`, which may be raised between any two
steps; `iteration` is the counter of `monitorProgress`, folded modulo 3 beyond 6.
`cat` of a file that was opened is taken to succeed.

| Run | Shows | Bounds |
|-----|-------|--------|
| `app_deploy` | `TypeOK`, `OutcomeOfScript`, `OutputComplete`, `NoMarkerMissed`, `DeploymentEnds` | all scripts of up to three lines; status checks with and without `timeoutSeconds` |

`DeploymentEnds` makes one exception: a status check without `timeoutSeconds`
(section 15).

Three lines suffice for text before a marker and a second marker behind it, and
for a read that ends inside any of them.

## 7. The lifecycle: `Namespaces`, `SuiteLifecycle`

`Namespaces` has the namespaces of the cluster, which are absent, active or
terminating, the scripts under way, and Brownie. A name may be used again, so
its incarnations are counted (`born`), and `aged` is how many of them have
reached the retention period. `CreateNamespace` and `DeleteNamespace` are the two
branches of `k8s-manage-namespace.sh`; a deletion may fail, which the script does
not tell (`undeleted` has the names for which it did). `List` and `Examine` are Brownie: it
decides by the creation time on its list and deletes by name.

`SuiteLifecycle` is the program of each deployer. `entries` is its pitfile: how
many suites each entry stands for (one for a local suite, the chosen ones for a
remote entry). `at` is where the loops over entries and suites are. A script is
launched, and the deployer waits for it; `Stop` is every way to end early: a
failure outside `runAll`, a script given up while it goes on, a signal. `runAll`
catches what goes wrong with one suite: `LockFails`, or a test that ends in
`erred`, and goes on with the next one.

`holder` is the suite that has the lock. `SuiteLocking` details the protocol; here
it has every outcome that the deployer cannot rule out. A release may fail and is
only warned of (`Unlock`), and so may the one with which `lock()` gives back what
it had acquired, or the answer to a granted request is lost (`LockFails`): the lock
then stays behind. Any lease may lapse (`LeaseEnds`), and a heartbeat may fail and
give the lock up under the test (`HeartbeatGivesUp`). `beating` has the deployers
whose heartbeat prolongs, `lost` those whose lock ended under the test they await.

The failure of a namespace script after which no namespace exists needs no step
of its own: it is `Stop` with the script still to run.

| Run | Shows | Bounds |
|-----|-------|--------|
| `suite_lifecycle` | `TypeOK`, `EverySuiteTested`, `LockMatchesTest`, `CleanedUp`, `NotDeletedInUse`, `NothingLeftForEver` | two deployers of the same commit with one suite each, which share the name of a namespace; one deployer with a remote entry of which no suite is chosen and one with two suites, one of which needs no lock, beside a deployer without suites |

`LockMatchesTest` says that an awaited test of a suite with locks has its lock
unless the deployer is in `lost`, which also means that nobody else takes or
releases it, however late others release what they had lost; and that no
heartbeat goes on without such a test, so that what a failed release leaves goes
with the lease. It does not say that tests exclude each other: one that a deployer
gave up goes on in the test application (section 15).

`CleanedUp` makes two exceptions, both of the code: the deletion failed unnoticed,
or another suite has the same name (`Shared`), whose run may create the namespace
again. `NotDeletedInUse` allows the deletion of a namespace in use when it is older
than the retention period; and, of a shared name only, by the delete script of the
other run, or by Brownie with a list on which an earlier incarnation, old by then,
had the name. TLC finds each property violated when any one of these exceptions is
left out, so all of them do happen.

`MaxTechFailures` is 2 instead of 12: the property that depends on it
(`failures` stays below it) is about reaching the limit, not its value.

## 8. Test sessions: `TestApplication`, `TestSessions`

`TestApplication` is the web service of both kinds of examples. `sessions[a]` is
the map of sessions; the number of a session is its position, as `++globalSessionId`
gives it out. `PostStart` answers at once and leaves the test to a timer,
`RunTests`. The application of `graph-perf-test-app` (`Blocking`) runs k6 with
`execSync`: while a session of it is running its event loop answers nobody
(`Responsive`). `VerdictOfK6` is `convertFrom` over what `k6-test-runner.sh`
leaves of the measurements; a verdict is all that is kept of a report. `Restart`
is a new pod, which knows no sessions.

`TestSessions` is the part of the test runner that talks to it, one program per
deployer: `Start`, the poll loop (`Ask`, `Answered`, `PollFails`, `AnswerBreaks`,
`TimesOut`), `GetReport`, `Native`, `Store`. A deployer waits in `asked` for the
answer to its request, during which the timeout may pass without effect. Every
error leads to the next suite (`Through`), as `runAll` catches it.

| Run | Shows | Bounds |
|-----|-------|--------|
| `test_sessions` | `TypeOK`, `OwnReport`, `EveryWaitEnds` | two deployers in the same application with k6, one of them with a second suite in another application, one restart, measurements for every branch of the conversion, `MaxTechFailures` 2 |

The restart is what `OwnReport` excludes: with it a deployer may be given the
report of another's test, because numbers are given out again. `EveryWaitEnds`
excludes a k6 test that does not end, since the status request has no timeout.
Two deployers are the least that can be confused, one restart the least after
which numbers repeat.

## 9. Reports: `PostTestActions`, `ReportPublishing`

`PostTestActions` is the program that runs after the deployer. `TakeReport` is
the loop of `main` over `loadReports`, which puts failed reports last; `Teams`,
`Checkout`, `DeleteTag`, `AddTag` are the modules that process one report, and
`Throws` their exceptions, which `main` logs. The scripts answer for their last
command only: `disturbed` has the reports for which a clone, a checkout, a
listing or a deletion failed unnoticed, and `place` where the commands went
instead. For each report the repository is cloned anew and the ref looked up
again; if it is a `branch`, the commit may be another one each time (`Named`), and
`target` has the one that each report was taken to. `settings` are the parameters;
`short` says that git abbreviates commits to the seven characters that are compared.

`ReportPublishing` puts before it what produces the reports: `runAll` with
`store` (`Store`: the files may be missing or partial, and then nothing is
published) and `publish-report.sh` (`Clone`, `Push`), which goes on when the
deployer has given it up after 60 seconds, beside other pipelines
(`OtherPublishes`). For `PostTestActions` all this is the action `Written`; that
the composition implements `PostSpec` is proved.

| Run | Shows | Bounds |
|-----|-------|--------|
| `publishing` | `TypeOK`, `TagTellsVerdict`, `FailureRefutesPass`, `PublishedForGood` | two suites with any outcome, two commits of a branch with tags of earlier runs (`pass` on the one, none or both on the other), four sets of parameters, one report of another pipeline, failures anywhere |

Two reports are the least with which one can undo what another did; the theorems
cover any number. Both properties speak of each commit and the reports that were
taken to it, in whatever order these came to the two commits; with a ref that does
not move that is one commit and all reports. What they do not say, and what is not
so, is that a failed report takes `pass` from a commit that an earlier report has
tagged before the branch moved (section 15). The four sets of parameters are one
that tags both verdicts on a branch, one that lacks the user git asks for, a dry run, and one that only posts.

## 10. Cleaning: `ResourceCleaning`

The job of Brownie goes through its modules (`Module`, in the order of `main`),
connects to each server (`Connect`, `ConnectFails`), lists what is there and
works off the list: `Evaluate` is `evaluateResource` over what the name of a
resource holds (`Naming`: a stamp, an impossible one, none, or a name the query
leaves out), `AskDelete` and `Deleted` the two ends of a deletion request. Tests
create and drop resources meanwhile, servers fail and return, the pod is killed.

| Run | Shows | Bounds |
|-----|-------|--------|
| `resource_cleaning` | `TypeOK`, `OnlyWhatIsDue`, `StaleGoes` | one kafka and two elasticsearch servers; a topic whose stamp is impossible, one that is left out, an index with a stamp; retention 1, time up to 2, one kill |

Servers of both kinds are needed because only elasticsearch's module survives a
server that fails; `Needed` says for which servers a resource has to wait. The
clock goes one past the retention period, where "older" and "as old as" differ.

## 11. Fairness

* `SuiteLocking`: timers fire, event loops and the service do the work they
  have, a test ends. Nothing obliges a fault, nor the execution of a request
  that was given up.
* `DependencyValidation`: the code is sequential; it goes on.
* `GraphDeployment`: what has begun goes on (`Progress`): `Shell.exec` ends every
  script by a marker or by its timeout, and a status check with `timeoutSeconds`
  ends the repetition. Nothing obliges the end of a check without it (`MayHang`),
  nor undeployment to begin: cleanups may be disabled.
* `ApplicationDeployment`: the deployer's own steps and time. The script may
  stop, its status check may fail for ever and the watcher may stay silent:
  timeouts have to do without them.
* `SuiteLifecycle`: the cluster (scripts end, namespaces grow old and go) and the
  cleanup job, which cron starts again and again and whose deletions are carried
  out. Nothing is assumed of
  deployers: they may hang, and `NothingLeftForEver` holds all the same.
* `TestSessions`: deployers go on with what is answered, and time passes. Of a
  test nothing is assumed, neither that it begins nor that it ends.
* `ResourceCleaning`: the job is started again and again by its schedule and does
  its work (WF); a server that can be reached again and again does not refuse to
  delete the same resource for ever (SF). Nothing is assumed of servers and tests.

`CHECK_DEADLOCK FALSE` appears where the modelled program ends.

## 12. What is proved

TLAPS checks the theorems below for every value of the constants that satisfies
the named assumptions (`<Module>Assumption` in the module that declares the
constants). Four theorems assume more:

* `SuitesExclude` and `BeliefsAreBacked` assume `Prompt`, see below;
* `WholeGraphDeployed` and `RolloutImplemented`, that all graphs are valid, which
  `AcceptedIsDeployable` proves of the graphs that validation accepts.

`SuiteLockingProofs`. The inductive invariant is
`IInv == TypeOK /\ LocksInOrder /\ LiveRequests`. `TypeOK` alone is not
inductive: an answer to a thread that is not awaiting it would break the type of
`call`, which `LiveRequests` excludes (one live request per thread, the one it
sent last). `LocksInOrder` says that a suite asks for the least id it does not
have; a circle of waiting suites would then have no suite with the greatest id,
which is `NoCircularWait`. From the invariant: `TypeCorrect`, `NoCircularWait`,
`LeasesNotStolen` (an action property: the only statements that change a holder
are a grant on a lapsed row and a delete of the owner's own rows) and
`LeaseImplemented` (each statement is a step of `ResourceLease`, every other
step a stutter).

`NothingLeftBehind` (`CleanRelease`) needs `ReleaseInv`, which says for every
suite: only `lock()` asks for locks, and all requests and rows are for ids the
suite wants (`Tidy`); without a fault no request was given up, so no late acquire
is on the wire (`NoneGivenUp`); and a release is for all ids it wants, after whose
answer it has no row (`Freed`). That covers the heartbeat that meets the release
on the wire: it renews rows, and never makes one.

`BeliefsAreBacked` (`BeliefBacked`) and `SuitesExclude` (`Exclusive`) are about
time and assume `Prompt`: what is due is done before the next tick (`Timely`),
every lock section names its timeout, fewer requests and answers are lost than a
call has attempts, and for every lease of a lock section the interval of the
heartbeat, the ticks that lost requests can cost and the delay of the service's
clock add up to no more than the lease. The constants of `locks_timely` satisfy
it: `MCSuiteLocking` assumes so and TLC evaluates that on each run. Without the
hypothesis both are false, and the system promises neither: a lease is a lease.
The invariant `Kept` says of each suite at work: it has sent no release, its job
runs at the pace of one of its leases, and a heartbeat renews all ids it wants and
has made an attempt for each fault and at most one more (`Sound`); a lock just
granted has a fresh lease (`JustGranted`); and each lock it believes in is its
row, with a lease that outlasts what is left to do before the next renewal, a tick
for each fault that may still come included (`Backed`, `Covered`). `Awaited`
(whoever waits for an answer has a request in flight) holds whatever the constants
are.

`DependencyValidationProofs`. The invariant `DVInv` is about the depth-first
search with its stack made explicit. For the ids on the stack `parent` points to
the caller (`Callers`), for all others along an edge (`EdgesOK`): the search
overwrites the parent of whatever it looks at, but what is on the stack is
`visiting`, and looking at that ends the search. Whatever a component on the stack
has asked for is visited, undeclared, or the call above it (`Taken`); so what is
visited is closed under dependencies and, as a component joins it only after all
it depends on, has no cycle (`VisitedOK`). When the search ends everything is
visited, and the graph acyclic. When it meets an id being visited there is a way
without repetition from parent to parent that comes back to where it began
(`Trail`), and `path` follows it; the way may end without coming back only when
an undeclared id was asked for before (`Mentioned`), hence at another place, of
the list of another component or of the same list.
From it, for pitfiles of any length: `ValidationTypeCorrect`, `VerdictIsRight`,
`ReportedCycleIsReal`, `ReconstructionGuided` (the loop meets `undefined` only in
the case `NamedTwice`) and `AcceptedIsDeployable` (numbered by position, as
`GraphDeployment` has it, an accepted graph is valid and no dependency is lost).
`ValidationAdvances` is the part of `ValidationEnds` that needs no fairness: each
step of the search starts from a later component, finishes one or looks at a
place of a list for the first time and takes nothing of this back (`Remembered`), and
each turn of the reconstruction adds an id that the path does not have.
The search is not recursive in the model, so no induction over the depth is
needed; the one minimum that is (of several components with one id the last
counts) comes from the well-foundedness of the natural numbers.

`GraphDeploymentProofs`, first part. `SortInv` ties each in-degree to the number of
dependencies not yet processed and the queue to the components without any.
From it `SortLevels` (`LevelsAreDepths` for every finite graph, cyclic or not)
and `SortCompleteness` (in a valid graph the components left out would form a
group in which each depends on another of the group).

`GraphDeploymentProofs`, second part. `DeploymentInv` adds to `SortInv` what the phase and
the current level say about each status: earlier levels ready, later levels
absent, within the level the group before the chain and the chain in order;
during undeployment the same backwards. From it `DeploymentTypeCorrect`,
`NeverBesideAnother` (`OneByOne`) and, assuming that all graphs are valid,
`WholeGraphDeployed` (`AllDeployed`) and `RolloutImplemented` (`RolloutPromise`:
initial states map to initial states, each action to a step of
`ComponentRollout` or a stutter). The assumption is what main establishes for
local suites.

`ApplicationDeploymentProofs`. The invariant says that no line up to `linesRead`
is a marker and all of them were delivered, that at most the line behind them was
delivered too, and that once the outcome is known that line is the first marker
(`LogInv`, `DeliveryInv`, `OutcomeInv`). The reads of the watcher and of the
polling loop are the same operation, so their order does not matter. From it
`DeploymentTypeCorrect`, `OutcomeIsOfScript`, `OutputIsComplete` and
`NoMarkerIsMissed`, for outputs of any length.

`SuiteLifecycleProofs`. The invariant is
`Inv == TypeOK /\ SuitePicked /\ LockMatchesTest`: while a deployer works on
a suite its place is within the pitfile, without which `Current` would mean
nothing. From it `LifecycleTypeCorrect`, `LockFollowsTest` and
`AwaitedTestsExclude`: two awaited tests that need the lock overlap only if the
lock of one of them ended under it. `NoSuiteLeftOut` adds `TestedSoFar`: every
suite that `runAll` has left behind, of earlier entries and of the current one, is
in `tested`. `NothingLeftByARun` adds the same for the cleanup (`CleanedSoFar`) and
what scripts are under way (`ScriptsInv`): a script that comes late after all
would bring a namespace back. `NoneDeletedInUse` adds `UsedOnce`, for the names
that are not shared: such a name does not exist before `deployAll` has picked its
suite, at most one script ever creates it, and so what Brownie has on its list is
the namespace that has the name now. None of them assumes that names differ.

`TestSessionsProofs`. The invariant `OwnSession`: while a deployer asks, the
number it was given is that of a session of its own. It is preserved because no
session is taken away or changes hands without a restart (`Kept`). From it
`SessionsTypeCorrect` and `ReportIsOwn`.

`ReportPublishingProofs`. The composition implements `PostSpec`
(`PublishingImplementsPost`): a step of the run is a `Written` or a stutter,
since post test actions begin when the run has ended. `TagIsVerdict` and
`FailureIsRefutation` are proved of `PostSpec` and carried over; the invariant
says that failed reports come last (`Sorted`), that the tags still to be deleted
are all that the commit of the report has (`ListedAll`), that a failed report has
removed `pass` from its commit (`Refuted`), and that every commit but the one being
tagged has the tag of the reports so far that were taken to it (`Told`). `NothingUnpublished` follows from the guard of `Push`
and the types: what a script cloned is a part of the branch.

`ResourceCleaningProofs`. The invariant: what the job has asked a server to
delete was due when it was evaluated and stays due, because a stamp does not
change and the clock does not go back. From it `CleaningTypeCorrect` and
`OnlyDueIsDeleted`, for any servers, names and retention period.

## 13. What is only model-checked

Liveness: `LockCallsEnd`, `ValidationEnds`, `DeploymentEnds`,
`UndeploymentEnds`, `NothingLeftForEver`, `EveryWaitEnds`, `StaleGoes`. It rests
on fairness, which is beyond TLAPS here. Every invariant and every action
property of a passing run is a theorem.

## 14. What is not modelled

* Pitfile loader and parameters: parsing and defaults, sequential and done before
  anything else.
* Git checkouts, workspace directories, selection of remote suites: sequential
  input and output; the number of suites of an entry is an input of the model.
* Log tailers: child processes that copy logs; nothing depends on them.
* Contents and layout of reports and messages; of a report its verdict is kept.
* The native report's bytes; that it was fetched is a step.
* Sessions of the test application beside locks and namespaces: they are the matter
  of `TestSessions`, and `Start` of `SuiteLifecycle` only succeeds or fails.
* A heartbeat that is under way when its suite releases may prolong the lock once
  more; `SuiteLifecycle` has its job end at once, and `SuiteLocking` the race. A
  release that fails inside the heartbeat is an unhandled rejection, hence `Stop`.
* `MOCK_NS` and the lock manager mock: switches for development, without shared
  state.
* Several parallel status checks that block the one event loop of node: a
  deployment is modelled with a timeout that may pass at any time, not with the
  sum of delays.
* Report UI, example services, charts and release scripts: no logic of the
  toolkit.

## 15. Where code and documentation disagree

Two are runs whose property TLC finds violated; `PROJECT.json` quotes both sides.

* `locks_lost_reply`: the answer to a granted acquire is lost; the retry is
  refused by the caller's own row, which its heartbeat keeps alive
  (`lock-operations.ts:44`).
* `locks_killed`: a heartbeat on its way when the test ends finds no row, fails,
  and the release in its `catch` fails too: an unhandled rejection ends node
  before the remaining suites and the cleanup (`lock-manager.ts:172`).

The others are exceptions that a property of a passing run makes, or facts that
a model has built in, each seen while the code was translated.

* An id that no component declares and that is named at two places, by two
  components or twice in the `dependsOn` of one, makes the reconstruction of the
  cycle run for ever (`dependency-resolver.ts:87`, `:95`, `:205`): the exception
  `NamedTwice` of `ValidationEnds`.
* A status check without `timeoutSeconds` is compared with NaN and has no timeout
  (`deployer.ts:148`), while `README.md:121` says "Defaults to 60 sec": the
  exception of `DeploymentEnds`, of one application and of a graph.
* A deployer that gives up waiting for a test releases the locks while the test
  goes on (`test-runner.ts:246`, `:217`), while `README.md:40` promises that
  "only one test suite will ever run at the same time".
* A release that fails is only warned of (`test-runner.ts:223`), a heartbeat that
  fails gives the lock up under the test (`lock-manager.ts:169`), and a lease may
  lapse: the run goes on, and `LockMatchesTest` says what is left of the promise.
* Runs for the same commit, or on the same day, generate the same names of
  namespaces (`k8s.ts:22`) and share them, while `README.md:62` says "one for
  each test suite": the exception `Shared` of `CleanedUp` and `NotDeletedInUse`.
* The script that deletes a namespace answers DONE whatever the command did
  (`k8s-manage-namespace.sh:166-172`), so that a run that ends well may leave one
  behind: the exception `undeleted` of `CleanedUp`.
* The filter for remote suites compares their ids with the id of the local entry
  (`test-suite-handler.ts:220`), so it takes all of them or none.
* Sessions of a test application are numbered from one again after a restart; a
  deployer that polls an old number gets another's report.
* `k6-test-runner.sh` loses the first measurement (`jq '[inputs]'` after a first
  input was read). One that is left has no duration, so its rate is infinite and
  passes; with none left the report has no scenarios, which counts as not failed.
* A test that ends in an error leaves no report, and the post test actions judge
  the others: the commit may be tagged `pass`.
* An exception of the Teams module skips the tagging of that report
  (`post-test-actions/src/index.ts:88`), so that an old tag stays, although
  `post-test-actions/README.md:67` says the tag is removed "when processing a
  failed report".
* The repository is cloned and the ref looked up for every report
  (`git-tag/core.ts:90-91`). When a branch, as in the example of
  `post-test-actions/README.md:100`, is pushed to between two reports, a failed one
  is taken to the new commit, and the `pass` that an earlier one has set on the
  commit before it stays, with no error and no failed command, although
  `post-test-actions/README.md:67` promises to "remove previously added tag". Hence
  `TagTellsVerdict` and `FailureRefutesPass` speak of each commit by itself.
* Without reports `find-reports.sh` makes `execSync` throw, so the exit code 1 of
  `index.ts:28` is never reached and the process ends with 0. The check that the
  workspace exists (`bootrstrap.ts:25`) tests a promise and always passes.
* `git-co.sh` prints a line `COMMIT_SHA=` even when the clone failed, and
  `git-tags.sh` hides a failed listing or deletion; tags are recognised only
  where git abbreviates commits to seven characters (`git-tag/core.ts:51`).
* A report is pushed once; a push that is refused or takes longer than a minute
  is given up, while `README.md:49` calls reports "stored permanently".
* Brownie deletes what it cannot evaluate: a stamp that is no date makes
  `evaluateResource` throw, and the `catch` falls through to the deletion
  (`pg/implementation.ts:36`). A postgres or kafka server that cannot be reached
  ends the whole job.
