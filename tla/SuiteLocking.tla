--------------------------- MODULE SuiteLocking ----------------------------
(***************************************************************************)
(* Test suites that lock their resources, run and release them:            *)
(* LockManager (k8s-deployer/src/locks/lock-manager.ts) over               *)
(* HttpClient.invoke (locks/http-client.ts), as runSuite                   *)
(* (test-app-client/test-runner.ts) drives it, against LockStorage.        *)
(*                                                                         *)
(* An owner is one run of one suite in a k8s-deployer process: its name    *)
(* holds a fresh uuid, so it locks once.  It has the thread Main (lock(),  *)
(* the test, release()) and one thread for each heartbeat that             *)
(* setInterval has started and that has not returned.  A thread makes one  *)
(* HTTP call at a time and retries it; a request it has given up may still *)
(* be executed later.                                                      *)
(***************************************************************************)
EXTENDS LockStorage, FiniteSets

CONSTANTS
    Wants,              \* Wants[o]: spec.testSuite.lock.ids after cleanupIds
    NoTimeout,          \* owners whose lock section has no timeout
    Retries,            \* lockManagerApiRetries
    KeepAliveInterval,  \* KEEP_ALIVE_INTERVAL
    NetworkAllowance,   \* networkAllowanceMillis
    Beats,              \* heartbeats of an owner that may overlap (bound)
    Faults,             \* kinds of faults that happen
    MaxFaults,          \* how many of them (bound)
    Timely              \* TRUE: timers, heartbeats and answers are not delayed

ASSUME SuiteLockingAssumption ==
    /\ Wants \in [Owner -> (SUBSET LockId) \ {{}}]
    /\ NoTimeout \subseteq Owner
    /\ Retries \in Nat \ {0}
    /\ KeepAliveInterval \in Nat \ {0} /\ NetworkAllowance \in Nat
    /\ Beats \subseteq Nat \ {0}
    /\ Faults \subseteq {"request", "reply", "abandon", "crash"}
    /\ MaxFaults \in Nat /\ Timely \in BOOLEAN

VARIABLES
    main,       \* where runSuite is
    acquired,   \* locksAcquired of lock()
    job,        \* keepAliveJobHandle: never set, ticking, or cleared (never null again)
    period,     \* heartbeatFrequency
    timer,      \* ticks until the next heartbeat
    call,       \* call[o][t]: the HttpClient.invoke in progress on thread t
    net,        \* requests not yet executed by the service
    faults      \* faults so far

clientVars == <<main, acquired, job, period, timer>>
vars == <<storageVars, clientVars, call, net, faults>>

Main == 0
Thread == {Main} \cup Beats

Idle == [op |-> "none", ids |-> {}, attempt |-> 0, at |-> "idle", life |-> 0]

\* `at': awaiting an answer, answered, or between two attempts; `life': how
\* long the lockExpiry of a granted acquire is away.
CallState == [op : {"none", "acquire", "keepAlive", "release"}, ids : SUBSET LockId,
              attempt : 0 .. Retries, life : Ttl,
              at : {"idle", "await", "ok", "refused", "error", "sleep", "wake"}]
Call == {c \in CallState : /\ c.at # "idle" => c.op # "none"
                           /\ c.at \in {"sleep", "wake"} => c.attempt < Retries}

\* `live': the thread still awaits the answer.
Request == [owner : Owner, thread : Thread, op : {"acquire", "keepAlive", "release"},
            ids : SUBSET LockId, age : Age, live : BOOLEAN]

Period == 0 .. KeepAliveInterval

ClientTypeOK ==
    /\ main \in [Owner -> {"idle", "locking", "aborting", "running", "releasing",
                           "done", "failed", "dead", "crashed"}]
    /\ acquired \in [Owner -> SUBSET LockId]
    /\ job \in [Owner -> {"none", "on", "cleared"}]
    /\ period \in [Owner -> Period] /\ timer \in [Owner -> Period]
CallTypeOK == call \in [Owner -> [Thread -> Call]]
NetTypeOK == net \subseteq Request

TypeOK == StorageTypeOK /\ ClientTypeOK /\ CallTypeOK /\ NetTypeOK /\ faults \in 0 .. MaxFaults

Init ==
    /\ StorageInit
    /\ main = [o \in Owner |-> "idle"]
    /\ acquired = [o \in Owner |-> {}]
    /\ job = [o \in Owner |-> "none"]
    /\ period = [o \in Owner |-> 0] /\ timer = [o \in Owner |-> 0]
    /\ call = [o \in Owner |-> [t \in Thread |-> Idle]]
    /\ net = {} /\ faults = 0

-----------------------------------------------------------------------------
(* HttpClient.invoke: up to Retries attempts, RETRY_TIMEOUT (one tick) apart *)

Attempt(o, t, op, ids, n) ==
    /\ call' = [call EXCEPT ![o][t] = [op |-> op, ids |-> ids, attempt |-> n,
                                       at |-> "await", life |-> 0]]
    /\ net' = net \cup {[owner |-> o, thread |-> t, op |-> op, ids |-> ids,
                         age |-> 0, live |-> TRUE]}
Invoke(o, t, op, ids) == Attempt(o, t, op, ids, 1)

Return(o, t) == call' = [call EXCEPT ![o][t] = Idle] /\ UNCHANGED net

Fails(o, t, op) == call[o][t].op = op /\ call[o][t].at = "error" /\ call[o][t].attempt = Retries
Succeeds(o, t, op) == call[o][t].op = op /\ call[o][t].at = "ok"

\* Mutant: one attempt too many.
BackoffOnceMore(o, t) ==
    /\ call[o][t].at = "error" /\ call[o][t].attempt <= Retries
    /\ call' = [call EXCEPT ![o][t] = [@ EXCEPT !.at = "sleep"]]
    /\ UNCHANGED <<storageVars, clientVars, net, faults>>

Backoff(o, t) ==
    /\ call[o][t].at = "error" /\ call[o][t].attempt < Retries
    /\ call' = [call EXCEPT ![o][t] = [@ EXCEPT !.at = "sleep"]]
    /\ UNCHANGED <<storageVars, clientVars, net, faults>>

Retry(o, t) ==
    /\ call[o][t].at = "wake"
    /\ Attempt(o, t, call[o][t].op, call[o][t].ids, call[o][t].attempt + 1)
    /\ UNCHANGED <<storageVars, clientVars, faults>>

-----------------------------------------------------------------------------
(* LockManager.lock(): the ids one after the other, in sorted order *)

First(S) == CHOOSE l \in S : \A m \in S : l <= m

\* Mutant: no fixed order, the first id is left for later while it is taken.
NextIdUnsorted(o, got) ==
    IF holder[First(Wants[o] \ got)] \in {o, NoOwner}
    THEN First(Wants[o] \ got)
    ELSE CHOOSE l \in Wants[o] \ got : \A m \in Wants[o] \ got : m <= l

\* The id to ask for once the ids `got' are acquired.
NextId(o, got) == First(Wants[o] \ got)

\* heartbeatFrequency: the lease less the allowance, but at most the interval.
HeartbeatFrequency(life) ==
    LET span == life - NetworkAllowance
    IN  IF span > 0 /\ span < KeepAliveInterval THEN span ELSE KeepAliveInterval

Begin(o) ==
    /\ main[o] = "idle"
    /\ main' = [main EXCEPT ![o] = "locking"]
    /\ Invoke(o, Main, "acquire", {NextId(o, {})})
    /\ UNCHANGED <<storageVars, acquired, job, period, timer, faults>>

\* Mutant: the lease is ignored, the interval is always the default one.
StartJobByDefault(o, life) ==
    IF job[o] = "none"
    THEN /\ job' = [job EXCEPT ![o] = "on"]
         /\ period' = [period EXCEPT ![o] = KeepAliveInterval]
         /\ timer' = [timer EXCEPT ![o] = KeepAliveInterval]
    ELSE UNCHANGED <<job, period, timer>>

\* startKeepAliveJob, once per LockManager: the handle is never reset.
StartJob(o, life) ==
    IF job[o] = "none"
    THEN /\ job' = [job EXCEPT ![o] = "on"]
         /\ period' = [period EXCEPT ![o] = HeartbeatFrequency(life)]
         /\ timer' = [timer EXCEPT ![o] = HeartbeatFrequency(life)]
    ELSE UNCHANGED <<job, period, timer>>

Granted(o) ==
    /\ main[o] = "locking" /\ Succeeds(o, Main, "acquire")
    /\ StartJob(o, call[o][Main].life)
    /\ LET got == acquired[o] \cup call[o][Main].ids
       IN  /\ acquired' = [acquired EXCEPT ![o] = got]
           /\ IF got = Wants[o]
              THEN main' = [main EXCEPT ![o] = "running"] /\ Return(o, Main)
              ELSE Invoke(o, Main, "acquire", {NextId(o, got)}) /\ UNCHANGED main
    /\ UNCHANGED <<storageVars, faults>>

\* acquired: false.  The loop asks again at once.
Refused(o) ==
    /\ main[o] = "locking" /\ call[o][Main].at = "refused"
    /\ Invoke(o, Main, "acquire", call[o][Main].ids)
    /\ UNCHANGED <<storageVars, clientVars, faults>>

-----------------------------------------------------------------------------
(* LockManager.release() *)

ClearJob(o) ==
    /\ job' = [job EXCEPT ![o] = IF @ = "on" THEN "cleared" ELSE @]
    /\ timer' = [timer EXCEPT ![o] = 0] /\ period' = [period EXCEPT ![o] = 0]

\* lock() gives up: the locks it has so far are released before it throws.
AcquireFails(o) ==
    /\ main[o] = "locking" /\ Fails(o, Main, "acquire")
    /\ IF acquired[o] = {}
       THEN /\ main' = [main EXCEPT ![o] = "failed"] /\ Return(o, Main)
            /\ UNCHANGED <<job, period, timer>>
       ELSE /\ main' = [main EXCEPT ![o] = "aborting"] /\ ClearJob(o)
            /\ Invoke(o, Main, "release", acquired[o])
    /\ UNCHANGED <<storageVars, acquired, faults>>

\* The test finishes, fails or times out: the `finally' of runSuite.
TestEnds(o) ==
    /\ main[o] = "running"
    /\ main' = [main EXCEPT ![o] = "releasing"]
    /\ ClearJob(o)
    /\ Invoke(o, Main, "release", Wants[o])
    /\ UNCHANGED <<storageVars, acquired, faults>>

\* Either caller carries on whether or not the release succeeded.
ReleaseReturns(o) ==
    /\ main[o] \in {"aborting", "releasing"}
    /\ Succeeds(o, Main, "release") \/ Fails(o, Main, "release")
    /\ main' = [main EXCEPT ![o] = IF @ = "aborting" THEN "failed" ELSE "done"]
    /\ Return(o, Main)
    /\ UNCHANGED <<storageVars, acquired, job, period, timer, faults>>

-----------------------------------------------------------------------------
(* The keep-alive job: every `period' ticks a heartbeat for all of lock.ids *)

Due(o) == job[o] = "on" /\ timer[o] = 0

\* keepAliveFetch evaluates lock.timeout.trim() before it calls the service.
Heartbeat(o, t) ==
    /\ Due(o) /\ call[o][t] = Idle
    /\ IF o \in NoTimeout
       THEN ClearJob(o) /\ Invoke(o, t, "release", Wants[o])
       ELSE /\ timer' = [timer EXCEPT ![o] = period[o]]
            /\ Invoke(o, t, "keepAlive", Wants[o])
            /\ UNCHANGED <<job, period>>
    /\ UNCHANGED <<storageVars, main, acquired, faults>>

\* The bound: no heartbeat starts while Cardinality(Beats) of them run.
HeartbeatSkipped(o) ==
    /\ Due(o) /\ \A t \in Beats : call[o][t] # Idle
    /\ timer' = [timer EXCEPT ![o] = period[o]]
    /\ UNCHANGED <<storageVars, main, acquired, job, period, call, net, faults>>

HeartbeatReturns(o, t) ==
    /\ Succeeds(o, t, "keepAlive") \/ Succeeds(o, t, "release")
    /\ Return(o, t)
    /\ UNCHANGED <<storageVars, clientVars, faults>>

\* The job stops and gives every lock back; lock() or the test goes on.
HeartbeatFails(o, t) ==
    /\ Fails(o, t, "keepAlive")
    /\ ClearJob(o)
    /\ Invoke(o, t, "release", Wants[o])
    /\ UNCHANGED <<storageVars, main, acquired, faults>>

\* The process stops; requests it has sent may still be executed.
Stop(o, how) ==
    /\ main' = [main EXCEPT ![o] = how]
    /\ acquired' = [acquired EXCEPT ![o] = {}]
    /\ ClearJob(o)
    /\ call' = [call EXCEPT ![o] = [t \in Thread |-> Idle]]
    /\ net' = {IF m.owner = o THEN [m EXCEPT !.live = FALSE] ELSE m : m \in net}

\* A release that fails inside the interval's callback is an unhandled
\* rejection: node ends the process.
UnhandledRejection(o, t) ==
    /\ Fails(o, t, "release")
    /\ Stop(o, "dead")
    /\ UNCHANGED <<storageVars, faults>>

-----------------------------------------------------------------------------
(* The service executes a request and the answer travels back *)

Answer(m, how, life) ==
    /\ net' = net \ {m}
    /\ call' = IF m.live
               THEN [call EXCEPT ![m.owner][m.thread] = [@ EXCEPT !.at = how, !.life = life]]
               ELSE call

ServeAcquire(m) ==
    /\ m.op = "acquire"
    /\ \E age \in 0 .. m.age, l \in m.ids :
          \/ GrantRow(m.owner, l, age) /\ Answer(m, "ok", Expiry - age)
          \/ RefuseRow(l, age) /\ Answer(m, "refused", 0)

Found(m) == IF OwnRows(m.owner, m.ids) = {} THEN "error" ELSE "ok"

ServeKeepAlive(m) ==
    /\ m.op = "keepAlive"
    /\ \E age \in 0 .. m.age : RenewRows(m.owner, m.ids, age)
    /\ Answer(m, Found(m), 0)

ServeRelease(m) ==
    /\ m.op = "release"
    /\ DeleteRows(m.owner, m.ids)
    /\ Answer(m, Found(m), 0)

Serve(m) ==
    /\ ServeAcquire(m) \/ ServeKeepAlive(m) \/ ServeRelease(m)
    /\ UNCHANGED <<clientVars, faults>>

-----------------------------------------------------------------------------
(* Faults *)

Fault(kind) == kind \in Faults /\ faults < MaxFaults /\ faults' = faults + 1

\* The request does not arrive, or its transaction is rolled back.
RequestLost(m) ==
    /\ Fault("request") /\ m.live
    /\ Answer(m, "error", 0)
    /\ UNCHANGED <<storageVars, clientVars>>

\* The request was executed; its answer does not arrive.
ReplyLost(o, t) ==
    /\ Fault("reply") /\ call[o][t].at \in {"ok", "refused"}
    /\ call' = [call EXCEPT ![o][t] = [@ EXCEPT !.at = "error", !.life = 0]]
    /\ UNCHANGED <<storageVars, clientVars, net>>

\* The connection breaks while the request waits at the service.
Abandoned(m) ==
    /\ Fault("abandon") /\ m.live
    /\ net' = (net \ {m}) \cup {[m EXCEPT !.live = FALSE]}
    /\ call' = [call EXCEPT ![m.owner][m.thread] = [@ EXCEPT !.at = "error"]]
    /\ UNCHANGED <<storageVars, clientVars>>

Crash(o) ==
    /\ Fault("crash") /\ main[o] \in {"locking", "aborting", "running", "releasing"}
    /\ Stop(o, "crashed")
    /\ UNCHANGED storageVars

-----------------------------------------------------------------------------
(* Time *)

\* What a prompt system does before the next tick.  The polls of lock() and
\* the requests of Main may take longer.
Urgent ==
    \/ \E o \in Owner : Due(o)
    \/ \E o \in Owner, t \in Thread : call[o][t].at \in {"ok", "error", "wake"}
    \/ \E m \in net : m.live /\ m.op = "keepAlive"

Later(c) == [c EXCEPT !.at = IF @ = "sleep" THEN "wake" ELSE @,
                      !.life = IF @ > 0 THEN @ - 1 ELSE @]
Older(m) == [m EXCEPT !.age = IF @ < DbDelay THEN @ + 1 ELSE @]

Tick ==
    /\ Timely => ~Urgent
    /\ AgeRows
    /\ timer' = [o \in Owner |-> IF timer[o] > 0 THEN timer[o] - 1 ELSE 0]
    /\ call' = [o \in Owner |-> [t \in Thread |-> Later(call[o][t])]]
    /\ net' = {Older(m) : m \in net}
    /\ UNCHANGED <<main, acquired, job, period, faults>>

Client(o) ==
    \/ Begin(o) \/ Granted(o) \/ Refused(o) \/ AcquireFails(o)
    \/ TestEnds(o) \/ ReleaseReturns(o) \/ HeartbeatSkipped(o)
    \/ \E t \in Thread : Backoff(o, t) \/ Retry(o, t)
    \/ \E t \in Beats : Heartbeat(o, t) \/ HeartbeatReturns(o, t) \/ HeartbeatFails(o, t)
                        \/ UnhandledRejection(o, t)

Service == \E m \in net : Serve(m)

Network ==
    \/ \E m \in net : RequestLost(m) \/ Abandoned(m)
    \/ \E o \in Owner, t \in Thread : ReplyLost(o, t)

Next == Tick \/ Service \/ Network \/ \E o \in Owner : Client(o) \/ Crash(o)

Spec == Init /\ [][Next]_vars

-----------------------------------------------------------------------------
(* Fairness: timers fire, event loops and the service get on with the work *)
(* they have, time passes and a test ends.  Nothing obliges a fault, or a  *)
(* request that was given up to be executed.                               *)

ServeThread(o, t) == \E m \in net : m.owner = o /\ m.thread = t /\ m.live /\ Serve(m)

Fairness ==
    /\ WF_vars(Tick)
    /\ \A o \in Owner :
          /\ WF_vars(Begin(o) \/ Granted(o) \/ Refused(o) \/ AcquireFails(o) \/ TestEnds(o)
                     \/ ReleaseReturns(o))
          /\ WF_vars(HeartbeatSkipped(o) \/ \E t \in Beats : Heartbeat(o, t))
          /\ \A t \in Thread : WF_vars(Backoff(o, t) \/ Retry(o, t)) /\ WF_vars(ServeThread(o, t))
          /\ \A t \in Beats : WF_vars(HeartbeatReturns(o, t) \/ HeartbeatFails(o, t)
                                      \/ UnhandledRejection(o, t))

FairSpec == Spec /\ Fairness

-----------------------------------------------------------------------------
(* Properties *)

\* How far lockExpiry can be when a granted acquire is answered at once.
Leases == (Expiry - DbDelay) .. Expiry

\* A prompt system in which every lock section names a timeout: whichever
\* lease sets the pace of the heartbeat, the beat and one more attempt for
\* every fault (RETRY_TIMEOUT, a tick, later) come before a lease runs out.
\* This relates networkAllowance and the retries to lock.timeout.
Prompt ==
    /\ Timely /\ NoTimeout = {} /\ Beats # {} /\ MaxFaults < Retries
    /\ \A life \in Leases :
          LET late == HeartbeatFrequency(life) + MaxFaults + DbDelay
          IN  late <= Expiry /\ late <= RenewBy

\* Two suites that share a resource never run their tests at the same time
\* (README.md:40 of the toolkit; lock() is awaited before the test starts).
Exclusive ==
    \A o, p \in Owner :
        o # p /\ main[o] = "running" /\ main[p] = "running" => Wants[o] \cap Wants[p] = {}

\* As long as a suite waits for more locks or runs its test, each lock it
\* believes it has is its row in the table, and the lease has not lapsed:
\* the heartbeat comes before the expiry that acquire and keepAlive set.
BeliefBacked ==
    \A o \in Owner : main[o] \in {"locking", "running"} =>
        \A l \in acquired[o] : holder[l] = o /\ ttl[l] >= 0

\* A thread awaits the answer of one request, the one it sent last.
LiveRequests ==
    \A m \in net : m.live =>
        /\ call[m.owner][m.thread].at = "await"
        /\ call[m.owner][m.thread].op = m.op /\ call[m.owner][m.thread].ids = m.ids
        /\ \A n \in net : n.live /\ n.owner = m.owner /\ n.thread = m.thread => n = m

\* lock() takes the ids of its suite in their order: it asks for the least
\* one it does not have, and has only ids below it.
LocksInOrder ==
    \A o \in Owner :
        /\ acquired[o] \subseteq Wants[o]
        /\ \A l \in acquired[o], m \in Wants[o] \ acquired[o] : l < m
        /\ main[o] = "idle" => acquired[o] = {}
        /\ main[o] \in {"idle", "running"} => call[o][Main].op = "none"
        /\ main[o] = "locking" =>
              /\ acquired[o] # Wants[o]
              /\ call[o][Main].op = "acquire"
              /\ call[o][Main].ids = {NextId(o, acquired[o])}

\* lock() waits for an id that another suite's lock() or test has.
WaitsFor(o, p) ==
    /\ main[o] = "locking" /\ main[p] = "locking"
    /\ \E l \in acquired[p] : call[o][Main].op = "acquire" /\ l \in call[o][Main].ids

\* No set of suites waits in a circle, whatever sets of ids they lock: the
\* sort() of cleanupIds orders the resources.
NoWaitCycle ==
    \A S \in SUBSET Owner : S # {} => \E o \in S : \A p \in S : ~WaitsFor(o, p)

\* With no fault so far, a suite that is done has left no row behind, even
\* if a heartbeat was on its way while the locks were released.
CleanRelease ==
    \A o \in Owner : faults = 0 /\ main[o] = "done" => \A l \in LockId : holder[l] # o

\* A lock changes hands only after its lease lapsed or when its holder has
\* asked for its release; leases of suites at work are not taken.
NoTheft ==
    [][\A l \in LockId :
          holder[l] # NoOwner /\ holder'[l] # holder[l] =>
              ttl[l] < 0 \/ \E m \in net : m.op = "release" /\ m.owner = holder[l]]_vars

\* Every lock() call ends: with the locks, with an error or with the process.
LockCallsEnd == \A o \in Owner : main[o] = "locking" ~> main[o] # "locking"

\* The deployer survives its own heartbeats.
NotKilledByHeartbeat == \A o \in Owner : main[o] # "dead"
=============================================================================
