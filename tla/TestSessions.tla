---------------------------- MODULE TestSessions ----------------------------
(***************************************************************************)
(* How deployers get the reports of their tests: runSuite,                 *)
(* waitUntilFinish, getReport and downloadNativeReport (k8s-deployer/src/  *)
(* test-app-client/test-runner.ts) with the test applications they talk    *)
(* to.  Deployers that share a namespace share its application.  Locks and *)
(* deployments are left out, as SuiteLocking and SuiteLifecycle have them; *)
(* what becomes of a report is for ReportPublishing.                       *)
(***************************************************************************)
EXTENDS TestApplication

CONSTANTS Deployer,
          Plan,             \* the test applications of its suites, one after the other
          MaxTechFailures

ASSUME TestSessionsAssumption ==
    /\ Deployer = Caller
    /\ Plan \in [Deployer -> Seq(App)]
    /\ MaxTechFailures \in Nat \ {0}

VARIABLES
    pc,
    at,         \* the suite of the plan
    id,         \* sessionId of waitUntilFinish
    late,       \* testTimeoutMs have passed
    failures,
    got         \* the report, and the deployer whose session it is of

loop == <<at, id, late, failures, got>>
vars == <<appVars, pc, loop>>

NoReport == [verdict |-> "none"]

Current(d) == Plan[d][at[d]]
MoreSuites(d) == at[d] <= Len(Plan[d])

TypeOK ==
    /\ AppTypeOK
    /\ pc \in [Deployer -> {"run", "polling", "asked", "reporting", "native", "storing", "ended"}]
    /\ at \in [Deployer -> Nat \ {0}] /\ id \in [Deployer -> Nat] /\ late \in [Deployer -> BOOLEAN]
    /\ failures \in [Deployer -> 0 .. MaxTechFailures - 1]
    /\ got \in [Deployer -> {NoReport} \cup [verdict : Judgement, by : Deployer]]
    /\ \A d \in Deployer :
          /\ at[d] <= Len(Plan[d]) + 1 /\ (pc[d] \notin {"run", "ended"} => MoreSuites(d))
          /\ (pc[d] \in {"native", "storing"}) = (got[d] # NoReport)

Init ==
    /\ AppInit
    /\ pc = [d \in Deployer |-> "run"] /\ at = [d \in Deployer |-> 1]
    /\ id = [d \in Deployer |-> 0] /\ late = [d \in Deployer |-> FALSE]
    /\ failures = [d \in Deployer |-> 0] /\ got = [d \in Deployer |-> NoReport]

GoTo(d, where) == pc' = [pc EXCEPT ![d] = where]

\* The variables of the loops, as they are when runAll comes to suite n.
Fresh(d, n) ==
    /\ at' = [at EXCEPT ![d] = n] /\ id' = [id EXCEPT ![d] = 0]
    /\ late' = [late EXCEPT ![d] = FALSE] /\ failures' = [failures EXCEPT ![d] = 0]
    /\ got' = [got EXCEPT ![d] = NoReport]

\* runAll turns to the next suite, with the report stored or an error logged.
Through(d) == GoTo(d, "run") /\ Fresh(d, at[d] + 1)

-----------------------------------------------------------------------------
(* runSuite *)

\* POST /start; when the answer is lost the session goes on without a deployer.
Start(d) ==
    /\ pc[d] = "run" /\ MoreSuites(d) /\ PostStart(Current(d), d)
    /\ \/ /\ GoTo(d, "polling") /\ id' = [id EXCEPT ![d] = Len(sessions'[Current(d)])]
          /\ UNCHANGED <<at, late, failures, got>>
       \/ Through(d)

StartFails(d) ==
    /\ pc[d] = "run" /\ MoreSuites(d) /\ Through(d)
    /\ UNCHANGED appVars

\* GET /status, unless time is up.
Ask(d) ==
    /\ pc[d] = "polling" /\ ~late[d]
    /\ GoTo(d, "asked")
    /\ UNCHANGED <<appVars, loop>>

TimesOut(d) ==
    /\ pc[d] = "polling" /\ late[d]
    /\ Through(d)
    /\ UNCHANGED appVars

\* Nothing ends a request that is not answered, however late it is.
TimePasses(d) ==
    /\ pc[d] \in {"polling", "asked"} /\ ~late[d]
    /\ late' = [late EXCEPT ![d] = TRUE]
    /\ UNCHANGED <<appVars, pc, at, id, failures, got>>

StatusIs(d, status) ==
    Answers(Current(d), id[d]) /\ sessions[Current(d)][id[d]].status \in status

\* The answer to a number that means nothing after a restart is an error.
Unknown(d) == Responsive(Current(d)) /\ id[d] \notin DOMAIN sessions[Current(d)]

\* Mutant: the time is measured from the last answer.
AnsweredRestartsTime(d) ==
    /\ pc[d] = "asked"
    /\ \/ /\ StatusIs(d, {"PENDING", "RUNNING"}) /\ GoTo(d, "polling")
          /\ failures' = [failures EXCEPT ![d] = 0] /\ late' = [late EXCEPT ![d] = FALSE]
          /\ UNCHANGED <<at, id, got>>
       \/ /\ StatusIs(d, {"COMPLETED"}) /\ GoTo(d, "reporting")
          /\ failures' = [failures EXCEPT ![d] = 0] /\ late' = [late EXCEPT ![d] = FALSE]
          /\ UNCHANGED <<at, id, got>>
       \/ (StatusIs(d, {"ERROR"}) \/ Unknown(d)) /\ Through(d)
    /\ UNCHANGED appVars

Answered(d) ==
    /\ pc[d] = "asked"
    /\ \/ /\ StatusIs(d, {"PENDING", "RUNNING"}) /\ GoTo(d, "polling")
          /\ failures' = [failures EXCEPT ![d] = 0] /\ UNCHANGED <<at, id, late, got>>
       \/ /\ StatusIs(d, {"COMPLETED"}) /\ GoTo(d, "reporting")
          /\ failures' = [failures EXCEPT ![d] = 0] /\ late' = [late EXCEPT ![d] = FALSE]
          /\ UNCHANGED <<at, id, got>>
       \/ (StatusIs(d, {"ERROR"}) \/ Unknown(d)) /\ Through(d)
    /\ UNCHANGED appVars

\* The request ends without an answer.
PollFails(d) ==
    /\ pc[d] = "asked"
    /\ IF failures[d] + 1 < MaxTechFailures
       THEN /\ GoTo(d, "polling") /\ failures' = [failures EXCEPT ![d] = @ + 1]
            /\ UNCHANGED <<at, id, late, got>>
       ELSE Through(d)
    /\ UNCHANGED appVars

\* An answer that breaks off or is not of the schema.
AnswerBreaks(d) ==
    /\ pc[d] = "asked" /\ Through(d)
    /\ UNCHANGED appVars

\* Mutant: the status in the answer is not looked at.
GetReportUnchecked(d) ==
    /\ pc[d] = "reporting"
    /\ \/ /\ Answers(Current(d), id[d])
          /\ LET session == sessions[Current(d)][id[d]]
             IN got' = [got EXCEPT ![d] = [verdict |-> session.verdict, by |-> session.by]]
          /\ GoTo(d, IF Current(d) \in Blocking THEN "native" ELSE "storing")
          /\ UNCHANGED <<at, id, late, failures>>
       \/ Unknown(d) /\ Through(d)
    /\ UNCHANGED appVars

\* After a restart the number may be that of another session.
GetReport(d) ==
    /\ pc[d] = "reporting"
    /\ \/ /\ StatusIs(d, {"COMPLETED"})
          /\ LET session == sessions[Current(d)][id[d]]
             IN got' = [got EXCEPT ![d] = [verdict |-> session.verdict, by |-> session.by]]
          /\ GoTo(d, IF Current(d) \in Blocking THEN "native" ELSE "storing")
          /\ UNCHANGED <<at, id, late, failures>>
       \/ (StatusIs(d, {"PENDING", "RUNNING", "ERROR"}) \/ Unknown(d)) /\ Through(d)
    /\ UNCHANGED appVars

GetReportFails(d) ==
    /\ pc[d] = "reporting" /\ Through(d)
    /\ UNCHANGED appVars

\* An answer that is an error, or a download that breaks off, is logged.
Native(d) ==
    /\ pc[d] = "native" /\ Responsive(Current(d))
    /\ GoTo(d, "storing")
    /\ UNCHANGED <<appVars, loop>>

\* No answer: the report that was fetched is not stored.
NativeFails(d) ==
    /\ pc[d] = "native" /\ Through(d)
    /\ UNCHANGED appVars

\* The report is stored and published, or an error is logged.
Store(d) ==
    /\ pc[d] = "storing" /\ Through(d)
    /\ UNCHANGED appVars

EndSuites(d) ==
    /\ pc[d] = "run" /\ ~MoreSuites(d) /\ GoTo(d, "ended")
    /\ UNCHANGED <<appVars, loop>>

\* The process is killed, or dies when the file for a native report cannot be
\* written, which nothing handles.
Dies(d) ==
    /\ pc[d] # "ended" /\ GoTo(d, "ended") /\ Fresh(d, at[d])
    /\ UNCHANGED appVars

-----------------------------------------------------------------------------
Progress(d) ==
    \/ Start(d) \/ Ask(d) \/ TimesOut(d) \/ Answered(d) \/ GetReport(d) \/ Native(d)
    \/ Store(d) \/ EndSuites(d)

Mishap(d) ==
    \/ StartFails(d) \/ PollFails(d) \/ AnswerBreaks(d) \/ GetReportFails(d) \/ NativeFails(d)
    \/ Dies(d)

Application == AppStep /\ UNCHANGED <<pc, loop>>

Next ==
    \/ \E d \in Deployer : Progress(d) \/ Mishap(d) \/ TimePasses(d)
    \/ Application

Spec == Init /\ [][Next]_vars

\* A deployer goes on with what is answered, and time passes.  Of a test nothing
\* is assumed: it need not begin, nor end.
FairSpec == Spec /\ \A d \in Deployer : WF_vars(Progress(d)) /\ WF_vars(TimePasses(d))

-----------------------------------------------------------------------------
(* Properties *)

\* As long as no application was restarted, what a deployer gets is the report
\* of its own session, whoever else uses the application and whichever answers
\* were lost; after a restart the numbers are given out again and it may be
\* anyone's.
OwnReport ==
    restarts = 0 => \A d \in Deployer : got[d] # NoReport => got[d].by = d

\* A deployer does not wait for a test for ever, even for one that hangs, unless
\* it is one of those that keep their application from answering.
EveryWaitEnds ==
    \A d \in Deployer :
        []<>(pc[d] = "ended" \/ (MoreSuites(d) /\ ~Responsive(Current(d))))
=============================================================================
