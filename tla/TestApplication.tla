--------------------------- MODULE TestApplication --------------------------
(***************************************************************************)
(* Test applications: the web services of examples/node-1/pit-test-app and *)
(* examples/graph-perf-test-app (web-api/service.ts), with the conversion  *)
(* of k6's measurements (report/adapters/k6.ts).  Both keep their sessions *)
(* in memory under consecutive numbers.  The one with k6 runs it           *)
(* synchronously: while a test is running it answers nobody.               *)
(***************************************************************************)
EXTENDS Integers, Sequences, FiniteSetsExt

CONSTANTS App,
          Blocking,     \* those that run k6
          Caller,       \* who starts sessions
          Measured,     \* what k6 may write: a scenario and a time for each request
          Expected,     \* requests per unit of time, for the scenarios that are known
          MaxRestarts

ASSUME TestApplicationAssumption ==
    /\ Blocking \subseteq App /\ MaxRestarts \in Nat
    /\ \A x \in DOMAIN Expected : Expected[x] \in Nat
    /\ \A m \in Measured : /\ m \in Seq([scenario : {m[i].scenario : i \in DOMAIN m}, time : Nat])

VARIABLES
    sessions,   \* of each application; the number of a session is its position
    restarts    \* of applications, all together

appVars == <<sessions, restarts>>

Judgement == {"pass", "fail", "empty"}
Session == [status : {"PENDING", "RUNNING", "COMPLETED", "ERROR"},
            verdict : Judgement \cup {"none"},
            by : Caller]        \* for the properties only

AppTypeOK ==
    /\ sessions \in [App -> Seq(Session)] /\ restarts \in 0 .. MaxRestarts
    /\ \A a \in App : \A i \in DOMAIN sessions[a] :
          (sessions[a][i].status = "COMPLETED") = (sessions[a][i].verdict # "none")

AppInit == sessions = [a \in App |-> <<>>] /\ restarts = 0

\* The event loop is free.
Responsive(a) == a \in Blocking => \A i \in DOMAIN sessions[a] : sessions[a][i].status # "RUNNING"

Answers(a, id) == Responsive(a) /\ id \in DOMAIN sessions[a]

-----------------------------------------------------------------------------
(* Verdicts *)

TimesOf(points, x) == {p.time : p \in {q \in {points[i] : i \in DOMAIN points} : q.scenario = x}}
CountOf(points, x) == Cardinality({i \in DOMAIN points : points[i].scenario = x})

\* The rate is compared; requests that took no time at all pass.
FastEnough(points, x) ==
    Expected[x] * (Max(TimesOf(points, x)) - Min(TimesOf(points, x))) <= CountOf(points, x)

\* convertFrom, for measurements the script has left: jq takes the first one
\* as its input and writes the others, and nothing at all when there is none.
VerdictOfK6(m) ==
    LET points == Tail(m)
        scenarios == {points[i].scenario : i \in DOMAIN points}
    IN CASE m = <<>> \/ (m # <<>> /\ ~ scenarios \subseteq DOMAIN Expected) -> "none"
         [] m # <<>> /\ scenarios = {} -> "empty"
         [] OTHER -> IF \A x \in scenarios : FastEnough(points, x) THEN "pass" ELSE "fail"

-----------------------------------------------------------------------------
(* Requests and timers *)

New(c) == [status |-> "PENDING", verdict |-> "none", by |-> c]

\* Mutant: the place of a session that has ended is given away.
PostStartReusing(a, c) ==
    LET ended == {i \in DOMAIN sessions[a] : sessions[a][i].status \in {"COMPLETED", "ERROR"}}
    IN /\ Responsive(a)
       /\ sessions' = [sessions EXCEPT ![a] =
             IF ended = {} THEN Append(@, New(c)) ELSE [@ EXCEPT ![Min(ended)] = New(c)]]
       /\ UNCHANGED restarts

\* postStart answers with the number of the session.
PostStart(a, c) ==
    /\ Responsive(a)
    /\ sessions' = [sessions EXCEPT ![a] = Append(@, New(c))]
    /\ UNCHANGED restarts

SetSession(a, i, status, verdict) ==
    sessions' = [sessions EXCEPT ![a][i] =
                    [status |-> status, verdict |-> verdict, by |-> sessions[a][i].by]]

\* The timer of postStart.
RunTests(a, i) ==
    /\ Responsive(a) /\ i \in DOMAIN sessions[a] /\ sessions[a][i].status = "PENDING"
    /\ SetSession(a, i, "RUNNING", "none")
    /\ UNCHANGED restarts

\* A test by node-1 counts requests that fail and always has a verdict; k6, its
\* script or the conversion may fail.
TestEnds(a, i) ==
    /\ i \in DOMAIN sessions[a] /\ sessions[a][i].status = "RUNNING"
    /\ \/ a \notin Blocking /\ \E v \in {"pass", "fail"} : SetSession(a, i, "COMPLETED", v)
       \/ a \in Blocking /\ \E m \in Measured :
             /\ VerdictOfK6(m) # "none" /\ SetSession(a, i, "COMPLETED", VerdictOfK6(m))
       \/ a \in Blocking /\ SetSession(a, i, "ERROR", "none")
    /\ UNCHANGED restarts

\* The pod is replaced: the new one knows no sessions and counts from one again.
Restart(a) ==
    /\ restarts < MaxRestarts /\ restarts' = restarts + 1
    /\ sessions' = [sessions EXCEPT ![a] = <<>>]

AppStep ==
    \E a \in App :
        \/ Restart(a)
        \/ \E i \in DOMAIN sessions[a] : RunTests(a, i) \/ TestEnds(a, i)
=============================================================================
