--------------------------- MODULE ReportPublishing --------------------------
(***************************************************************************)
(* What becomes of the reports of one run: runAll stores each of them      *)
(* (k8s-deployer/src/report/report-service.ts) and publish-report.sh pushes *)
(* it to a branch that other pipelines push to as well; then the pipeline  *)
(* runs the post test actions over what was stored.                        *)
(***************************************************************************)
EXTENDS PostTestActions, Sequences

CONSTANTS Suites,       \* the reports of this run, in the order of its suites
          Other         \* reports of other pipelines

ASSUME ReportPublishingAssumption ==
    /\ Suites \in Seq(Report) /\ Report = {Suites[i] : i \in DOMAIN Suites}
    /\ Other \cap Report = {}

VARIABLES
    pc,
    at,         \* the suite that runAll has come to
    verdict,    \* of the report it has got
    branch,     \* reports on the branch
    scripts     \* publish-report.sh under way: the report, and the branch it cloned

publishing == <<branch, scripts>>
vars == <<postVars, pc, at, verdict, publishing>>

Judgement == {"pass", "fail", "empty"}
Published == Report \cup Other

TypeOK ==
    /\ PostTypeOK
    /\ pc \in {"testing", "storing", "publishing", "ended"}
    /\ at \in 1 .. Len(Suites) + 1 /\ (pc \in {"storing", "publishing"} => at <= Len(Suites))
    /\ verdict \in Judgement \cup {"none"} /\ (pc = "storing" => verdict # "none")
    /\ branch \subseteq Published
    /\ scripts \subseteq [report : Report, base : SUBSET branch, cloned : BOOLEAN]
    /\ step # "waiting" => pc = "ended"

Init ==
    /\ PostInit
    /\ pc = "testing" /\ at = 1 /\ verdict = "none" /\ branch = {} /\ scripts = {}

\* runAll turns to the next suite, with the report stored or an error logged.
Through == pc' = "testing" /\ at' = at + 1 /\ verdict' = "none"

-----------------------------------------------------------------------------
(* runAll and store *)

Tested ==
    /\ pc = "testing" /\ at <= Len(Suites)
    /\ \/ pc' = "storing" /\ verdict' \in Judgement /\ UNCHANGED at
       \/ Through
    /\ UNCHANGED <<postVars, publishing>>

Launch(r) == scripts' = scripts \cup {[report |-> r, base |-> {}, cloned |-> FALSE]}

\* The JSON file, then the HTML file; what fails leaves nothing or a part of a
\* file, and nothing is published.
Store ==
    /\ pc = "storing"
    /\ \/ /\ outcome' = [outcome EXCEPT ![Suites[at]] = verdict]
          /\ pc' = "publishing" /\ Launch(Suites[at]) /\ UNCHANGED <<at, verdict>>
       \/ /\ \E result \in {verdict, "unreadable", "absent"} :
                outcome' = [outcome EXCEPT ![Suites[at]] = result]
          /\ Through /\ UNCHANGED scripts
    /\ UNCHANGED <<settings, step, work, exit, branch>>

\* The script has ended, or 60 seconds have passed and it goes on alone.
PublishingDone ==
    /\ pc = "publishing" /\ Through
    /\ UNCHANGED <<postVars, publishing>>

\* All suites are through, or the process dies.
EndRun ==
    /\ pc # "ended" /\ pc' = "ended" /\ UNCHANGED <<at, verdict>>
    /\ UNCHANGED <<postVars, publishing>>

-----------------------------------------------------------------------------
(* publish-report.sh *)

Clone(x) ==
    /\ ~x.cloned
    /\ scripts' = (scripts \ {x}) \cup {[x EXCEPT !.base = branch, !.cloned = TRUE]}
    /\ UNCHANGED branch

\* Mutant: git push --force.
PushForced(x) ==
    /\ x.cloned
    /\ branch' = x.base \cup {x.report} /\ scripts' = scripts \ {x}

\* git push is refused unless the branch is as it was cloned.
Push(x) ==
    /\ x.cloned /\ branch = x.base
    /\ branch' = x.base \cup {x.report} /\ scripts' = scripts \ {x}

\* There is no second attempt.
PublishFails(x) == scripts' = scripts \ {x} /\ UNCHANGED branch

OtherPublishes(r) == branch' = branch \cup {r} /\ UNCHANGED scripts

Repository ==
    /\ \/ \E x \in scripts : Clone(x) \/ Push(x) \/ PublishFails(x)
       \/ \E r \in Other : OtherPublishes(r)
    /\ UNCHANGED <<postVars, pc, at, verdict>>

PostTest == pc = "ended" /\ PostStep /\ UNCHANGED <<pc, at, verdict, publishing>>

Next == Tested \/ Store \/ PublishingDone \/ EndRun \/ Repository \/ PostTest

Spec == Init /\ [][Next]_vars

-----------------------------------------------------------------------------
(* Properties *)

\* A report that was published stays, whoever publishes at the same time and
\* whichever scripts were given up and go on.
PublishedForGood == [][branch \subseteq branch']_branch
=============================================================================
