--------------------------- MODULE PostTestActions --------------------------
(***************************************************************************)
(* The post test actions of one pipeline: main, loadReports and            *)
(* processReport (post-test-actions/src/index.ts), the Teams publisher     *)
(* (teams/core.ts) and the git tagging service (git-tag/core.ts) with its  *)
(* scripts git-co.sh and git-tags.sh.                                      *)
(*                                                                         *)
(* The scripts answer for their last command only: a clone, a checkout, a  *)
(* listing or a deletion that fails goes unnoticed.  A clone that failed   *)
(* leaves the later commands in the directory of the process.              *)
(*                                                                         *)
(* For every report the repository is cloned anew and the ref is looked up *)
(* again: a branch may have moved since the report before.                 *)
(***************************************************************************)
EXTENDS Naturals

CONSTANTS Report,       \* names of report files
          Settings,     \* parameters the program may be started with
          NoReport, NoSettings,
          Commit, Ref,  \* commits of the ref, and the one it names if it is no branch
          Earlier       \* verdicts that earlier runs may have tagged the commits with

Verdict == {"pass", "fail"}

ASSUME PostTestAssumption ==
    /\ NoReport \notin Report /\ NoSettings \notin Settings
    /\ Ref \in Commit /\ Commit \cap {"head", "cwd", "none"} = {}
    /\ Earlier \subseteq [Commit -> SUBSET Verdict]
    /\ Settings \subseteq [pass : SUBSET {"post", "tag"}, fail : SUBSET {"post", "tag"},
                           teams : BOOLEAN, git : BOOLEAN, dryRun : BOOLEAN, user : BOOLEAN,
                           short : BOOLEAN, branch : BOOLEAN]

Outcome == Verdict \cup {"empty", "unreadable", "absent"}
\* Where tags can end up: the commit the ref names, the head of the default branch
\* when the ref is a commit that cannot be checked out, and the repository the
\* process was started in.
Place == Commit \cup {"head", "cwd"}

VARIABLES
    outcome,    \* the reports in the workspace
    settings,   \* short: git abbreviates commits to the 7 characters that are compared;
                \* branch: the ref is the name of a branch, which may be pushed to
    step, report, handled,
    place, listed,      \* the clone, and the verdicts it has tags of to delete
    target,     \* of each report: the commit that was checked out without a failure
    tags,               \* verdicts tagged
    posted,             \* reports posted to Teams
    errors,             \* reports whose processing threw
    disturbed,          \* reports whose git commands failed unnoticed
    exit

work == <<report, handled, place, target, listed, tags, posted, errors, disturbed>>
postVars == <<outcome, settings, step, work, exit>>

PostTypeOK ==
    /\ outcome \in [Report -> Outcome]
    /\ settings \in Settings \cup {NoSettings}
    /\ step \in {"waiting", "next", "teams", "checkout", "git", "ended"}
    /\ (step = "waiting") = (settings = NoSettings)
    /\ report \in Report \cup {NoReport}
    /\ handled \subseteq Report
    /\ step \in {"teams", "checkout", "git"} => report \in Report \ handled
    /\ place \in Place /\ listed \subseteq Verdict
    /\ target \in [Report -> Commit \cup {"none"}]
    /\ tags \in [Place -> SUBSET Verdict]
    /\ posted \subseteq Report /\ errors \subseteq handled /\ disturbed \subseteq Report
    /\ exit \in {"none", "zero", "custom"}

PostInit ==
    /\ outcome = [r \in Report |-> "absent"] /\ settings = NoSettings
    /\ step = "waiting" /\ report = NoReport /\ handled = {}
    /\ place = Ref /\ listed = {} /\ target = [r \in Report |-> "none"]
    /\ \E e \in Earlier : tags = [p \in Place |-> IF p \in Commit THEN e[p] ELSE {}]
    /\ posted = {} /\ errors = {} /\ disturbed = {} /\ exit = "none"

\* didTestFail; a report without scenarios has not failed.
Failed(r) == outcome[r] = "fail"
VerdictOf(r) == IF Failed(r) THEN "fail" ELSE "pass"

Wants(r, action) == action \in IF Failed(r) THEN settings.fail ELSE settings.pass
Tagging == settings.git /\ "tag" \in settings.pass \cup settings.fail

\* Reports that can be read.
Loaded == {r \in Report : outcome[r] \notin {"absent", "unreadable"}}

-----------------------------------------------------------------------------
\* readParams and the search for reports.  Without actions there is nothing to
\* do; without reports the search ends in an exception, and the process with 0.
Begin ==
    /\ step = "waiting" /\ settings' \in Settings
    /\ IF settings'.pass \cup settings'.fail = {} \/ \A r \in Report : outcome[r] = "absent"
       THEN step' = "ended" /\ exit' = "zero"
       ELSE step' = "next" /\ UNCHANGED exit
    /\ UNCHANGED work

\* Mutant: the reports are taken in the order in which they were found.
TakeReportUnsorted(r) ==
    /\ step = "next" /\ r \in Loaded \ handled
    /\ report' = r /\ step' = "teams"
    /\ UNCHANGED <<settings, handled, place, target, listed, tags, posted, errors, disturbed, exit>>

\* The loop of main over loadReports, which puts the failed reports last.
TakeReport(r) ==
    /\ step = "next" /\ r \in Loaded \ handled
    /\ Failed(r) => \A x \in Loaded \ handled : Failed(x)
    /\ report' = r /\ step' = "teams"
    /\ UNCHANGED <<settings, handled, place, target, listed, tags, posted, errors, disturbed, exit>>

Finished == handled' = handled \cup {report} /\ step' = "next"

\* Mutant: a report whose processing threw is come back to.
ThrowsAgain == errors' = errors \cup {report} /\ step' = "next" /\ UNCHANGED handled

\* The exception is logged and the loop goes on.
Throws == Finished /\ errors' = errors \cup {report}

Teams ==
    /\ step = "teams"
    /\ \/ /\ ~settings.teams \/ ~Wants(report, "post") \/ settings.dryRun
          /\ step' = "checkout" /\ UNCHANGED <<handled, posted, errors>>
       \/ /\ settings.teams /\ Wants(report, "post") /\ ~settings.dryRun
          /\ posted' = posted \cup {report} /\ step' = "checkout"
          /\ UNCHANGED <<handled, errors>>
    /\ UNCHANGED <<settings, report, place, target, listed, tags, disturbed, exit>>

\* The template cannot be read, or the post is refused or gets no answer.
TeamsThrows ==
    /\ step = "teams" /\ settings.teams /\ Throws
    /\ \/ UNCHANGED posted
       \/ Wants(report, "post") /\ ~settings.dryRun /\ posted' = posted \cup {report}
    /\ UNCHANGED <<settings, report, place, target, listed, tags, disturbed, exit>>

NoTagging ==
    /\ step = "checkout" /\ ~Tagging
    /\ Finished
    /\ UNCHANGED <<settings, report, place, target, listed, tags, posted, errors, disturbed, exit>>

\* Tags that are recognised: those of a commit whose abbreviation has the length
\* that is compared.
Recognised(p) == IF settings.short /\ p # "cwd" THEN tags[p] ELSE {}

Disturbed == disturbed' = disturbed \cup {report}

\* What the ref names now: anybody may have pushed to a branch since the last clone.
Named == IF settings.branch THEN Commit ELSE {Ref}

\* Where else a clone or a checkout that fails leaves the git commands.
Astray == IF settings.branch THEN {"cwd"} ELSE {"head", "cwd"}

\* Mutant: tags of an earlier run are not looked for.
CheckoutOnly ==
    /\ step = "checkout" /\ Tagging
    /\ listed' = {}
    /\ \/ place' \in Named /\ target' = [target EXCEPT ![report] = place'] /\ UNCHANGED disturbed
       \/ place' \in Named \cup Astray /\ Disturbed /\ UNCHANGED target
    /\ step' = "git"
    /\ UNCHANGED <<settings, report, handled, tags, posted, errors, exit>>

\* readCommitSha and getCurrentTags.
Checkout ==
    /\ step = "checkout" /\ Tagging
    /\ \/ place' \in Named /\ listed' = Recognised(place')
          /\ target' = [target EXCEPT ![report] = place'] /\ UNCHANGED disturbed
       \/ place' \in Named \cup Astray /\ listed' \in {{}, Recognised(place')}
          /\ Disturbed /\ UNCHANGED target
    /\ step' = "git"
    /\ UNCHANGED <<settings, report, handled, tags, posted, errors, exit>>

\* deleteOldDptTags; the push of a deletion may fail without being noticed.
DeleteTag(v) ==
    /\ step = "git" /\ v \in listed /\ listed' = listed \ {v}
    /\ \/ /\ settings.dryRun /\ UNCHANGED <<tags, step, handled, errors, disturbed>>
       \/ /\ ~settings.dryRun /\ ~settings.user /\ Throws
          /\ UNCHANGED <<tags, disturbed>>
       \/ /\ ~settings.dryRun /\ settings.user
          /\ tags' = [tags EXCEPT ![place] = @ \ {v}]
          /\ UNCHANGED <<step, handled, errors, disturbed>>
       \/ /\ ~settings.dryRun /\ settings.user
          /\ Disturbed
          /\ UNCHANGED <<tags, step, handled, errors>>
    /\ UNCHANGED <<settings, report, place, target, posted, exit>>

NoNewTag ==
    /\ step = "git" /\ listed = {}
    /\ ~Wants(report, "tag") \/ settings.dryRun
    /\ Finished
    /\ UNCHANGED <<settings, report, place, target, listed, tags, posted, errors, disturbed, exit>>

AddTag ==
    /\ step = "git" /\ listed = {} /\ Wants(report, "tag") /\ ~settings.dryRun
    /\ \/ /\ settings.user /\ Finished
          /\ tags' = [tags EXCEPT ![place] = @ \cup {VerdictOf(report)}]
          /\ UNCHANGED errors
       \/ Throws /\ UNCHANGED tags
    /\ UNCHANGED <<settings, report, place, target, listed, posted, disturbed, exit>>

End ==
    /\ step = "next" /\ Loaded \subseteq handled
    /\ step' = "ended" /\ exit' = IF \E r \in Loaded : Failed(r) THEN "custom" ELSE "zero"
    /\ UNCHANGED <<settings, work>>

\* The tests of the pipeline leave their reports before.
Written ==
    /\ step = "waiting" /\ outcome' \in [Report -> Outcome]
    /\ UNCHANGED <<settings, step, work, exit>>

PostStep ==
    /\ \/ Begin \/ Teams \/ TeamsThrows \/ NoTagging \/ Checkout \/ NoNewTag \/ AddTag \/ End
       \/ \E r \in Report : TakeReport(r)
       \/ \E v \in Verdict : DeleteTag(v)
    /\ UNCHANGED outcome

PostNext == Written \/ PostStep

PostSpec == PostInit /\ [][PostNext]_postVars

-----------------------------------------------------------------------------
(* Properties *)

\* When nothing goes wrong, each report has been taken to a commit, and that commit
\* ends up with the tag of the worst report that was taken to it and no other,
\* whatever earlier runs left there and however many reports there are; with no tag
\* when that outcome is not to be tagged.  As long as the ref does not move, that is
\* one commit, with the verdict of the run.
TagTellsVerdict ==
    step = "ended" /\ Tagging /\ settings.short /\ ~settings.dryRun
        /\ errors = {} /\ disturbed = {} =>
    \A r \in Loaded :
        /\ target[r] \in Commit
        /\ tags[target[r]] = IF \E x \in Loaded : target[x] = target[r] /\ Failed(x)
                             THEN {v \in {"fail"} : "tag" \in settings.fail}
                             ELSE {v \in {"pass"} : "tag" \in settings.pass}

\* One failed report that is processed undisturbed is enough to take the tag `pass`
\* for good from the commit it was taken to, whatever happened to the other reports
\* and wherever the ref has moved since.  A commit that a passing report has tagged
\* before the ref moved keeps its tag.
FailureRefutesPass ==
    step = "ended" /\ Tagging /\ settings.short /\ ~settings.dryRun =>
    \A r \in Loaded \ (errors \cup disturbed) :
        Failed(r) => target[r] \in Commit /\ "pass" \notin tags[target[r]]
=============================================================================
