----------------------- MODULE ReportPublishingProofs -----------------------
(***************************************************************************)
(* Proofs about ReportPublishing and the PostTestActions it extends, for   *)
(* any number of reports and every set of parameters.  What is proved of   *)
(* the post test actions alone holds in the composition, because every     *)
(* step of it is a step or a stutter of PostSpec.                          *)
(***************************************************************************)
EXTENDS ReportPublishing, TLAPS

\* The parameters under which tags are set and old ones recognised.
TagsCount == Tagging /\ settings.short /\ ~settings.dryRun

Current == IF step \in {"teams", "checkout", "git"} THEN {report} ELSE {}

\* Before the reports are looked at, none has been handled.
Waiting == step = "waiting" => handled = {} /\ errors = {} /\ disturbed = {}

Complete == step = "ended" => Loaded \subseteq handled \/ ~Tagging

\* Failed reports come last.
Sorted ==
    (\E r \in handled \cup Current : Failed(r)) =>
        \A r \in (Loaded \ handled) \cup Current : Failed(r)

\* Once the clone is there, and nothing went wrong with it, the tags that have
\* yet to be deleted are those of the commit the report was taken to.
ListedAll ==
    step = "git" /\ settings.short /\ ~settings.dryRun /\ report \notin disturbed =>
        place \in Commit /\ target[report] = place /\ listed = tags[place]

Refuted ==
    TagsCount => \A r \in handled \ (errors \cup disturbed) :
                     Failed(r) => target[r] \in Commit /\ "pass" \notin tags[target[r]]

\* The tag for the reports handled so far that were taken to a commit.
TagOf(c) == IF \E x \in handled : target[x] = c /\ Failed(x)
            THEN IF "tag" \in settings.fail THEN {"fail"} ELSE {}
            ELSE IF "tag" \in settings.pass THEN {"pass"} ELSE {}

\* A commit that is not being tagged has the tag of the reports handled so far.
Told ==
    TagsCount /\ errors = {} /\ disturbed = {} =>
        \A r \in handled :
            /\ target[r] \in Commit
            /\ (step = "git" /\ target[r] = place) \/ tags[target[r]] = TagOf(target[r])

PostInv == PostTypeOK /\ Waiting /\ Complete /\ Sorted /\ ListedAll /\ Refuted /\ Told

-----------------------------------------------------------------------------

LEMMA SettingsType ==
    ASSUME PostTypeOK, step # "waiting"
    PROVE  /\ settings \in Settings
           /\ settings.pass \subseteq {"post", "tag"} /\ settings.fail \subseteq {"post", "tag"}
BY PostTestAssumption DEF PostTypeOK

LEMMA PostInitInv == PostInit => PostInv
<1> SUFFICES ASSUME PostInit PROVE PostInv
  OBVIOUS
<1>1. PostTypeOK
  <2>1. tags \in [Place -> SUBSET Verdict]
    BY PostTestAssumption DEF PostInit, Place
  <2> QED
    BY <2>1, PostTestAssumption DEF PostInit, PostTypeOK, Outcome, Place
<1>2. Waiting /\ Complete /\ ListedAll /\ Refuted /\ Told
  BY DEF PostInit, Waiting, Complete, ListedAll, Refuted, Told
<1>3. Sorted
  BY DEF PostInit, Sorted, Current
<1> QED
  BY <1>1, <1>2, <1>3 DEF PostInv

\* Types.
LEMMA PostTypes == ASSUME PostTypeOK, PostNext PROVE PostTypeOK'
<1> USE PostTestAssumption DEF PostTypeOK, work
<1>1. CASE Written
  BY <1>1 DEF Written
<1>2. ASSUME UNCHANGED outcome, Begin PROVE PostTypeOK'
  BY <1>2 DEF Begin
<1>3. ASSUME UNCHANGED outcome, NEW r \in Report, TakeReport(r) PROVE PostTypeOK'
  BY <1>3 DEF TakeReport, Loaded
<1>4. ASSUME UNCHANGED outcome, Teams PROVE PostTypeOK'
  BY <1>4 DEF Teams
<1>5. ASSUME UNCHANGED outcome, TeamsThrows PROVE PostTypeOK'
  BY <1>5 DEF TeamsThrows, Throws, Finished
<1>6. ASSUME UNCHANGED outcome, NoTagging PROVE PostTypeOK'
  BY <1>6 DEF NoTagging, Finished
<1>7. ASSUME UNCHANGED outcome, Checkout PROVE PostTypeOK'
  <2>1. \A p \in Place : Recognised(p) \subseteq Verdict
    BY DEF Recognised
  <2>2. Named \subseteq Commit /\ Commit \subseteq Place /\ Astray \subseteq Place
    BY DEF Named, Astray, Place
  <2>3. place' \in Place /\ target' \in [Report -> Commit \cup {"none"}]
    BY <1>7, <2>2 DEF Checkout, Place
  <2> QED
    BY <1>7, <2>1, <2>3 DEF Checkout, Disturbed
<1>8. ASSUME UNCHANGED outcome, NEW v \in Verdict, DeleteTag(v) PROVE PostTypeOK'
  <2>1. tags' \in [Place -> SUBSET Verdict] /\ listed' \subseteq Verdict
    BY <1>8 DEF DeleteTag
  <2> QED
    BY <1>8, <2>1 DEF DeleteTag, Throws, Finished, Disturbed
<1>9. ASSUME UNCHANGED outcome, NoNewTag PROVE PostTypeOK'
  BY <1>9 DEF NoNewTag, Finished
<1>10. ASSUME UNCHANGED outcome, AddTag PROVE PostTypeOK'
  <2>1. VerdictOf(report) \in Verdict
    BY DEF VerdictOf, Verdict
  <2>2. tags' \in [Place -> SUBSET Verdict]
    BY <1>10, <2>1 DEF AddTag
  <2> QED
    BY <1>10, <2>2 DEF AddTag, Throws, Finished
<1>11. ASSUME UNCHANGED outcome, End PROVE PostTypeOK'
  BY <1>11 DEF End
<1> QED
  BY <1>1, <1>2, <1>3, <1>4, <1>5, <1>6, <1>7, <1>8, <1>9, <1>10, <1>11 DEF PostNext, PostStep

\* The steps by which the loop leaves a report behind keep the order.
LEMMA LeaveReport ==
    ASSUME PostTypeOK, Sorted, step \in {"teams", "checkout", "git"}, Finished, UNCHANGED outcome
    PROVE  Waiting' /\ Complete' /\ Sorted' /\ ListedAll'
BY DEF Finished, PostTypeOK, Waiting, Complete, Sorted, Current, ListedAll, Failed, Loaded

\* An exception counts as an error of the report and changes no tag.
LEMMA ThrowInv ==
    ASSUME PostInv, step \in {"teams", "checkout", "git"}, Throws, UNCHANGED <<outcome, settings, target, tags, disturbed>>
    PROVE  Waiting' /\ Complete' /\ Sorted' /\ ListedAll' /\ Refuted' /\ Told'
<1>1. Waiting' /\ Complete' /\ Sorted' /\ ListedAll'
  BY LeaveReport DEF PostInv, Throws
<1>2. Refuted'
  BY DEF PostInv, Refuted, Throws, Finished, TagsCount, Tagging, Failed
<1>3. Told'
  BY DEF Told, Throws
<1> QED
  BY <1>1, <1>2, <1>3

\* Steps that change neither the reports handled nor what is known of them.
LEMMA SameReports ==
    ASSUME PostInv, step \in {"next", "teams", "checkout"}, step' \in {"teams", "checkout"},
           UNCHANGED <<outcome, settings, handled, target, tags, errors, disturbed>>
    PROVE  Waiting' /\ Complete' /\ ListedAll' /\ Refuted' /\ Told'
<1>1. Waiting' /\ Complete' /\ ListedAll'
  BY DEF Waiting, Complete, ListedAll
<1>2. Refuted'
  BY DEF PostInv, Refuted, TagsCount, Tagging, Failed
<1>3. Told'
  BY DEF PostInv, Told, TagOf, TagsCount, Tagging, Failed
<1> QED
  BY <1>1, <1>2, <1>3

LEMMA BeginInv ==
    ASSUME PostInv, Begin, UNCHANGED outcome
    PROVE  Waiting' /\ Complete' /\ Sorted' /\ ListedAll' /\ Refuted' /\ Told'
<1>1. /\ handled = {} /\ UNCHANGED <<handled, report, errors, disturbed>> /\ step' \in {"next", "ended"}
      /\ step' = "ended" => \/ settings'.pass \cup settings'.fail = {}
                            \/ \A r \in Report : outcome[r] = "absent"
  BY DEF PostInv, Waiting, Begin, work
<1>2. Complete'
  BY <1>1 DEF Complete, Tagging, Loaded
<1> QED
  BY <1>1, <1>2 DEF Waiting, Sorted, Current, ListedAll, Refuted, Told

LEMMA TakeReportInv ==
    ASSUME PostInv, NEW r \in Report, TakeReport(r), UNCHANGED outcome
    PROVE  Waiting' /\ Complete' /\ Sorted' /\ ListedAll' /\ Refuted' /\ Told'
<1>1. Sorted'
  BY DEF PostInv, Sorted, TakeReport, Current, Failed, Loaded
<1> QED
  BY <1>1, SameReports DEF TakeReport

LEMMA TeamsInv ==
    ASSUME PostInv, Teams, UNCHANGED outcome
    PROVE  Waiting' /\ Complete' /\ Sorted' /\ ListedAll' /\ Refuted' /\ Told'
<1>1. step = "teams" /\ step' = "checkout" /\ UNCHANGED <<settings, report, handled, target, tags, errors, disturbed>>
  BY DEF Teams
<1>2. Sorted'
  BY <1>1 DEF PostInv, Sorted, Current, Failed, Loaded
<1> QED
  BY <1>1, <1>2, SameReports

\* A clone whose commands all worked is at the commit, with its tags listed.
LEMMA CheckoutInv ==
    ASSUME PostInv, Checkout, UNCHANGED outcome
    PROVE  Waiting' /\ Complete' /\ Sorted' /\ ListedAll' /\ Refuted' /\ Told'
<1>1. /\ step = "checkout" /\ step' = "git" /\ UNCHANGED <<settings, report, handled, tags, errors>>
      /\ disturbed \subseteq disturbed'
      /\ \/ report \in disturbed' /\ UNCHANGED target
         \/ /\ place' \in Named /\ listed' = Recognised(place')
            /\ target' = [target EXCEPT ![report] = place']
  BY DEF Checkout, Disturbed
<1>2. Sorted'
  BY <1>1 DEF PostInv, Sorted, Current, Failed, Loaded
<1>3. report \in Report \ handled /\ handled \subseteq Report
  BY <1>1 DEF PostInv, PostTypeOK
<1>4. \A r \in handled : target'[r] = target[r]
  BY <1>1, <1>3 DEF PostInv, PostTypeOK
<1>5. ListedAll'
  <2> SUFFICES ASSUME settings.short, report \notin disturbed'
               PROVE  place' \in Commit /\ target'[report] = place' /\ listed' = tags[place']
    BY <1>1 DEF ListedAll
  <2>1. place' \in Named /\ target' = [target EXCEPT ![report] = place'] /\ listed' = Recognised(place')
    BY <1>1
  <2>2. place' \in Commit /\ place' # "cwd"
    BY <2>1, PostTestAssumption DEF Named
  <2>3. target'[report] = place'
    BY <1>3, <2>1 DEF PostInv, PostTypeOK
  <2> QED
    BY <2>1, <2>2, <2>3 DEF Recognised
<1>6. Refuted'
  BY <1>1, <1>4 DEF PostInv, Refuted, TagsCount, Tagging, Failed
<1>7. Told'
  <2> SUFFICES ASSUME TagsCount, errors = {}, disturbed = {}
               PROVE  \A r \in handled : target[r] \in Commit /\ tags[target[r]] = TagOf(target[r])
    BY <1>1, <1>4 DEF Told, TagOf, TagsCount, Tagging, Failed
  <2> QED
    BY <1>1 DEF PostInv, Told
<1> QED
  BY <1>1, <1>2, <1>5, <1>6, <1>7 DEF Waiting, Complete

LEMMA DeleteTagInv ==
    ASSUME PostInv, NEW v \in Verdict, DeleteTag(v), UNCHANGED outcome
    PROVE  Waiting' /\ Complete' /\ Sorted' /\ ListedAll' /\ Refuted' /\ Told'
<1>0. step = "git" /\ UNCHANGED <<settings, report, place, target>> /\ listed' = listed \ {v}
  BY DEF DeleteTag
<1>1. CASE Throws /\ UNCHANGED <<tags, disturbed>>
  BY <1>0, <1>1, ThrowInv
<1>2. CASE /\ UNCHANGED <<step, handled, errors, tags>>
           /\ (settings.dryRun /\ UNCHANGED disturbed) \/ Disturbed
  <2>1. Sorted'
    BY <1>0, <1>2 DEF PostInv, Sorted, Current, Failed, Loaded
  <2>2. Refuted'
    BY <1>0, <1>2 DEF PostInv, Refuted, TagsCount, Tagging, Failed, Disturbed
  <2>3. ListedAll'
    BY <1>0, <1>2 DEF ListedAll, Disturbed
  <2>4. Told'
    BY <1>0, <1>2 DEF Told, TagsCount, Disturbed
  <2> QED
    BY <1>0, <1>2, <2>1, <2>2, <2>3, <2>4 DEF Waiting, Complete
<1>3. CASE tags' = [tags EXCEPT ![place] = @ \ {v}] /\ UNCHANGED <<step, handled, errors, disturbed>>
  <2>0. \A c \in Commit : tags'[c] = IF c = place THEN tags[c] \ {v} ELSE tags[c]
    BY <1>3 DEF PostInv, PostTypeOK, Place
  <2>1. Sorted'
    BY <1>0, <1>3 DEF PostInv, Sorted, Current, Failed, Loaded
  <2>2. Refuted'
    BY <1>0, <1>3, <2>0 DEF PostInv, Refuted, TagsCount, Tagging, Failed
  <2>3. ListedAll'
    BY <1>0, <1>3, <2>0 DEF PostInv, ListedAll
  <2>4. Told'
    BY <1>0, <1>3, <2>0 DEF PostInv, Told, TagOf, TagsCount, Tagging, Failed
  <2> QED
    BY <1>0, <1>3, <2>1, <2>2, <2>3, <2>4 DEF Waiting, Complete
<1> QED
  BY <1>1, <1>2, <1>3 DEF DeleteTag

\* When a report is done with, all old tags of the commit are deleted, unless a
\* command failed; then its own tag is added, or none.
LEMMA TaggedInv ==
    ASSUME PostInv, step = "git", listed = {}, Finished,
           UNCHANGED <<outcome, settings, report, target, errors, disturbed>>,
           \/ (~Wants(report, "tag") \/ settings.dryRun) /\ UNCHANGED tags
           \/ Wants(report, "tag") /\ tags' = [tags EXCEPT ![place] = @ \cup {VerdictOf(report)}]
    PROVE  Waiting' /\ Complete' /\ Sorted' /\ ListedAll' /\ Refuted' /\ Told'
<1>1. Waiting' /\ Complete' /\ Sorted' /\ ListedAll'
  BY LeaveReport DEF PostInv
<1>2. handled' = handled \cup {report} /\ step' = "next"
  BY DEF Finished
<1>3. \A c \in Commit : "pass" \in tags'[c] => "pass" \in tags[c] \/ (c = place /\ ~Failed(report))
  BY DEF PostInv, PostTypeOK, VerdictOf, Place
<1>4. (\E r \in handled : Failed(r)) => Failed(report)
  BY DEF PostInv, Sorted, Current
<1>5. settings.short /\ ~settings.dryRun /\ report \notin disturbed =>
          place \in Commit /\ target[report] = place /\ tags[place] = {}
  BY DEF PostInv, ListedAll
<1>6. Refuted'
  <2> SUFFICES ASSUME TagsCount, NEW r \in (handled \cup {report}) \ (errors \cup disturbed), Failed(r)
               PROVE  target[r] \in Commit /\ "pass" \notin tags'[target[r]]
    BY <1>2 DEF Refuted, TagsCount, Tagging, Failed
  <2>1. Failed(report)
    BY <1>4
  <2>2. target[r] \in Commit /\ "pass" \notin tags[target[r]]
    BY <1>5 DEF PostInv, Refuted, TagsCount
  <2> QED
    BY <1>3, <2>1, <2>2
<1>7. Told'
  <2> DEFINE Tag(c) == IF \E x \in handled \cup {report} : target[x] = c /\ Failed(x)
                       THEN IF "tag" \in settings.fail THEN {"fail"} ELSE {}
                       ELSE IF "tag" \in settings.pass THEN {"pass"} ELSE {}
  <2> SUFFICES ASSUME TagsCount, errors = {}, disturbed = {}, NEW r \in handled \cup {report}
               PROVE  target[r] \in Commit /\ tags'[target[r]] = Tag(target[r])
    BY <1>2 DEF Told, TagOf, TagsCount, Tagging, Failed
  <2>1. place \in Commit /\ target[report] = place /\ tags[place] = {}
    BY <1>5 DEF TagsCount
  <2>2. target[r] \in Commit
    BY <2>1 DEF PostInv, Told
  <2>3. CASE target[r] = place
    <3>0. place \in DOMAIN tags /\ ~settings.dryRun
      BY <2>1 DEF TagsCount, PostInv, PostTypeOK, Place
    <3>1. tags'[place] = IF Wants(report, "tag") THEN {VerdictOf(report)} ELSE {}
      <4>1. CASE Wants(report, "tag")
        <5>1. tags' = [tags EXCEPT ![place] = @ \cup {VerdictOf(report)}]
          BY <3>0, <4>1
        <5> QED
          BY <2>1, <3>0, <4>1, <5>1
      <4>2. CASE ~Wants(report, "tag")
        BY <2>1, <4>2
      <4> QED
        BY <4>1, <4>2
    <3>2. (\E x \in handled \cup {report} : target[x] = place /\ Failed(x)) <=> Failed(report)
      BY <1>4, <2>1
    <3> QED
      BY <2>2, <2>3, <3>1, <3>2 DEF Wants, VerdictOf
  <2>4. CASE target[r] # place
    <3>1. r \in handled /\ tags[target[r]] = TagOf(target[r])
      BY <2>1, <2>4 DEF PostInv, Told
    <3>2. tags'[target[r]] = tags[target[r]]
      BY <2>2, <2>4 DEF PostInv, PostTypeOK, Place
    <3>3. TagOf(target[r]) = Tag(target[r])
      BY <2>1, <2>4 DEF TagOf
    <3> QED
      BY <2>2, <3>1, <3>2, <3>3
  <2> QED
    BY <2>3, <2>4
<1> QED
  BY <1>1, <1>6, <1>7

LEMMA PostNextInv == PostInv /\ [PostNext]_postVars => PostInv'
<1> SUFFICES ASSUME PostInv, [PostNext]_postVars PROVE PostInv'
  OBVIOUS
<1> DEFINE Rest == Waiting /\ Complete /\ Sorted /\ ListedAll /\ Refuted /\ Told
<1>1. CASE UNCHANGED postVars
  BY <1>1 DEF postVars, work, PostInv, PostTypeOK, Waiting, Complete, Sorted, Current, ListedAll, Refuted,
              Told, TagOf, TagsCount, Tagging, Failed, Loaded
<1>2. CASE PostNext
  <2>1. PostTypeOK'
    BY <1>2, PostTypes DEF PostInv
  <2>2. CASE Written
    <3>1. step = "waiting" /\ handled = {} /\ UNCHANGED <<settings, step, work>>
      BY <2>2 DEF Written, PostInv, Waiting
    <3> QED
      BY <2>1, <3>1 DEF work, PostInv, Waiting, Complete, Sorted, Current, ListedAll, Refuted, Told
  <2>3. CASE PostStep
    <3>1. UNCHANGED outcome
      BY <2>3 DEF PostStep
    <3>2. CASE Begin
      BY <2>1, <3>1, <3>2, BeginInv DEF PostInv
    <3>3. CASE \E r \in Report : TakeReport(r)
      BY <2>1, <3>1, <3>3, TakeReportInv DEF PostInv
    <3>4. CASE Teams
      BY <2>1, <3>1, <3>4, TeamsInv DEF PostInv
    <3>5. CASE TeamsThrows
      <4>1. step = "teams" /\ Throws /\ UNCHANGED <<settings, target, tags, disturbed>>
        BY <3>5 DEF TeamsThrows
      <4> QED
        BY <2>1, <3>1, <4>1, ThrowInv DEF PostInv
    <3>6. CASE NoTagging
      <4>1. step = "checkout" /\ ~Tagging /\ Finished /\ UNCHANGED settings
        BY <3>6 DEF NoTagging
      <4>2. ~TagsCount'
        BY <4>1 DEF TagsCount, Tagging
      <4>3. Waiting' /\ Complete' /\ Sorted' /\ ListedAll'
        BY <3>1, <4>1, LeaveReport DEF PostInv
      <4> QED
        BY <2>1, <4>2, <4>3 DEF PostInv, Refuted, Told
    <3>7. CASE Checkout
      BY <2>1, <3>1, <3>7, CheckoutInv DEF PostInv
    <3>8. CASE \E v \in Verdict : DeleteTag(v)
      BY <2>1, <3>1, <3>8, DeleteTagInv DEF PostInv
    <3>9. CASE NoNewTag
      BY <2>1, <3>1, <3>9, TaggedInv DEF NoNewTag, PostInv
    <3>10. CASE AddTag
      <4>1. CASE Throws /\ UNCHANGED tags
        BY <2>1, <3>1, <3>10, <4>1, ThrowInv DEF AddTag, PostInv
      <4>2. CASE ~(Throws /\ UNCHANGED tags)
        BY <2>1, <3>1, <3>10, <4>2, TaggedInv DEF AddTag, PostInv
      <4> QED
        BY <4>1, <4>2
    <3>11. CASE End
      <4>1. /\ step = "next" /\ step' = "ended" /\ Loaded \subseteq handled
            /\ UNCHANGED <<settings, handled, report, target, tags, errors, disturbed>>
        BY <3>11 DEF End, work
      <4>2. Waiting' /\ Complete' /\ ListedAll' /\ Sorted'
        BY <3>1, <4>1 DEF Waiting, Complete, ListedAll, PostInv, Sorted, Current, Failed, Loaded
      <4>3. Refuted' /\ Told'
        BY <3>1, <4>1 DEF PostInv, Refuted, Told, TagOf, TagsCount, Tagging, Failed
      <4> QED
        BY <2>1, <4>2, <4>3 DEF PostInv
    <3> QED
      BY <2>3, <3>2, <3>3, <3>4, <3>5, <3>6, <3>7, <3>8, <3>9, <3>10, <3>11 DEF PostStep
  <2> QED
    BY <1>2, <2>2, <2>3 DEF PostNext
<1> QED
  BY <1>1, <1>2

LEMMA PostInvariance == PostSpec => []PostInv
BY PostInitInv, PostNextInv, PTL DEF PostSpec

\* One verdict for each commit, whatever the order in which the search finds the
\* reports and whatever earlier runs tagged.
LEMMA PostTagTellsVerdict == PostInv => TagTellsVerdict
<1> SUFFICES ASSUME PostInv, step = "ended", TagsCount, errors = {}, disturbed = {}, NEW r \in Loaded
             PROVE  /\ target[r] \in Commit
                    /\ tags[target[r]] = IF \E x \in Loaded : target[x] = target[r] /\ Failed(x)
                                         THEN {v \in {"fail"} : "tag" \in settings.fail}
                                         ELSE {v \in {"pass"} : "tag" \in settings.pass}
  BY DEF TagTellsVerdict, TagsCount
<1>1. Loaded \subseteq handled /\ handled \subseteq Report
  BY DEF PostInv, PostTypeOK, Complete, TagsCount
<1>2. \A x \in handled : Failed(x) => x \in Loaded
  BY <1>1 DEF Failed, Loaded
<1>3. target[r] \in Commit /\ tags[target[r]] = TagOf(target[r])
  BY <1>1 DEF PostInv, Told
<1>4. (\E x \in handled : target[x] = target[r] /\ Failed(x))
          <=> \E x \in Loaded : target[x] = target[r] /\ Failed(x)
  BY <1>1, <1>2
<1> QED
  BY <1>3, <1>4 DEF TagOf

LEMMA PostFailureRefutesPass == PostInv => FailureRefutesPass
BY DEF PostInv, Complete, Refuted, FailureRefutesPass, TagsCount

-----------------------------------------------------------------------------
(* The composition *)

\* Where the composition touches the reports of the post test actions, these are
\* still waiting.
LEMMA StepRefines ==
    ASSUME TypeOK, Next
    PROVE  PostNext \/ UNCHANGED postVars
<1>1. CASE Store
  <2>1. step = "waiting" /\ at \in DOMAIN Suites /\ verdict \in Judgement
    BY <1>1, ReportPublishingAssumption DEF Store, TypeOK
  <2>2. Suites[at] \in Report
    BY <2>1, ReportPublishingAssumption
  <2>3. PICK result \in {verdict, "unreadable", "absent"} : outcome' = [outcome EXCEPT ![Suites[at]] = result]
    BY <1>1 DEF Store
  <2>4. outcome' \in [Report -> Outcome]
    BY <2>1, <2>2, <2>3 DEF TypeOK, PostTypeOK, Outcome, Verdict, Judgement
  <2> QED
    BY <1>1, <2>1, <2>4 DEF Store, PostNext, Written
<1>2. CASE PostTest
  BY <1>2 DEF PostTest, PostNext
<1>3. CASE Tested \/ PublishingDone \/ EndRun \/ Repository
  BY <1>3 DEF Tested, PublishingDone, EndRun, Repository
<1> QED
  BY <1>1, <1>2, <1>3 DEF Next

LEMMA InitTypes == Init => TypeOK
<1> SUFFICES ASSUME Init PROVE TypeOK
  OBVIOUS
<1>1. PostTypeOK /\ step = "waiting"
  BY PostInitInv DEF Init, PostInv, PostInit
<1>2. at \in 1 .. Len(Suites) + 1
  BY ReportPublishingAssumption DEF Init
<1> QED
  BY <1>1, <1>2 DEF Init, TypeOK

LEMMA NextTypes == TypeOK /\ [Next]_vars => TypeOK'
<1> SUFFICES ASSUME TypeOK, [Next]_vars PROVE TypeOK'
  OBVIOUS
<1>1. CASE UNCHANGED vars
  BY <1>1 DEF vars, publishing, postVars, work, TypeOK, PostTypeOK, Published
<1>2. CASE Next
  <2> USE ReportPublishingAssumption
  <2>1. PostTypeOK'
    <3>1. CASE PostNext
      BY <3>1, PostTypes DEF TypeOK
    <3>2. CASE UNCHANGED postVars
      BY <3>2 DEF postVars, work, TypeOK, PostTypeOK
    <3> QED
      BY <1>2, <3>1, <3>2, StepRefines
  <2>2. CASE Tested
    <3>1. at' \in 1 .. Len(Suites) + 1 /\ (pc' = "storing" => at' <= Len(Suites) /\ verdict' # "none")
      BY <2>2 DEF Tested, Through, TypeOK, Judgement
    <3> QED
      BY <2>1, <2>2, <3>1 DEF Tested, Through, TypeOK, postVars, publishing
  <2>3. CASE Store
    <3>1. Suites[at] \in Report /\ at \in 1 .. Len(Suites)
      BY <2>3 DEF Store, TypeOK
    <3>2. scripts' \subseteq [report : Report, base : SUBSET branch, cloned : BOOLEAN]
      <4> DEFINE x == [report |-> Suites[at], base |-> {}, cloned |-> FALSE]
      <4>1. x \in [report : Report, base : SUBSET branch, cloned : BOOLEAN]
        BY <3>1
      <4>2. scripts' \subseteq scripts \cup {x}
        BY <2>3 DEF Store, Launch
      <4> QED
        BY <4>1, <4>2 DEF TypeOK
    <3> QED
      BY <2>1, <2>3, <3>1, <3>2 DEF Store, Through, TypeOK
  <2>4. CASE PublishingDone
    BY <2>1, <2>4 DEF PublishingDone, Through, TypeOK, postVars, publishing
  <2>5. CASE EndRun
    BY <2>1, <2>5 DEF EndRun, TypeOK, postVars, publishing
  <2>6. CASE Repository
    <3>1. branch \subseteq branch' /\ branch' \subseteq Published
      BY <2>6 DEF Repository, Clone, Push, PublishFails, OtherPublishes, TypeOK, Published
    <3>2. scripts' \subseteq [report : Report, base : SUBSET branch, cloned : BOOLEAN]
      <4>1. CASE \E x \in scripts : Clone(x)
        <5>1. PICK x \in scripts : Clone(x)
          BY <4>1
        <5>2. [x EXCEPT !.base = branch, !.cloned = TRUE] \in [report : Report, base : SUBSET branch, cloned : BOOLEAN]
          BY DEF TypeOK
        <5> QED
          BY <5>1, <5>2 DEF Clone, TypeOK
      <4>2. CASE ~\E x \in scripts : Clone(x)
        BY <2>6, <4>2 DEF Repository, Push, PublishFails, OtherPublishes, TypeOK
      <4> QED
        BY <4>1, <4>2
    <3>3. [report : Report, base : SUBSET branch, cloned : BOOLEAN]
              \subseteq [report : Report, base : SUBSET branch', cloned : BOOLEAN]
      BY <3>1
    <3> QED
      BY <2>1, <2>6, <3>1, <3>2, <3>3 DEF Repository, TypeOK, postVars
  <2>7. CASE PostTest
    <3>1. step' # "waiting" => pc' = "ended"
      BY <2>7 DEF PostTest
    <3> QED
      BY <2>1, <2>7, <3>1 DEF PostTest, publishing, TypeOK
  <2> QED
    BY <1>2, <2>2, <2>3, <2>4, <2>5, <2>6, <2>7 DEF Next
<1> QED
  BY <1>1, <1>2

\* The types of both parts; a script has cloned a part of what the branch holds,
\* and the post test actions begin when the run has ended.
THEOREM PublishingTypeCorrect == Spec => []TypeOK
BY InitTypes, NextTypes, PTL DEF Spec

\* The composition implements the post test actions: they see the run as
\* something that leaves reports in the workspace before they start.
THEOREM PublishingImplementsPost == Spec => PostSpec
<1>1. Init => PostInit
  BY DEF Init
<1>2. TypeOK /\ [Next]_vars => [PostNext]_postVars
  BY StepRefines DEF vars
<1> QED
  BY <1>1, <1>2, PublishingTypeCorrect, PTL DEF Spec, PostSpec

\* When nothing goes wrong, every commit that reports were taken to has the tag of
\* the worst of them and no other, for any number of reports, whatever was tagged
\* before and wherever the ref moves between the reports.
THEOREM TagIsVerdict == Spec => []TagTellsVerdict
BY PublishingImplementsPost, PostInvariance, PostTagTellsVerdict, PTL

\* A failed report that is processed undisturbed refutes the pass of the commit it
\* was taken to, whatever happens to the other reports, to Teams and to the ref.
THEOREM FailureIsRefutation == Spec => []FailureRefutesPass
BY PublishingImplementsPost, PostInvariance, PostFailureRefutesPass, PTL

\* No push takes a published report from the branch, however many pipelines and
\* abandoned scripts push to it.
THEOREM NothingUnpublished == Spec => PublishedForGood
<1>1. TypeOK /\ [Next]_vars => [branch \subseteq branch']_branch
  <2> SUFFICES ASSUME TypeOK, Next PROVE branch \subseteq branch'
    BY DEF vars, publishing
  <2>1. CASE Repository
    BY <2>1 DEF Repository, Clone, Push, PublishFails, OtherPublishes
  <2>2. CASE Tested \/ Store \/ PublishingDone \/ EndRun \/ PostTest
    BY <2>2 DEF Tested, Store, PublishingDone, EndRun, PostTest, publishing
  <2> QED
    BY <2>1, <2>2 DEF Next
<1> QED
  BY <1>1, PublishingTypeCorrect, PTL DEF Spec, PublishedForGood
=============================================================================
