------------------------- MODULE TestSessionsProofs -------------------------
(***************************************************************************)
(* Proofs about TestSessions, for any number of deployers and applications *)
(* and any measurements: types, and that nobody gets the report of another *)
(* deployer's test as long as no application was restarted.                *)
(***************************************************************************)
EXTENDS TestSessions, TLAPS

\* While a deployer asks for its session, the number it was given is that of a
\* session of its own.
Asking == {"polling", "asked", "reporting"}
OwnSession ==
    restarts = 0 =>
        \A d \in Deployer : pc[d] \in Asking =>
            /\ id[d] \in DOMAIN sessions[Current(d)]
            /\ sessions[Current(d)][id[d]].by = d

Inv == TypeOK /\ OwnSession /\ OwnReport

-----------------------------------------------------------------------------
(* The applications *)

\* A session that has completed has a verdict, and no other has one.
Settled(s) == (s.status = "COMPLETED") = (s.verdict # "none")

LEMMA AppTypeIsSettled ==
    AppTypeOK <=> /\ sessions \in [App -> Seq(Session)] /\ restarts \in 0 .. MaxRestarts
                  /\ \A a \in App : \A i \in DOMAIN sessions[a] : Settled(sessions[a][i])
BY DEF AppTypeOK, Settled

LEMMA AppTypeIsSettledNext ==
    AppTypeOK' <=> /\ sessions' \in [App -> Seq(Session)] /\ restarts' \in 0 .. MaxRestarts
                   /\ \A a \in App : \A i \in DOMAIN sessions'[a] : Settled(sessions'[a][i])
BY DEF AppTypeOK, Settled

LEMMA VerdictType == ASSUME NEW m \in Measured PROVE VerdictOfK6(m) \in Judgement \cup {"none"}
BY DEF VerdictOfK6, Judgement

LEMMA CurrentIsApp ==
    ASSUME TypeOK, NEW d \in Deployer, MoreSuites(d)
    PROVE  Current(d) \in App
BY TestSessionsAssumption DEF TypeOK, MoreSuites, Current

\* No session is taken away or changes hands, unless its application is
\* restarted.
Kept ==
    \A a \in App : \A i \in DOMAIN sessions[a] :
        i \in DOMAIN sessions'[a] /\ sessions'[a][i].by = sessions[a][i].by

LEMMA PostStartKeeps ==
    ASSUME AppTypeOK, NEW a \in App, NEW c \in Caller, PostStart(a, c)
    PROVE  /\ AppTypeOK' /\ Kept /\ UNCHANGED restarts
           /\ Len(sessions'[a]) \in DOMAIN sessions'[a]
           /\ sessions'[a][Len(sessions'[a])].by = c
<1>1. /\ sessions[a] \in Seq(Session) /\ New(c) \in Session
      /\ New(c).by = c /\ Settled(New(c))
  BY DEF AppTypeOK, New, Session, Judgement, Settled
<1>2. /\ sessions' = [sessions EXCEPT ![a] = Append(sessions[a], New(c))] /\ UNCHANGED restarts
  BY DEF PostStart
<1>3. /\ sessions'[a] = Append(sessions[a], New(c))
      /\ \A b \in App \ {a} : sessions'[b] = sessions[b]
      /\ sessions' \in [App -> Seq(Session)]
  BY <1>1, <1>2 DEF AppTypeOK
<1> HIDE DEF New
<1>4. /\ Len(sessions'[a]) = Len(sessions[a]) + 1
      /\ DOMAIN sessions'[a] = 1 .. Len(sessions[a]) + 1 /\ DOMAIN sessions[a] = 1 .. Len(sessions[a])
      /\ Len(sessions[a]) \in Nat
      /\ \A i \in DOMAIN sessions[a] : sessions'[a][i] = sessions[a][i]
      /\ sessions'[a][Len(sessions[a]) + 1] = New(c)
  BY <1>1, <1>3
<1>5. AppTypeOK'
  <2>1. \A i \in DOMAIN sessions'[a] : i \in DOMAIN sessions[a] \/ i = Len(sessions[a]) + 1
    BY <1>4
  <2>2. \A i \in DOMAIN sessions'[a] : Settled(sessions'[a][i])
    BY <2>1, <1>1, <1>4, AppTypeIsSettled
  <2>3. \A b \in App : \A i \in DOMAIN sessions'[b] : Settled(sessions'[b][i])
    BY <2>2, <1>3, AppTypeIsSettled
  <2> QED
    BY <2>3, <1>2, <1>3, AppTypeIsSettled, AppTypeIsSettledNext
<1>6. Kept
  <2>1. \A i \in DOMAIN sessions[a] :
            i \in DOMAIN sessions'[a] /\ sessions'[a][i].by = sessions[a][i].by
    BY <1>4
  <2> QED
    BY <2>1, <1>3 DEF Kept
<1> QED
  BY <1>1, <1>2, <1>4, <1>5, <1>6

LEMMA SetSessionKeeps ==
    ASSUME AppTypeOK, NEW a \in App, NEW i \in DOMAIN sessions[a],
           NEW s \in {"PENDING", "RUNNING", "COMPLETED", "ERROR"}, NEW v \in Judgement \cup {"none"},
           (s = "COMPLETED") = (v # "none"), SetSession(a, i, s, v), UNCHANGED restarts
    PROVE  AppTypeOK' /\ Kept
<1> DEFINE new == [status |-> s, verdict |-> v, by |-> sessions[a][i].by]
<1>1. /\ sessions[a] \in Seq(Session) /\ sessions[a][i] \in Session
  BY DEF AppTypeOK
<1>2. new \in Session /\ new.by = sessions[a][i].by /\ Settled(new)
  BY <1>1 DEF Session, Settled
<1>3. sessions' = [sessions EXCEPT ![a] = [sessions[a] EXCEPT ![i] = new]]
  BY DEF SetSession
<1> HIDE DEF new
<1>4. /\ sessions'[a] = [sessions[a] EXCEPT ![i] = new] /\ \A b \in App \ {a} : sessions'[b] = sessions[b]
  BY <1>3 DEF AppTypeOK
<1>5. /\ DOMAIN sessions'[a] = DOMAIN sessions[a] /\ sessions'[a][i] = new
      /\ \A j \in DOMAIN sessions[a] \ {i} : sessions'[a][j] = sessions[a][j]
      /\ sessions'[a] \in Seq(Session)
  BY <1>1, <1>2, <1>4
<1>6. sessions' \in [App -> Seq(Session)]
  BY <1>3, <1>5, <1>4 DEF AppTypeOK
<1>7. AppTypeOK'
  <2>1. \A j \in DOMAIN sessions'[a] : Settled(sessions'[a][j])
    BY <1>2, <1>5, AppTypeIsSettled
  <2> QED
    BY <2>1, <1>4, <1>6, AppTypeIsSettled, AppTypeIsSettledNext
<1> QED
  BY <1>2, <1>4, <1>5, <1>7 DEF Kept

LEMMA AppStepKeeps ==
    ASSUME AppTypeOK, AppStep
    PROVE  AppTypeOK' /\ (Kept \/ restarts' > 0) /\ restarts <= restarts'
<1>1. CASE \E a \in App : Restart(a)
  <2>1. PICK a \in App : Restart(a)
    BY <1>1
  <2>2. /\ restarts' \in 0 .. MaxRestarts /\ restarts' > 0 /\ restarts <= restarts'
    BY <2>1, TestApplicationAssumption DEF Restart, AppTypeOK
  <2>3. /\ sessions' \in [App -> Seq(Session)] /\ \A b \in App \ {a} : sessions'[b] = sessions[b]
        /\ DOMAIN sessions'[a] = {}
    BY <2>1 DEF Restart, AppTypeOK
  <2> QED
    BY <2>2, <2>3, AppTypeIsSettled, AppTypeIsSettledNext
<1>2. ASSUME NEW a \in App, NEW i \in DOMAIN sessions[a], RunTests(a, i) PROVE AppTypeOK' /\ Kept
  BY <1>2, SetSessionKeeps DEF RunTests
<1>3. ASSUME NEW a \in App, NEW i \in DOMAIN sessions[a], TestEnds(a, i) PROVE AppTypeOK' /\ Kept
  BY <1>3, SetSessionKeeps, VerdictType DEF TestEnds, Judgement
<1>4. ASSUME NEW a \in App, NEW i \in DOMAIN sessions[a], RunTests(a, i) \/ TestEnds(a, i)
      PROVE  restarts' = restarts /\ restarts \in Nat
  BY <1>4 DEF RunTests, TestEnds, AppTypeOK
<1> QED
  BY <1>1, <1>2, <1>3, <1>4 DEF AppStep

-----------------------------------------------------------------------------
(* The deployers *)

Places == {"run", "polling", "asked", "reporting", "native", "storing", "ended"}
Report == [verdict : Judgement, by : Deployer]

LEMMA NoReportIsNone == \A r \in Report : r # NoReport
BY DEF Report, NoReport

Sets(d, w, n, i, l, f, g) ==
    /\ pc' = [pc EXCEPT ![d] = w] /\ at' = [at EXCEPT ![d] = n] /\ id' = [id EXCEPT ![d] = i]
    /\ late' = [late EXCEPT ![d] = l] /\ failures' = [failures EXCEPT ![d] = f]
    /\ got' = [got EXCEPT ![d] = g]

Fits(d, w, n, i, l, f, g) ==
    /\ w \in Places /\ n \in Nat \ {0} /\ i \in Nat /\ l \in BOOLEAN
    /\ f \in 0 .. MaxTechFailures - 1 /\ g \in {NoReport} \cup Report
    /\ n <= Len(Plan[d]) + 1 /\ (w \notin {"run", "ended"} => n <= Len(Plan[d]))
    /\ (w \in {"native", "storing"}) = (g # NoReport)

\* What is left to show of types when one deployer has moved.
LEMMA LoopType ==
    ASSUME TypeOK, AppTypeOK', NEW d \in Deployer, NEW w, NEW n, NEW i, NEW l, NEW f, NEW g,
           Sets(d, w, n, i, l, f, g), Fits(d, w, n, i, l, f, g)
    PROVE  TypeOK'
<1>1. /\ pc' \in [Deployer -> Places] /\ at' \in [Deployer -> Nat \ {0}]
      /\ id' \in [Deployer -> Nat] /\ late' \in [Deployer -> BOOLEAN]
      /\ failures' \in [Deployer -> 0 .. MaxTechFailures - 1]
      /\ got' \in [Deployer -> {NoReport} \cup Report]
  BY DEF TypeOK, Places, Report, Sets, Fits
<1>2. /\ pc'[d] = w /\ at'[d] = n /\ got'[d] = g
      /\ \A e \in Deployer \ {d} : pc'[e] = pc[e] /\ at'[e] = at[e] /\ got'[e] = got[e]
  BY DEF TypeOK, Sets
<1>3. ASSUME NEW e \in Deployer
      PROVE  /\ at'[e] <= Len(Plan[e]) + 1 /\ (pc'[e] \notin {"run", "ended"} => at'[e] <= Len(Plan[e]))
             /\ (pc'[e] \in {"native", "storing"}) = (got'[e] # NoReport)
  <2>1. CASE e = d
    BY <2>1, <1>2 DEF Fits
  <2>2. CASE e # d
    BY <2>2, <1>2 DEF TypeOK, MoreSuites
  <2> QED
    BY <2>1, <2>2
<1> QED
  BY <1>1, <1>3 DEF TypeOK, MoreSuites, Places, Report

\* What deployer d does leaves the other ones and their sessions alone.
Moves(d) ==
    /\ Kept /\ UNCHANGED restarts
    /\ \A e \in Deployer \ {d} :
          pc'[e] = pc[e] /\ at'[e] = at[e] /\ id'[e] = id[e] /\ got'[e] = got[e]

\* Deployer d has asked for a session of its own, or for none; the report it has
\* is its own.
OwnOf(d) ==
    /\ pc[d] \in Asking => /\ id[d] \in DOMAIN sessions[Current(d)]
                           /\ sessions[Current(d)][id[d]].by = d
    /\ got[d] # NoReport => got[d].by = d

LEMMA OwnOfMeaning ==
    OwnSession /\ OwnReport <=> (restarts = 0 => \A d \in Deployer : OwnOf(d))
BY DEF OwnSession, OwnReport, OwnOf

LEMMA OwnOfMeaningNext ==
    OwnSession' /\ OwnReport' <=> (restarts' = 0 => \A d \in Deployer : OwnOf(d)')
BY DEF OwnSession, OwnReport, OwnOf

LEMMA KeptKeepsOwn ==
    ASSUME TypeOK, Kept, NEW d \in Deployer, OwnOf(d),
           pc'[d] = pc[d], at'[d] = at[d], id'[d] = id[d], got'[d] = got[d]
    PROVE  OwnOf(d)'
<1>1. Current(d)' = Current(d)
  BY DEF Current
<1>2. pc[d] \in Asking => Current(d) \in App
  BY CurrentIsApp DEF TypeOK, Asking
<1> QED
  BY <1>1, <1>2 DEF OwnOf, Kept

LEMMA OwnIsKept ==
    ASSUME Inv, NEW d \in Deployer, Moves(d), restarts = 0 => OwnOf(d)'
    PROVE  OwnSession' /\ OwnReport'
<1>1. ASSUME restarts = 0, NEW e \in Deployer \ {d} PROVE OwnOf(e)'
  BY <1>1, KeptKeepsOwn, OwnOfMeaning DEF Inv, Moves
<1>2. restarts' = restarts
  BY DEF Moves
<1> QED
  BY <1>1, <1>2, OwnOfMeaningNext

LEMMA StillKept == ASSUME UNCHANGED appVars PROVE Kept /\ UNCHANGED restarts
BY DEF appVars, Kept

LEMMA AppTypeKept == ASSUME TypeOK, UNCHANGED appVars PROVE AppTypeOK'
BY DEF TypeOK, AppTypeOK, appVars

LEMMA SafeMove ==
    ASSUME Inv, NEW d \in Deployer, NEW w, NEW n, NEW i, NEW l, NEW f, NEW g,
           Sets(d, w, n, i, l, f, g), Fits(d, w, n, i, l, f, g),
           AppTypeOK', Kept, UNCHANGED restarts,
           restarts = 0 /\ w \in Asking =>
               i \in DOMAIN sessions'[Plan[d][n]] /\ sessions'[Plan[d][n]][i].by = d,
           restarts = 0 /\ g # NoReport => g.by = d
    PROVE  Inv'
<1>1. TypeOK'
  BY LoopType DEF Inv
<1>2. /\ pc'[d] = w /\ at'[d] = n /\ id'[d] = i /\ got'[d] = g
      /\ \A e \in Deployer \ {d} :
            pc'[e] = pc[e] /\ at'[e] = at[e] /\ id'[e] = id[e] /\ got'[e] = got[e]
  BY DEF Inv, TypeOK, Sets
<1>3. Moves(d)
  BY <1>2 DEF Moves
<1>4. restarts = 0 => OwnOf(d)'
  BY <1>2 DEF OwnOf, Current
<1> QED
  BY <1>1, <1>3, <1>4, OwnIsKept DEF Inv

LEMMA ThroughSafe ==
    ASSUME Inv, NEW d \in Deployer, MoreSuites(d), Through(d), AppTypeOK', Kept, UNCHANGED restarts
    PROVE  Inv'
<1>1. Fits(d, "run", at[d] + 1, 0, FALSE, 0, NoReport)
  BY TestSessionsAssumption DEF Inv, TypeOK, MoreSuites, Places, Fits
<1>2. Sets(d, "run", at[d] + 1, 0, FALSE, 0, NoReport)
  BY DEF Through, GoTo, Fresh, Sets
<1> QED
  BY <1>1, <1>2, SafeMove DEF Asking

\* What most moves have in common: the applications have not changed.
LEMMA QuietMove ==
    ASSUME Inv, NEW d \in Deployer, NEW w, NEW i, NEW l, NEW f, NEW g,
           Sets(d, w, at[d], i, l, f, g), Fits(d, w, at[d], i, l, f, g), UNCHANGED appVars,
           w \in Asking => pc[d] \in Asking /\ i = id[d],
           g = got[d] \/ (restarts = 0 => g.by = d)
    PROVE  Inv'
<1>1. AppTypeOK' /\ Kept /\ UNCHANGED restarts /\ sessions' = sessions
  BY AppTypeKept, StillKept DEF Inv, appVars
<1>2. restarts = 0 => OwnOf(d)
  BY OwnOfMeaning DEF Inv
<1>3. restarts = 0 /\ w \in Asking =>
          i \in DOMAIN sessions'[Plan[d][at[d]]] /\ sessions'[Plan[d][at[d]]][i].by = d
  BY <1>1, <1>2 DEF OwnOf, Current
<1>4. restarts = 0 /\ g # NoReport => g.by = d
  BY <1>2 DEF OwnOf
<1> QED
  BY <1>1, <1>3, <1>4, SafeMove

LEMMA Here ==
    ASSUME TypeOK, NEW d \in Deployer
    PROVE  /\ pc[d] \in Places /\ at[d] \in Nat \ {0} /\ id[d] \in Nat /\ late[d] \in BOOLEAN
           /\ failures[d] \in 0 .. MaxTechFailures - 1 /\ got[d] \in {NoReport} \cup Report
           /\ at[d] <= Len(Plan[d]) + 1 /\ (pc[d] \notin {"run", "ended"} => MoreSuites(d))
           /\ (pc[d] \in {"native", "storing"}) = (got[d] # NoReport)
           /\ at = [at EXCEPT ![d] = at[d]] /\ id = [id EXCEPT ![d] = id[d]]
           /\ late = [late EXCEPT ![d] = late[d]] /\ failures = [failures EXCEPT ![d] = failures[d]]
           /\ got = [got EXCEPT ![d] = got[d]]
BY DEF TypeOK, Places, Report

LEMMA StartSafe == ASSUME Inv, NEW d \in Deployer, Start(d) PROVE Inv'
<1> DEFINE new == Len(sessions'[Current(d)])
<1>1. /\ AppTypeOK' /\ Kept /\ UNCHANGED restarts /\ MoreSuites(d) /\ Current(d) \in App
      /\ new \in DOMAIN sessions'[Current(d)] /\ sessions'[Current(d)][new].by = d
  BY PostStartKeeps, CurrentIsApp, TestSessionsAssumption DEF Inv, TypeOK, Start
<1>2. new \in Nat
  BY <1>1 DEF AppTypeOK
<1>3. CASE Through(d)
  BY <1>1, <1>3, ThroughSafe
<1>4. CASE GoTo(d, "polling") /\ id' = [id EXCEPT ![d] = new] /\ UNCHANGED <<at, late, failures, got>>
  <2>1. Sets(d, "polling", at[d], new, late[d], failures[d], got[d])
    BY <1>4, Here DEF Inv, GoTo, Sets
  <2>2. pc[d] = "run" /\ got[d] = NoReport
    BY Here DEF Inv, Start
  <2>3. Fits(d, "polling", at[d], new, late[d], failures[d], got[d])
    BY <1>1, <1>2, <2>2, Here DEF Inv, Fits, Places, MoreSuites
  <2>4. new \in DOMAIN sessions'[Plan[d][at[d]]] /\ sessions'[Plan[d][at[d]]][new].by = d
    BY <1>1 DEF Current
  <2> HIDE DEF new
  <2> QED
    BY <1>1, <2>1, <2>2, <2>3, <2>4, SafeMove
<1> QED
  BY <1>3, <1>4 DEF Start

LEMMA QuietThrough ==
    ASSUME Inv, NEW d \in Deployer, MoreSuites(d), Through(d), UNCHANGED appVars
    PROVE  Inv'
BY ThroughSafe, AppTypeKept, StillKept DEF Inv

\* From one place to another where the report is neither got nor given up.
Along(d, w, l, f) ==
    /\ GoTo(d, w) /\ UNCHANGED <<at, id, got>>
    /\ late' = [late EXCEPT ![d] = l] /\ failures' = [failures EXCEPT ![d] = f]

LEMMA OnTheWay ==
    ASSUME Inv, NEW d \in Deployer, MoreSuites(d), NEW w \in Places, NEW l \in BOOLEAN,
           NEW f \in 0 .. MaxTechFailures - 1, UNCHANGED appVars, Along(d, w, l, f),
           (w \in {"native", "storing"}) = (got[d] # NoReport), w \in Asking => pc[d] \in Asking
    PROVE  Inv'
<1>1. Sets(d, w, at[d], id[d], l, f, got[d])
  BY Here DEF Inv, GoTo, Sets, Along
<1>2. Fits(d, w, at[d], id[d], l, f, got[d])
  BY Here DEF Inv, Fits, MoreSuites
<1> QED
  BY <1>1, <1>2, QuietMove

LEMMA LoopStays ==
    ASSUME Inv, NEW d \in Deployer, UNCHANGED loop, NEW w, GoTo(d, w)
    PROVE  Along(d, w, late[d], failures[d])
BY Here DEF Inv, loop, Along

LEMMA AnsweredSafe == ASSUME Inv, NEW d \in Deployer, Answered(d) PROVE Inv'
<1>a. pc[d] = "asked" /\ UNCHANGED appVars
  BY DEF Answered
<1>b. 0 \in 0 .. MaxTechFailures - 1
  BY TestSessionsAssumption
<1>1. /\ pc[d] = "asked" /\ MoreSuites(d) /\ UNCHANGED appVars /\ got[d] = NoReport
      /\ 0 \in 0 .. MaxTechFailures - 1 /\ late[d] \in BOOLEAN /\ late = [late EXCEPT ![d] = late[d]]
  BY <1>a, <1>b, Here DEF Inv
<1>2. CASE GoTo(d, "polling") /\ failures' = [failures EXCEPT ![d] = 0] /\ UNCHANGED <<at, id, late, got>>
  <2>1. Along(d, "polling", late[d], 0)
    BY <1>1, <1>2 DEF Along
  <2> QED
    BY <1>1, <2>1, OnTheWay DEF Places, Asking
<1>3. CASE /\ GoTo(d, "reporting") /\ failures' = [failures EXCEPT ![d] = 0]
           /\ late' = [late EXCEPT ![d] = FALSE] /\ UNCHANGED <<at, id, got>>
  <2>1. Along(d, "reporting", FALSE, 0)
    BY <1>1, <1>3 DEF Along
  <2>2. "reporting" \in Places /\ "reporting" \notin {"native", "storing"} /\ FALSE \in BOOLEAN
    BY DEF Places
  <2>3. pc[d] \in Asking /\ ("reporting" \in {"native", "storing"}) = (got[d] # NoReport)
    BY <1>1, <2>2 DEF Asking
  <2> QED
    BY <1>1, <2>1, <2>2, <2>3, OnTheWay, Zenon
<1>4. CASE Through(d)
  BY <1>1, <1>4, QuietThrough
<1> QED
  BY <1>2, <1>3, <1>4 DEF Answered

LEMMA PollFailsSafe == ASSUME Inv, NEW d \in Deployer, PollFails(d) PROVE Inv'
<1>1. /\ pc[d] = "asked" /\ MoreSuites(d) /\ UNCHANGED appVars /\ got[d] = NoReport
      /\ failures[d] \in Nat /\ late[d] \in BOOLEAN /\ late = [late EXCEPT ![d] = late[d]]
  BY Here DEF Inv, PollFails
<1>2. CASE /\ failures[d] + 1 < MaxTechFailures /\ GoTo(d, "polling")
           /\ failures' = [failures EXCEPT ![d] = failures[d] + 1] /\ UNCHANGED <<at, id, late, got>>
  <2>1. failures[d] + 1 \in 0 .. MaxTechFailures - 1
    BY <1>1, <1>2, TestSessionsAssumption
  <2>2. Along(d, "polling", late[d], failures[d] + 1)
    BY <1>1, <1>2 DEF Along
  <2> QED
    BY <1>1, <2>1, <2>2, OnTheWay DEF Places, Asking
<1>3. CASE Through(d)
  BY <1>1, <1>3, QuietThrough
<1> QED
  BY <1>2, <1>3 DEF PollFails

LEMMA GetReportSafe == ASSUME Inv, NEW d \in Deployer, GetReport(d) PROVE Inv'
<1>1. /\ pc[d] = "reporting" /\ MoreSuites(d) /\ UNCHANGED appVars /\ got[d] = NoReport
      /\ Current(d) \in App /\ (restarts = 0 => OwnOf(d))
  BY Here, CurrentIsApp, OwnOfMeaning DEF Inv, GetReport
<1>2. CASE Through(d)
  BY <1>1, <1>2, QuietThrough
<1>3. CASE ~ Through(d)
  <2> DEFINE session == sessions[Current(d)][id[d]]
             report == [verdict |-> session.verdict, by |-> session.by]
             where == IF Current(d) \in Blocking THEN "native" ELSE "storing"
  <2>1. /\ StatusIs(d, {"COMPLETED"}) /\ got' = [got EXCEPT ![d] = report]
        /\ GoTo(d, where) /\ UNCHANGED <<at, id, late, failures>>
    BY <1>3 DEF GetReport
  <2>2. /\ sessions[Current(d)] \in Seq(Session) /\ id[d] \in DOMAIN sessions[Current(d)]
        /\ session.status = "COMPLETED" /\ Settled(session)
    BY <1>1, <2>1, AppTypeIsSettled DEF Inv, TypeOK, StatusIs, Answers
  <2>3. session \in Session
    BY <2>2
  <2>4. report \in Report /\ report.by = session.by
    BY <2>2, <2>3, TestSessionsAssumption DEF Session, Settled, Report, Judgement
  <2>5. restarts = 0 => report.by = d
    BY <1>1, <2>4 DEF OwnOf, Asking
  <2>6. Sets(d, where, at[d], id[d], late[d], failures[d], report)
    BY <2>1, Here DEF Inv, Sets, GoTo
  <2>7. Fits(d, where, at[d], id[d], late[d], failures[d], report)
    BY <1>1, <2>4, Here, NoReportIsNone DEF Inv, Fits, Places, MoreSuites
  <2>8. where \notin Asking
    BY DEF Asking
  <2> HIDE DEF report, where
  <2> QED
    BY <1>1, <2>5, <2>6, <2>7, <2>8, QuietMove
<1> QED
  BY <1>2, <1>3

LEMMA OtherMovesSafe ==
    ASSUME Inv, NEW d \in Deployer,
           \/ Ask(d) \/ TimesOut(d) \/ Native(d) \/ Store(d) \/ EndSuites(d) \/ StartFails(d)
           \/ AnswerBreaks(d) \/ GetReportFails(d) \/ NativeFails(d) \/ Dies(d) \/ TimePasses(d)
    PROVE  Inv'
<1>1. UNCHANGED appVars
  BY DEF Ask, TimesOut, Native, Store, EndSuites, StartFails, AnswerBreaks, GetReportFails, NativeFails, Dies,
         TimePasses
<1>2. CASE Ask(d)
  <2>1. pc[d] = "polling" /\ MoreSuites(d) /\ got[d] = NoReport /\ UNCHANGED loop
    BY <1>2, Here DEF Inv, Ask
  <2>2. GoTo(d, "asked")
    BY <1>2 DEF Ask
  <2>3. /\ Along(d, "asked", late[d], failures[d])
        /\ late[d] \in BOOLEAN /\ failures[d] \in 0 .. MaxTechFailures - 1
    BY <2>1, <2>2, LoopStays, Here DEF Inv
  <2> QED
    BY <1>1, <2>1, <2>3, OnTheWay DEF Asking, Places
<1>3. CASE Native(d)
  <2>1. pc[d] = "native" /\ MoreSuites(d) /\ got[d] # NoReport /\ UNCHANGED loop
    BY <1>3, Here DEF Inv, Native
  <2>2. GoTo(d, "storing")
    BY <1>3 DEF Native
  <2>3. /\ Along(d, "storing", late[d], failures[d])
        /\ late[d] \in BOOLEAN /\ failures[d] \in 0 .. MaxTechFailures - 1
    BY <2>1, <2>2, LoopStays, Here DEF Inv
  <2> QED
    BY <1>1, <2>1, <2>3, OnTheWay DEF Asking, Places
<1>4. CASE EndSuites(d)
  <2>1. pc[d] = "run" /\ got[d] = NoReport /\ UNCHANGED loop /\ GoTo(d, "ended")
    BY <1>4, Here DEF Inv, EndSuites
  <2>2. Sets(d, "ended", at[d], id[d], late[d], failures[d], got[d])
    BY <2>1, Here DEF Inv, GoTo, Sets, loop
  <2>3. Fits(d, "ended", at[d], id[d], late[d], failures[d], got[d])
    BY <2>1, Here DEF Inv, Fits, Places
  <2> QED
    BY <1>1, <2>2, <2>3, QuietMove DEF Asking
<1>5. CASE Dies(d)
  <2>1. Sets(d, "ended", at[d], 0, FALSE, 0, NoReport)
    BY <1>5 DEF Dies, GoTo, Fresh, Sets
  <2>2. Fits(d, "ended", at[d], 0, FALSE, 0, NoReport)
    BY Here, TestSessionsAssumption DEF Inv, Fits, Places
  <2>3. AppTypeOK' /\ Kept /\ UNCHANGED restarts
    BY <1>1, AppTypeKept, StillKept DEF Inv
  <2> QED
    BY <2>1, <2>2, <2>3, SafeMove DEF Asking
<1>6. CASE TimePasses(d)
  <2>1. /\ pc[d] \in {"polling", "asked"} /\ MoreSuites(d) /\ got[d] = NoReport
        /\ failures[d] \in 0 .. MaxTechFailures - 1 /\ failures = [failures EXCEPT ![d] = failures[d]]
        /\ pc = [pc EXCEPT ![d] = pc[d]]
    BY <1>6, Here DEF Inv, TypeOK, TimePasses
  <2>2. Along(d, pc[d], TRUE, failures[d])
    BY <1>6, <2>1 DEF TimePasses, GoTo, Along
  <2>3. pc[d] \in Places /\ pc[d] \notin {"native", "storing"} /\ TRUE \in BOOLEAN
    BY <2>1 DEF Places
  <2>4. pc[d] \in Asking /\ (pc[d] \in {"native", "storing"}) = (got[d] # NoReport)
    BY <2>1, <2>3 DEF Asking
  <2> QED
    BY <1>1, <2>1, <2>2, <2>3, <2>4, OnTheWay, Zenon
<1>7. CASE \/ TimesOut(d) \/ Store(d) \/ StartFails(d) \/ AnswerBreaks(d) \/ GetReportFails(d)
           \/ NativeFails(d)
  <2>1. Through(d) /\ MoreSuites(d)
    BY <1>7, Here DEF Inv, TimesOut, Store, StartFails, AnswerBreaks, GetReportFails, NativeFails
  <2> QED
    BY <1>1, <2>1, QuietThrough
<1> QED
  BY <1>2, <1>3, <1>4, <1>5, <1>6, <1>7

LEMMA ApplicationSafe == ASSUME Inv, Application PROVE Inv'
<1>1. /\ UNCHANGED <<pc, loop>> /\ AppTypeOK' /\ (Kept \/ restarts' > 0) /\ restarts <= restarts'
      /\ restarts \in Nat /\ restarts' \in Nat
  BY AppStepKeeps, TestApplicationAssumption DEF Inv, TypeOK, Application, AppTypeOK
<1>2. TypeOK'
  BY <1>1 DEF Inv, TypeOK, loop, MoreSuites
<1>3. ASSUME restarts' = 0, NEW d \in Deployer PROVE OwnOf(d)'
  <2>1. restarts = 0 /\ Kept
    BY <1>1, <1>3
  <2> QED
    BY <1>1, <2>1, OwnOfMeaning, KeptKeepsOwn DEF Inv, loop
<1> QED
  BY <1>2, <1>3, OwnOfMeaningNext DEF Inv

-----------------------------------------------------------------------------
LEMMA InvHolds == Spec => []Inv
<1>1. Init => Inv
  <2> SUFFICES ASSUME Init PROVE Inv
    OBVIOUS
  <2>1. /\ sessions \in [App -> Seq(Session)] /\ restarts = 0 /\ \A a \in App : DOMAIN sessions[a] = {}
    BY DEF Init, AppInit
  <2>2. AppTypeOK
    BY <2>1, TestApplicationAssumption DEF AppTypeOK
  <2>3. \A d \in Deployer : Len(Plan[d]) \in Nat
    BY TestSessionsAssumption
  <2>4. TypeOK
    BY <2>2, <2>3, TestSessionsAssumption DEF Init, TypeOK, MoreSuites
  <2> QED
    BY <2>4 DEF Init, Inv, OwnSession, OwnReport, Asking
<1>2. Inv /\ [Next]_vars => Inv'
  <2> SUFFICES ASSUME Inv, [Next]_vars PROVE Inv'
    OBVIOUS
  <2>1. CASE UNCHANGED vars
    BY <2>1 DEF vars, appVars, loop, Inv, TypeOK, AppTypeOK, MoreSuites, OwnSession, OwnReport, Current
  <2>2. CASE Application
    BY <2>2, ApplicationSafe
  <2>3. ASSUME NEW d \in Deployer, Progress(d) \/ Mishap(d) \/ TimePasses(d) PROVE Inv'
    BY <2>3, StartSafe, AnsweredSafe, PollFailsSafe, GetReportSafe, OtherMovesSafe
       DEF Progress, Mishap
  <2> QED
    BY <2>1, <2>2, <2>3 DEF Next
<1> QED
  BY <1>1, <1>2, PTL DEF Spec

\* Sessions, verdicts, places and reports have the types of the code, and a
\* deployer holds a report exactly while it is fetching the native one or storing.
THEOREM SessionsTypeCorrect == Spec => []TypeOK
<1>1. Inv => TypeOK
  BY DEF Inv
<1> QED
  BY <1>1, InvHolds, PTL

\* The report getReport returns is that of the session startTest opened, for any
\* number of deployers on the same application, as long as it was not restarted.
THEOREM ReportIsOwn == Spec => []OwnReport
<1>1. Inv => OwnReport
  BY DEF Inv
<1> QED
  BY <1>1, InvHolds, PTL
=============================================================================
