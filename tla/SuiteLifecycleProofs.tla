------------------------ MODULE SuiteLifecycleProofs ------------------------
(***************************************************************************)
(* Proofs about SuiteLifecycle, for any number of deployers, any pitfiles  *)
(* and any assignment of names: types, that the lock follows the awaited   *)
(* test, that no suite is left out, that nothing stays behind and nothing  *)
(* is deleted in use but where the properties say so.                      *)
(***************************************************************************)
EXTENDS SuiteLifecycle, TLAPS

\* From the time the loops have picked a suite until they turn to the next one.
WithSuite == Testing \cup {"creating", "deploying", "storing", "deleting"}

SuitePicked == \A d \in Deployer : pc[d] \in WithSuite => MoreSuites(d)

Inv == TypeOK /\ SuitePicked /\ LockMatchesTest

-----------------------------------------------------------------------------
(* Pitfiles *)

LEMMA EntryFacts ==
    ASSUME TypeOK, NEW d \in Deployer
    PROVE  /\ Len(entries[d]) \in Nat \ {0} /\ DOMAIN entries[d] = 1 .. Len(entries[d])
           /\ \A i \in DOMAIN entries[d] : entries[d][i] \in Nat
BY SuiteLifecycleAssumption DEF TypeOK

LEMMA SuiteFacts ==
    ASSUME TypeOK, NEW d \in Deployer, NEW i \in DOMAIN entries[d], NEW j \in 1 .. entries[d][i]
    PROVE  <<d, i, j>> \in Suites(entries) /\ <<d, i, j>> \in Suite
<1>1. <<d, i, j>> \in Suites(entries)
  BY DEF Suites
<1> QED
  BY <1>1 DEF Suite, TypeOK

LEMMA SuitesOfShape ==
    ASSUME NEW d \in Deployer, NEW s \in SuitesOf(d)
    PROVE  \E i \in DOMAIN entries[d] : \E j \in 1 .. entries[d][i] : s = <<d, i, j>>
<1>1. PICK e \in Deployer : s \in UNION {{<<e, i, j>> : j \in 1 .. entries[e][i]} : i \in DOMAIN entries[e]}
  BY DEF SuitesOf, Suites
<1>2. PICK i \in DOMAIN entries[e] : s \in {<<e, i, j>> : j \in 1 .. entries[e][i]}
  BY <1>1
<1>3. e = d
  BY <1>2 DEF SuitesOf
<1> QED
  BY <1>2, <1>3

LEMMA SuiteOwner ==
    ASSUME NEW s \in Suite
    PROVE  s[1] \in Deployer
<1>1. PICK f \in Pitfiles : s \in Suites(f)
  BY DEF Suite
<1>2. PICK d \in Deployer : s \in UNION {{<<d, i, j>> : j \in 1 .. f[d][i]} : i \in DOMAIN f[d]}
  BY <1>1 DEF Suites
<1>3. PICK i \in DOMAIN f[d] : s \in {<<d, i, j>> : j \in 1 .. f[d][i]}
  BY <1>2
<1> QED
  BY <1>3

LEMMA CurrentIsSuite ==
    ASSUME TypeOK, NEW d \in Deployer, MoreSuites(d)
    PROVE  Current(d) \in Suites(entries) /\ Current(d) \in Suite
<1>1. at[d].entry \in DOMAIN entries[d] /\ at[d].suite \in 1 .. entries[d][at[d].entry]
  BY EntryFacts DEF TypeOK, MoreSuites
<1> QED
  BY <1>1, SuiteFacts DEF Current

\* The four ways the loops move keep the place within the pitfile.
LEMMA Moves ==
    ASSUME TypeOK, NEW d \in Deployer,
           \/ UNCHANGED at
           \/ FirstSuite(d)
           \/ FirstEntry(d)
           \/ NextSuite(d) /\ MoreSuites(d)
           \/ NextEntry(d) /\ MoreEntries(d)
    PROVE  /\ at' \in [Deployer -> [entry : Nat, suite : Nat]]
           /\ \A e \in Deployer : /\ at'[e].entry \in DOMAIN entries[e]
                                  /\ at'[e].suite \in 1 .. entries[e][at'[e].entry] + 1
                                  /\ e # d => at'[e] = at[e]
<1>1. CASE UNCHANGED at
  BY <1>1 DEF TypeOK
<1>2. CASE FirstSuite(d)
  BY <1>2, EntryFacts DEF TypeOK, FirstSuite
<1>3. CASE FirstEntry(d)
  BY <1>3, EntryFacts DEF TypeOK, FirstEntry
<1>4. CASE NextSuite(d) /\ MoreSuites(d)
  BY SMTT(30), <1>4, EntryFacts DEF TypeOK, NextSuite, MoreSuites
<1>5. CASE NextEntry(d) /\ MoreEntries(d)
  BY SMTT(30), <1>5, EntryFacts DEF TypeOK, NextEntry, MoreEntries
<1> QED
  BY <1>1, <1>2, <1>3, <1>4, <1>5

-----------------------------------------------------------------------------
(* Types *)

LEMMA LaunchTypes ==
    ASSUME TypeOK, NEW d \in Deployer, MoreSuites(d), NEW a \in {"create", "delete"}, Launch(d, a),
           UNCHANGED <<phase, born, aged, undeleted, listed>>
    PROVE  NamespacesTypeOK'
<1>1. [client |-> d, action |-> a, name |-> NamespaceName(Current(d))] \in Script
  BY CurrentIsSuite, SuiteLifecycleAssumption DEF Script
<1> QED
  BY <1>1 DEF TypeOK, NamespacesTypeOK, Launch

\* What every step of a deployer does to the types, and where it may go.
Shape(d) ==
    /\ \/ UNCHANGED at
       \/ FirstSuite(d)
       \/ FirstEntry(d)
       \/ NextSuite(d) /\ MoreSuites(d)
       \/ NextEntry(d) /\ MoreEntries(d)
    /\ pc' \in [Deployer -> Testing \cup Ended \cup
                  {"validating", "deployAll", "creating", "deploying", "runAll", "storing",
                   "undeployAll", "deleting"}]
    /\ \A e \in Deployer \ {d} : pc'[e] = pc[e]
    /\ pc'[d] # "validating"
    /\ pc'[d] \in WithSuite => UNCHANGED at /\ MoreSuites(d)
    /\ failures' \in [Deployer -> 0 .. MaxTechFailures - 1]
    /\ holder' \in Suite \cup {Nobody} /\ beating' \subseteq Deployer /\ lost' \subseteq Deployer
    /\ tested' \subseteq Suite /\ tested \subseteq tested'
    /\ NamespacesTypeOK'

LEMMA ProgressShape ==
    ASSUME TypeOK, SuitePicked, NEW d \in Deployer, Progress(d) \/ Stop(d)
    PROVE  Shape(d)
<1> USE SuiteLifecycleAssumption DEF GoTo, EndWait, WithSuite, Testing, Ended, testVars, lockVars
<1>0. pc[d] \in WithSuite => MoreSuites(d)
  BY DEF SuitePicked
<1>1. ASSUME UNCHANGED nsVars PROVE NamespacesTypeOK'
  BY <1>1 DEF nsVars, TypeOK, NamespacesTypeOK, Script
<1>2. CASE Validated(d)
  BY <1>1, <1>2 DEF Validated, Shape, TypeOK
<1>3. CASE DeploySuite(d)
  BY <1>3, LaunchTypes DEF DeploySuite, Shape, TypeOK
<1>4. CASE NamespaceCreated(d)
  BY <1>0, <1>1, <1>4 DEF NamespaceCreated, Shape, TypeOK
<1>5. CASE GraphDeployed(d)
  BY <1>0, <1>1, <1>5 DEF GraphDeployed, Shape, TypeOK
<1>6. CASE AllDeployed(d)
  BY <1>1, <1>6 DEF AllDeployed, Shape, TypeOK
<1>7. CASE Lock(d)
  BY <1>1, <1>7, CurrentIsSuite DEF Lock, Shape, TypeOK
<1>8. CASE LockFails(d)
  BY <1>0, <1>1, <1>8, CurrentIsSuite DEF LockFails, Through, Shape, TypeOK
<1>9. CASE Start(d)
  BY <1>0, <1>1, <1>9, CurrentIsSuite DEF Start, Shape, TypeOK
<1>10. CASE TimesOut(d)
  BY <1>0, <1>1, <1>10 DEF TimesOut, Shape, TypeOK
<1>11. CASE PollFails(d)
  <2>1. failures' \in [Deployer -> 0 .. MaxTechFailures - 1]
    <3>1. failures[d] \in Nat
      BY DEF TypeOK
    <3>2. \E k \in 0 .. MaxTechFailures - 1 : failures' = [failures EXCEPT ![d] = k]
      <4>1. CASE failures[d] + 1 < MaxTechFailures
        BY <1>11, <3>1, <4>1 DEF PollFails
      <4>2. CASE ~(failures[d] + 1 < MaxTechFailures)
        BY <1>11, <4>2 DEF PollFails
      <4> QED
        BY <4>1, <4>2
    <3> QED
      BY <3>2 DEF TypeOK
  <2>2. \E where \in Testing : GoTo(d, where)
    BY <1>11 DEF PollFails, TypeOK
  <2>3. MoreSuites(d) /\ UNCHANGED <<nsVars, at, lockVars, tested>>
    BY <1>0, <1>11 DEF PollFails
  <2> QED
    BY <1>1, <2>1, <2>2, <2>3 DEF Shape, TypeOK
<1>12. CASE PollAnswered(d)
  <2>1. failures' \in [Deployer -> 0 .. MaxTechFailures - 1]
    <3>1. failures' = [failures EXCEPT ![d] = 0]
      BY <1>12 DEF PollAnswered
    <3>2. 0 \in 0 .. MaxTechFailures - 1
      OBVIOUS
    <3> QED
      BY <3>1, <3>2 DEF TypeOK
  <2>2. \E where \in Testing : GoTo(d, where)
    BY <1>12 DEF PollAnswered, TypeOK
  <2>3. MoreSuites(d) /\ UNCHANGED <<nsVars, at, lockVars, tested>>
    BY <1>0, <1>12 DEF PollAnswered
  <2> QED
    BY <1>1, <2>1, <2>2, <2>3 DEF Shape, TypeOK
<1>13. CASE GetReport(d)
  BY <1>0, <1>1, <1>13 DEF GetReport, Shape, TypeOK
<1>14. CASE Release(d)
  <2>1. NamespacesTypeOK' /\ UNCHANGED failures
    BY <1>1, <1>14 DEF Release
  <2>2. pc[d] \in WithSuite
    BY <1>14 DEF Release, Through
  <2>3. MoreSuites(d) /\ Current(d) \in Suite /\ Current(d) \in Suites(entries)
    BY <1>0, <2>2, CurrentIsSuite
  <2>4. /\ beating' = beating \ {d} /\ lost' = lost \ {d}
        /\ holder' = holder \/ holder' = Nobody
    BY <1>14 DEF Release, Unlock
  <2>5. \/ GoTo(d, "storing") /\ UNCHANGED <<at, tested>>
        \/ GoTo(d, "runAll") /\ tested' = tested \cup {Current(d)} /\ NextSuite(d)
    BY <1>14 DEF Release, Through
  <2>6. pc' \in [Deployer -> Testing \cup Ended \cup
                    {"validating", "deployAll", "creating", "deploying", "runAll", "storing",
                     "undeployAll", "deleting"}]
    BY <2>5 DEF TypeOK
  <2> QED
    BY <2>1, <2>3, <2>4, <2>5, <2>6 DEF Shape, TypeOK
<1>15. CASE Store(d)
  BY <1>0, <1>1, <1>15, CurrentIsSuite DEF Store, Through, Shape, TypeOK
<1>16. CASE TestsDone(d)
  BY <1>1, <1>16 DEF TestsDone, Shape, TypeOK
<1>17. CASE Undeployed(d)
  BY <1>17, LaunchTypes DEF Undeployed, Shape, TypeOK
<1>18. CASE NamespaceDeleted(d)
  BY <1>0, <1>1, <1>18 DEF NamespaceDeleted, Shape, TypeOK
<1>19. CASE CleanedUpEntry(d)
  BY <1>1, <1>19 DEF CleanedUpEntry, Shape, TypeOK
<1>20. CASE Stop(d)
  BY <1>0, <1>1, <1>20 DEF Stop, Shape, TypeOK
<1> QED
  BY <1>2, <1>3, <1>4, <1>5, <1>6, <1>7, <1>8, <1>9, <1>10, <1>11, <1>12, <1>13, <1>14, <1>15,
     <1>16, <1>17, <1>18, <1>19, <1>20 DEF Progress

\* A step of a deployer keeps the types.
LEMMA ProgressTypes ==
    ASSUME TypeOK, SuitePicked, NEW d \in Deployer, Progress(d) \/ Stop(d), UNCHANGED entries
    PROVE  TypeOK' /\ SuitePicked'
<1>1. Shape(d)
  BY ProgressShape
<1>2. /\ at' \in [Deployer -> [entry : Nat, suite : Nat]]
      /\ \A e \in Deployer : /\ at'[e].entry \in DOMAIN entries[e]
                             /\ at'[e].suite \in 1 .. entries[e][at'[e].entry] + 1
                             /\ e # d => at'[e] = at[e]
  BY <1>1, Moves DEF Shape
<1>3. TypeOK'
  BY <1>1, <1>2 DEF Shape, TypeOK
<1>4. ASSUME NEW e \in Deployer, pc'[e] \in WithSuite PROVE MoreSuites(e)'
  <2>1. CASE e = d
    BY <1>1, <1>4, <2>1 DEF Shape, MoreSuites
  <2>2. CASE e # d
    BY <1>1, <1>2, <1>4, <2>2 DEF Shape, SuitePicked, MoreSuites
  <2> QED
    BY <2>1, <2>2
<1> QED
  BY <1>3, <1>4 DEF SuitePicked

\* So does every other step; the places of the deployers stay as they are.
LockFailsTest == (\E d \in Deployer : HeartbeatGivesUp(d)) \/ \E s \in Suite : LeaseEnds(s)
Around == Cluster \/ CleanupJob \/ LockFailsTest

LEMMA AroundTypes ==
    ASSUME TypeOK, SuitePicked, Around, UNCHANGED entries
    PROVE  /\ TypeOK' /\ SuitePicked' /\ UNCHANGED <<at, tested>>
           /\ \/ UNCHANGED <<pc, lockVars>>
              \/ \E d \in Deployer : TimePasses(d)
              \/ LockFailsTest /\ UNCHANGED pc
<1> USE DEF testVars, nsVars, lockVars
<1>1. CASE \E x \in scripts : (CreateNamespace(x) \/ DeleteNamespace(x)) /\ UNCHANGED <<pc, at, testVars>>
  <2>1. PICK x \in scripts : (CreateNamespace(x) \/ DeleteNamespace(x)) /\ UNCHANGED <<pc, at, testVars>>
    BY <1>1
  <2>2. x.name \in Namespace
    BY DEF TypeOK, NamespacesTypeOK, Script
  <2>3. NamespacesTypeOK'
    <3> DEFINE n == x.name
    <3>0. n \in Namespace /\ scripts \ {x} \subseteq Script
      BY <2>2 DEF TypeOK, NamespacesTypeOK
    <3>1. ASSUME CreateNamespace(x) PROVE NamespacesTypeOK'
      <4>1. /\ \/ phase' = [phase EXCEPT ![n] = "active"] /\ born' = [born EXCEPT ![n] = @ + 1]
               \/ UNCHANGED <<phase, born>>
            /\ scripts' = scripts \ {x} /\ UNCHANGED <<aged, undeleted, listed>>
        BY <3>1 DEF CreateNamespace
      <4> HIDE DEF n
      <4> QED
        BY <3>0, <4>1 DEF TypeOK, NamespacesTypeOK
    <3>2. ASSUME DeleteNamespace(x) PROVE NamespacesTypeOK'
      <4>1. /\ phase' = [phase EXCEPT ![n] = "terminating"] \/ UNCHANGED phase
            /\ undeleted' \in {undeleted \ {n}, undeleted \cup {n}}
            /\ scripts' = scripts \ {x} /\ UNCHANGED <<born, aged, listed>>
        BY <3>2 DEF DeleteNamespace, Delete
      <4> HIDE DEF n
      <4> QED
        BY <3>0, <4>1 DEF TypeOK, NamespacesTypeOK
    <3> QED
      BY <2>1, <3>1, <3>2
  <2> QED
    BY <2>1, <2>3 DEF TypeOK, SuitePicked, MoreSuites
<1>2. CASE (\E n \in Namespace : GrowOld(n)) /\ UNCHANGED <<pc, at, testVars>>
  <2>1. NamespacesTypeOK'
    BY <1>2 DEF GrowOld, TypeOK, NamespacesTypeOK
  <2> QED
    BY <1>2, <2>1 DEF TypeOK, SuitePicked, MoreSuites
<1>3. CASE (\E n \in Namespace : Terminate(n)) /\ UNCHANGED <<pc, at, testVars>>
  <2>1. NamespacesTypeOK'
    BY <1>3 DEF Terminate, TypeOK, NamespacesTypeOK
  <2> QED
    BY <1>3, <2>1 DEF TypeOK, SuitePicked, MoreSuites
<1>4. CASE \E d \in Deployer : TimePasses(d)
  <2>1. PICK d \in Deployer : TimePasses(d)
    BY <1>4
  <2>2. 0 \in 0 .. MaxTechFailures - 1
    BY SuiteLifecycleAssumption
  <2>3. /\ failures' \in [Deployer -> 0 .. MaxTechFailures - 1]
        /\ pc' = [pc EXCEPT ![d] = "timeout"] /\ pc[d] = "polling"
        /\ UNCHANGED <<nsVars, at, lockVars, tested>>
    BY <2>1, <2>2 DEF TimePasses, EndWait, GoTo, TypeOK
  <2>4. TypeOK'
    BY <2>3 DEF TypeOK, NamespacesTypeOK, Testing, Script
  <2>5. SuitePicked'
    BY <2>3 DEF SuitePicked, MoreSuites, TypeOK, WithSuite, Testing
  <2> QED
    BY <1>4, <2>3, <2>4, <2>5
<1>5. CASE LockFailsTest
  <2>1. /\ holder' \in {holder, Nobody} /\ beating' \subseteq beating /\ UNCHANGED <<nsVars, pc, at, failures, tested>>
    BY <1>5 DEF LockFailsTest, LeaseEnds, HeartbeatGivesUp, LockEnds
  <2>2. lost' \subseteq Deployer
    <3>1. CASE \E d \in Deployer : HeartbeatGivesUp(d)
      BY <3>1 DEF HeartbeatGivesUp, LockEnds, Current, TypeOK
    <3>2. CASE \E s \in Suite : LeaseEnds(s)
      <4>1. PICK s \in Suite : LeaseEnds(s)
        BY <3>2
      <4>2. s[1] \in Deployer
        BY SuiteOwner
      <4> QED
        BY <4>1, <4>2 DEF LeaseEnds, LockEnds, TypeOK
    <3> QED
      BY <1>5, <3>1, <3>2 DEF LockFailsTest
  <2>3. TypeOK' /\ SuitePicked'
    BY <2>1, <2>2 DEF TypeOK, NamespacesTypeOK, SuitePicked, MoreSuites, Script
  <2> QED
    BY <1>5, <2>1, <2>3
<1>6. CASE CleanupJob
  <2>1. ASSUME List PROVE NamespacesTypeOK'
    BY <2>1 DEF List, TypeOK, NamespacesTypeOK
  <2>2. ASSUME \E n \in Namespace : Examine(n) PROVE NamespacesTypeOK'
    <3>1. PICK n \in Namespace : Examine(n)
      BY <2>2
    <3> QED
      BY <3>1 DEF Examine, Delete, TypeOK, NamespacesTypeOK
  <2>3. NamespacesTypeOK'
    BY <1>6, <2>1, <2>2 DEF CleanupJob, Brownie
  <2> QED
    BY <1>6, <2>3 DEF CleanupJob, TypeOK, SuitePicked, MoreSuites
<1> QED
  BY <1>1, <1>2, <1>3, <1>4, <1>5, <1>6 DEF Around, Cluster

-----------------------------------------------------------------------------
(* The lock *)

\* Most steps neither touch the lock nor begin or end the wait for a test.
LEMMA LockCases ==
    ASSUME TypeOK, NEW d \in Deployer, Progress(d)
    PROVE  \/ Lock(d)
           \/ LockFails(d)
           \/ Release(d)
           \/ /\ UNCHANGED lockVars
              /\ pc[d] \in Testing <=> pc'[d] \in Testing
              /\ pc[d] \in Testing => UNCHANGED at
<1> USE DEF GoTo, EndWait, Testing, testVars, TypeOK
<1>1. CASE Validated(d) \/ DeploySuite(d) \/ NamespaceCreated(d) \/ GraphDeployed(d) \/ AllDeployed(d)
  BY <1>1 DEF Validated, DeploySuite, NamespaceCreated, GraphDeployed, AllDeployed
<1>2. CASE Store(d) \/ TestsDone(d)
  BY <1>2 DEF Store, Through, TestsDone
<1>3. CASE Start(d) \/ TimesOut(d) \/ GetReport(d)
  BY <1>3 DEF Start, TimesOut, GetReport
<1>4. CASE PollFails(d) \/ PollAnswered(d)
  BY <1>4 DEF PollFails, PollAnswered
<1>5. CASE Undeployed(d) \/ NamespaceDeleted(d) \/ CleanedUpEntry(d)
  BY <1>5 DEF Undeployed, NamespaceDeleted, CleanedUpEntry
<1> QED
  BY <1>1, <1>2, <1>3, <1>4, <1>5 DEF Progress

\* The suites of two deployers differ.
LEMMA CurrentDiffers ==
    ASSUME NEW d \in Deployer, NEW e \in Deployer, d # e
    PROVE  Current(d) # Current(e)
BY DEF Current

LEMMA LockInv ==
    ASSUME TypeOK, SuitePicked, LockMatchesTest, Next
    PROVE  LockMatchesTest'
<1> USE SuiteLifecycleAssumption
<1>1. UNCHANGED entries
  BY DEF Next
<1>2. ASSUME NEW d \in Deployer, Progress(d) \/ Stop(d) PROVE LockMatchesTest'
  <2>1. \A e \in Deployer \ {d} : /\ pc'[e] = pc[e] /\ at'[e] = at[e] /\ Current(e)' = Current(e)
                                  /\ AwaitsLocked(e)' <=> AwaitsLocked(e)
    <3>1. \A e \in Deployer \ {d} : pc'[e] = pc[e] /\ at'[e] = at[e]
      BY <1>2, ProgressShape, Moves DEF Shape
    <3> QED
      BY <3>1 DEF AwaitsLocked, Current
  \* It is enough that the step leaves the others their locks and settles its own.
  <2>2. ASSUME \A e \in Deployer \ {d} :
                   /\ AwaitsLocked(e) /\ holder = Current(e) => holder' = Current(e)
                   /\ e \in lost => e \in lost'
                   /\ e \in beating' => e \in beating,
               AwaitsLocked(d)' => holder' = Current(d)' \/ d \in lost',
               d \in beating' => AwaitsLocked(d)'
        PROVE  LockMatchesTest'
    BY <2>1, <2>2 DEF LockMatchesTest
  <2>7. ASSUME holder = Nobody, NEW e \in Deployer PROVE ~(AwaitsLocked(e) /\ holder = Current(e))
    BY <2>7, CurrentIsSuite DEF AwaitsLocked, SuitePicked, WithSuite
  <2>3. CASE Lock(d)
    <3>1. /\ pc[d] = "runAll" /\ pc'[d] = "starting" /\ UNCHANGED <<at, lost>> /\ Current(d) \in Suite
          /\ \/ Current(d) \in Locked /\ holder = Nobody /\ holder' = Current(d) /\ beating' = beating \cup {d}
             \/ Current(d) \notin Locked /\ UNCHANGED <<holder, beating>>
      BY <2>3, CurrentIsSuite DEF Lock, GoTo, TypeOK
    <3>2. (AwaitsLocked(d)' <=> Current(d) \in Locked) /\ Current(d)' = Current(d)
      BY <3>1 DEF AwaitsLocked, Testing, Current
    <3>3. ~AwaitsLocked(d)
      BY <3>1 DEF AwaitsLocked, Testing
    <3>4. d \notin beating
      BY <3>3 DEF LockMatchesTest
    <3> QED
      BY <2>2, <2>7, <3>1, <3>2, <3>4
  <2>8. CASE LockFails(d)
    <3>1. /\ pc[d] = "runAll" /\ pc'[d] = "runAll" /\ UNCHANGED <<beating, lost>>
          /\ UNCHANGED holder \/ (holder = Nobody /\ holder' = Current(d))
      BY <2>8 DEF LockFails, Through, GoTo, TypeOK
    <3>2. ~AwaitsLocked(d) /\ ~AwaitsLocked(d)'
      BY <3>1 DEF AwaitsLocked, Testing
    <3> QED
      BY <2>2, <2>7, <3>1, <3>2 DEF LockMatchesTest
  <2>4. CASE Release(d)
    <3>1. /\ pc[d] \in Testing /\ pc'[d] \notin Testing
          /\ beating' = beating \ {d} /\ lost' = lost \ {d}
          /\ UNCHANGED holder \/ (holder = Current(d) /\ holder' = Nobody)
      BY <2>4 DEF Release, Unlock, Through, GoTo, Testing, TypeOK
    <3>2. ~AwaitsLocked(d)'
      BY <3>1 DEF AwaitsLocked
    <3> QED
      BY <2>2, <3>1, <3>2, CurrentDiffers
  <2>5. CASE Stop(d)
    <3>1. pc'[d] = "failed" /\ UNCHANGED holder /\ beating' = beating \ {d} /\ lost' = lost \ {d}
      BY <2>5 DEF Stop, EndWait, GoTo, TypeOK
    <3>2. ~AwaitsLocked(d)'
      BY <3>1 DEF AwaitsLocked, Testing
    <3> QED
      BY <2>2, <3>1, <3>2
  <2>6. CASE /\ UNCHANGED lockVars
             /\ pc[d] \in Testing <=> pc'[d] \in Testing
             /\ pc[d] \in Testing => UNCHANGED at
    <3>1. /\ AwaitsLocked(d)' <=> AwaitsLocked(d)
          /\ AwaitsLocked(d) => Current(d)' = Current(d)
      BY <2>6 DEF AwaitsLocked, Current
    <3> QED
      BY <2>2, <2>6, <3>1 DEF LockMatchesTest, lockVars
  <2> QED
    BY <1>2, <2>3, <2>4, <2>5, <2>6, <2>8, LockCases
<1>3. CASE Around
  <2>1. UNCHANGED at
    BY <1>1, <1>3, AroundTypes
  <2>2. \A d \in Deployer : Current(d)' = Current(d)
    BY <2>1 DEF Current
  <2>3. CASE UNCHANGED <<pc, lockVars>>
    BY <2>2, <2>3 DEF LockMatchesTest, AwaitsLocked, lockVars
  <2>4. CASE \E d \in Deployer : TimePasses(d)
    <3>1. UNCHANGED lockVars /\ \A e \in Deployer : pc[e] \in Testing <=> pc'[e] \in Testing
      BY <2>4 DEF TimePasses, EndWait, GoTo, Testing, TypeOK
    <3> QED
      BY <2>2, <3>1 DEF LockMatchesTest, AwaitsLocked, lockVars
  <2>5. CASE LockFailsTest /\ UNCHANGED pc
    <3>1. /\ beating' \subseteq beating
          /\ \/ UNCHANGED <<holder, lost>>
             \/ \E s : LockEnds(s)
      BY <2>5 DEF LockFailsTest, LeaseEnds, HeartbeatGivesUp
    <3>2. \A d \in Deployer : AwaitsLocked(d)' <=> AwaitsLocked(d)
      BY <2>2, <2>5 DEF AwaitsLocked
    <3>3. ASSUME NEW d \in Deployer, AwaitsLocked(d), NEW s, LockEnds(s)
          PROVE  d \in lost'
      <4>1. CASE s = Current(d)
        BY <3>3, <4>1 DEF LockEnds, AwaitsLocked, Current
      <4>2. CASE s # Current(d)
        BY <3>3, <4>2 DEF LockEnds, LockMatchesTest
      <4> QED
        BY <4>1, <4>2
    <3> QED
      BY <2>2, <3>1, <3>2, <3>3 DEF LockMatchesTest
  <2> QED
    BY <1>1, <1>3, <2>3, <2>4, <2>5, AroundTypes
<1> QED
  BY <1>2, <1>3 DEF Next, Step, Around, LockFailsTest

LEMMA InitInv == Init => Inv
<1> SUFFICES ASSUME Init PROVE Inv
  OBVIOUS
<1> USE SuiteLifecycleAssumption DEF Init
<1>1. \A d \in Deployer : 1 \in DOMAIN entries[d] /\ entries[d][1] \in Nat
  <2> TAKE d \in Deployer
  <2>1. entries[d] \in Seq(Nat) /\ Len(entries[d]) > 0
    OBVIOUS
  <2> QED
    BY <2>1
<1>2. NamespacesTypeOK
  BY DEF NamespacesInit, NamespacesTypeOK
<1>3. 0 \in 0 .. MaxTechFailures - 1
  OBVIOUS
<1>4. \A d \in Deployer : at[d].entry \in DOMAIN entries[d] /\ at[d].suite \in 1 .. entries[d][at[d].entry] + 1
  <2> TAKE d \in Deployer
  <2>1. at[d].entry = 1 /\ at[d].suite = 1
    BY Zenon
  <2>2. \A k \in Nat : 1 \in 1 .. k + 1
    OBVIOUS
  <2> QED
    BY <1>1, <2>1, <2>2
<1>5. TypeOK
  BY <1>2, <1>3, <1>4 DEF TypeOK, Ended, Testing
<1> QED
  BY <1>5 DEF Inv, SuitePicked, LockMatchesTest, AwaitsLocked, WithSuite, Testing

LEMMA NextInv == Inv /\ [Next]_vars => Inv'
<1> SUFFICES ASSUME Inv, [Next]_vars PROVE Inv'
  OBVIOUS
<1>1. CASE UNCHANGED vars
  BY <1>1 DEF vars, nsVars, testVars, Inv, TypeOK, NamespacesTypeOK, Script, SuitePicked, MoreSuites,
              LockMatchesTest, AwaitsLocked, Current, lockVars
<1>2. CASE Next
  <2>1. TypeOK' /\ SuitePicked'
    BY <1>2, ProgressTypes, AroundTypes DEF Inv, Next, Step, Around, LockFailsTest
  <2> QED
    BY <1>2, <2>1, LockInv DEF Inv
<1> QED
  BY <1>1, <1>2

LEMMA Invariance == Spec => []Inv
BY InitInv, NextInv, PTL DEF Spec

\* Every variable keeps its type; above all, the places of the loops stay within
\* the pitfile and the failed polls within their limit.
THEOREM LifecycleTypeCorrect == Spec => []TypeOK
<1>1. Inv => TypeOK
  BY DEF Inv
<1> QED
  BY <1>1, Invariance, PTL

\* The lock follows the awaited test, whichever way the test ends.
THEOREM LockFollowsTest == Spec => []LockMatchesTest
<1>1. Inv => LockMatchesTest
  BY DEF Inv
<1> QED
  BY <1>1, Invariance, PTL

\* Two deployers never await tests of suites with locks at the same time.
THEOREM AwaitedTestsExclude ==
    Spec => [](\A d, e \in Deployer : AwaitsLocked(d) /\ AwaitsLocked(e) => d = e \/ d \in lost \/ e \in lost)
<1>1. Inv => \A d, e \in Deployer : AwaitsLocked(d) /\ AwaitsLocked(e) => d = e \/ d \in lost \/ e \in lost
  BY CurrentDiffers DEF Inv, LockMatchesTest
<1> QED
  BY <1>1, Invariance, PTL

-----------------------------------------------------------------------------
(* No suite is left out *)

\* What runAll is through with: earlier entries, and of the current one the
\* suites before the current.
BehindRunAll(d, i, j) ==
    \/ pc[d] \in {"undeployAll", "deleting", "done"}
    \/ pc[d] \notin Ended \cup {"validating"} /\ i < at[d].entry
    \/ pc[d] \in Testing \cup {"runAll", "storing"} /\ i = at[d].entry /\ j < at[d].suite

TestedSoFar ==
    \A d \in Deployer : \A i \in DOMAIN entries[d] : \A j \in 1 .. entries[d][i] :
        BehindRunAll(d, i, j) => <<d, i, j>> \in tested

AtStart == \A d \in Deployer : pc[d] = "validating" => at[d].entry = 1

LEMMA TestedInit == Init => AtStart /\ TestedSoFar
BY DEF Init, AtStart, TestedSoFar, BehindRunAll, Testing, Ended

\* A step brings behind runAll what has been tested, or is being recorded as
\* tested by the step.
LEMMA TestedProgress ==
    ASSUME TypeOK, SuitePicked, AtStart, NEW d \in Deployer, Progress(d) \/ Stop(d), UNCHANGED entries,
           NEW i \in DOMAIN entries[d], NEW j \in 1 .. entries[d][i], BehindRunAll(d, i, j)'
    PROVE  BehindRunAll(d, i, j) \/ <<d, i, j>> \in tested'
<1> USE DEF GoTo, EndWait, Testing, Ended, testVars, BehindRunAll, TypeOK
<1>0. /\ at[d].entry \in Nat /\ at[d].suite \in Nat /\ i \in Nat /\ j \in Nat
      /\ i \in 1 .. Len(entries[d]) /\ Len(entries[d]) \in Nat /\ entries[d][i] \in Nat
  <2>1. at[d].entry \in Nat /\ at[d].suite \in Nat
    OBVIOUS
  <2>2. /\ Len(entries[d]) \in Nat /\ DOMAIN entries[d] = 1 .. Len(entries[d])
        /\ entries[d][i] \in Nat
    BY EntryFacts
  <2>3. i \in Nat /\ i \in 1 .. Len(entries[d]) /\ j \in Nat
    BY <2>2
  <2> QED
    BY <2>1, <2>2, <2>3
<1>1. CASE Validated(d)
  BY <1>0, <1>1 DEF Validated, AtStart
<1>10. CASE DeploySuite(d) \/ NamespaceCreated(d)
  BY <1>10 DEF DeploySuite, NamespaceCreated
<1>2. CASE GraphDeployed(d) \/ AllDeployed(d)
  BY SMTT(30), <1>0, <1>2 DEF GraphDeployed, AllDeployed, NextSuite, FirstSuite
<1>3. CASE Lock(d) \/ Start(d) \/ TimesOut(d) \/ GetReport(d)
  BY <1>3 DEF Lock, Start, TimesOut, GetReport
<1>4. CASE PollFails(d) \/ PollAnswered(d)
  BY <1>4 DEF PollFails, PollAnswered
<1>5. ASSUME Through(d), pc[d] \in Testing \cup {"runAll", "storing"}
      PROVE  BehindRunAll(d, i, j) \/ <<d, i, j>> \in tested'
  <2>1. /\ pc'[d] = "runAll" /\ <<d, at[d].entry, at[d].suite>> \in tested'
        /\ at'[d].entry = at[d].entry /\ at'[d].suite = at[d].suite + 1
    BY <1>0, <1>5 DEF Through, NextSuite, Current
  <2>2. i < at[d].entry \/ (i = at[d].entry /\ j <= at[d].suite)
    BY <1>0, <2>1
  <2>3. i = at[d].entry /\ j = at[d].suite => <<d, i, j>> \in tested'
    BY <2>1
  <2> QED
    BY <1>0, <1>5, <2>2, <2>3
<1>6. CASE LockFails(d) \/ Release(d) \/ Store(d)
  BY <1>5, <1>6 DEF LockFails, Release, Store
<1>7. CASE TestsDone(d)
  <2>1. pc[d] = "runAll" /\ ~MoreSuites(d)
    BY <1>7 DEF TestsDone
  <2>2. i = at[d].entry => j < at[d].suite
    BY <1>0, <2>1, EntryFacts DEF MoreSuites
  <2>3. CASE MoreEntries(d)
    BY <1>0, <1>7, <2>1, <2>2, <2>3 DEF TestsDone, NextEntry
  <2>4. CASE ~MoreEntries(d)
    BY <1>0, <2>1, <2>2, <2>4 DEF MoreEntries
  <2> QED
    BY <2>3, <2>4
<1>8. CASE Undeployed(d) \/ NamespaceDeleted(d) \/ CleanedUpEntry(d)
  BY <1>8 DEF Undeployed, NamespaceDeleted, CleanedUpEntry
<1>9. CASE Stop(d)
  BY <1>9 DEF Stop
<1> QED
  BY <1>1, <1>2, <1>3, <1>4, <1>6, <1>7, <1>8, <1>9, <1>10 DEF Progress

LEMMA AtStartNext == Inv /\ AtStart /\ [Next]_vars => AtStart'
<1> SUFFICES ASSUME Inv, AtStart, [Next]_vars, NEW e \in Deployer, pc'[e] = "validating"
             PROVE  at'[e].entry = 1
  BY DEF AtStart
<1>1. CASE UNCHANGED vars
  BY <1>1 DEF vars, AtStart
<1>2. CASE \E d \in Deployer : Progress(d) \/ Stop(d)
  <2>1. PICK d \in Deployer : Progress(d) \/ Stop(d)
    BY <1>2
  <2>2. e # d /\ pc'[e] = pc[e] /\ at'[e] = at[e]
    BY <2>1, ProgressShape, Moves DEF Inv, Shape
  <2> QED
    BY <2>2 DEF AtStart
<1>3. CASE Around /\ UNCHANGED entries
  <2>1. UNCHANGED at
    BY <1>3, AroundTypes DEF Inv
  <2>2. pc[e] = "validating"
    BY <1>3, AroundTypes DEF Inv, TypeOK, TimePasses, EndWait, GoTo
  <2> QED
    BY <2>1, <2>2 DEF AtStart
<1> QED
  BY <1>1, <1>2, <1>3 DEF Next, Step, Around, LockFailsTest

LEMMA TestedNext == Inv /\ AtStart /\ TestedSoFar /\ [Next]_vars => TestedSoFar'
<1> SUFFICES ASSUME Inv, AtStart, TestedSoFar, [Next]_vars PROVE TestedSoFar'
  OBVIOUS
<1>2. UNCHANGED entries
  BY DEF Next, vars
<1> SUFFICES ASSUME NEW e \in Deployer, NEW i \in DOMAIN entries[e], NEW j \in 1 .. entries[e][i],
                    BehindRunAll(e, i, j)'
             PROVE  <<e, i, j>> \in tested'
  BY <1>2 DEF TestedSoFar
<1>1. CASE UNCHANGED vars
  BY <1>1 DEF vars, testVars, TestedSoFar, BehindRunAll
<1>3. ASSUME NEW d \in Deployer, Progress(d) \/ Stop(d) PROVE <<e, i, j>> \in tested'
  <2>1. /\ tested \subseteq tested' /\ \A f \in Deployer \ {d} : pc'[f] = pc[f] /\ at'[f] = at[f]
    BY <1>2, <1>3, ProgressShape, Moves DEF Inv, Shape
  <2>2. CASE e = d
    BY <1>2, <1>3, <2>1, <2>2, TestedProgress DEF Inv, TestedSoFar
  <2>3. CASE e # d
    BY <2>1, <2>3 DEF TestedSoFar, BehindRunAll
  <2> QED
    BY <2>2, <2>3
<1>4. CASE Around
  <2>1. UNCHANGED <<at, tested>>
    BY <1>2, <1>4, AroundTypes DEF Inv
  <2>2. CASE UNCHANGED pc
    BY <2>1, <2>2 DEF TestedSoFar, BehindRunAll
  <2>3. CASE \E d \in Deployer : TimePasses(d)
    <3>1. \A d \in Deployer : pc'[d] = pc[d] \/ (pc[d] = "polling" /\ pc'[d] = "timeout")
      BY <2>3 DEF TimePasses, EndWait, GoTo, Inv, TypeOK
    <3> QED
      BY <2>1, <3>1 DEF TestedSoFar, BehindRunAll, Testing, Ended
  <2> QED
    BY <1>2, <1>4, <2>2, <2>3, AroundTypes DEF Inv
<1> QED
  BY <1>1, <1>3, <1>4 DEF Next, Step, Around, LockFailsTest

\* A run that ends well has tested every suite of its pitfile.
THEOREM NoSuiteLeftOut == Spec => []EverySuiteTested
<1>1. Inv /\ TestedSoFar => EverySuiteTested
  <2> SUFFICES ASSUME Inv, TestedSoFar, NEW d \in Deployer, pc[d] \in {"undeployAll", "deleting", "done"},
                      NEW s \in SuitesOf(d)
               PROVE  s \in tested
    BY DEF EverySuiteTested
  <2>1. \E i \in DOMAIN entries[d] : \E j \in 1 .. entries[d][i] : s = <<d, i, j>>
    BY SuitesOfShape
  <2> QED
    BY <2>1 DEF TestedSoFar, BehindRunAll
<1> QED
  BY <1>1, Invariance, TestedInit, AtStartNext, TestedNext, PTL DEF Spec

-----------------------------------------------------------------------------
(* No namespace stays behind *)

\* Scripts are about suites of their deployer, which awaits them unless it has
\* been stopped.
ScriptsInv ==
    /\ \A x \in scripts : \E s \in SuitesOf(x.client) : x.name = NamespaceName(s)
    /\ \A d \in Deployer : pc[d] \notin {"creating", "deleting", "failed"} => ~Waits(d)
    /\ \A d \in Deployer, x \in scripts :
          pc[d] = "deleting" /\ x.client = d =>
              x.action = "delete" /\ x.name = NamespaceName(Current(d))

\* Deleted, or one of the exceptions.
Accounted(n) == phase[n] = "active" => n \in undeleted \/ Shared(n)

DeletionAwaited ==
    \A d \in Deployer, n \in Namespace :
        pc[d] = "deleting" /\ n = NamespaceName(Current(d)) => Waits(d) \/ Accounted(n)

BehindCleanup(d, i, j) ==
    \/ pc[d] = "done"
    \/ /\ pc[d] \in {"undeployAll", "deleting"}
       /\ i < at[d].entry \/ (i = at[d].entry /\ j < at[d].suite)

CleanedSoFar ==
    EnableCleanups =>
        \A d \in Deployer : \A i \in DOMAIN entries[d] : \A j \in 1 .. entries[d][i] :
            \A n \in Namespace :
                BehindCleanup(d, i, j) /\ n = NamespaceName(<<d, i, j>>) => Accounted(n)

CleanInv == ScriptsInv /\ DeletionAwaited /\ CleanedSoFar

LEMMA CleanInit == Init => CleanInv
BY DEF Init, NamespacesInit, CleanInv, ScriptsInv, Waits, DeletionAwaited, CleanedSoFar, BehindCleanup

\* What a step of a deployer does to scripts, and what it puts behind the cleanup.
LEMMA CleanProgress ==
    ASSUME TypeOK, SuitePicked, ScriptsInv, NEW d \in Deployer, Progress(d) \/ Stop(d), UNCHANGED entries
    PROVE  /\ UNCHANGED <<phase, undeleted>>
           /\ \/ /\ UNCHANGED scripts /\ pc'[d] \notin {"creating", "deleting"}
                 /\ pc'[d] = "failed" \/ ~Waits(d)
              \/ /\ MoreSuites(d) /\ UNCHANGED at
                 /\ \/ pc'[d] = "creating" /\ Launch(d, "create")
                    \/ pc'[d] = "deleting" /\ Launch(d, "delete") /\ ~Waits(d)
           /\ \A i \in DOMAIN entries[d] : \A j \in 1 .. entries[d][i] :
                 EnableCleanups /\ BehindCleanup(d, i, j)' =>
                     \/ BehindCleanup(d, i, j)
                     \/ pc[d] = "deleting" /\ ~Waits(d) /\ <<d, i, j>> = Current(d)
<1> USE DEF GoTo, EndWait, Testing, Ended, nsVars, testVars, BehindCleanup, TypeOK
<1> DEFINE Scripts == \/ /\ UNCHANGED scripts /\ pc'[d] \notin {"creating", "deleting"}
                         /\ pc'[d] = "failed" \/ ~Waits(d)
                      \/ /\ MoreSuites(d) /\ UNCHANGED at
                         /\ \/ pc'[d] = "creating" /\ Launch(d, "create")
                            \/ pc'[d] = "deleting" /\ Launch(d, "delete") /\ ~Waits(d)
           Places == \A i \in DOMAIN entries[d] : \A j \in 1 .. entries[d][i] :
                         EnableCleanups /\ BehindCleanup(d, i, j)' =>
                             \/ BehindCleanup(d, i, j)
                             \/ pc[d] = "deleting" /\ ~Waits(d) /\ <<d, i, j>> = Current(d)
<1>0. /\ at[d].entry \in Nat /\ at[d].suite \in Nat /\ Len(entries[d]) \in Nat
      /\ \A i \in DOMAIN entries[d] :
            i \in Nat /\ i \in 1 .. Len(entries[d]) /\ \A j \in 1 .. entries[d][i] : j \in Nat
  BY EntryFacts
<1>1. pc[d] \notin {"creating", "deleting", "failed"} => ~Waits(d)
  BY DEF ScriptsInv
<1> HIDE DEF Scripts, Places
<1>2. CASE DeploySuite(d)
  <2>1. Scripts
    BY <1>2 DEF DeploySuite, Scripts
  <2> QED
    BY <1>2, <2>1 DEF DeploySuite, Scripts
<1>3. CASE Undeployed(d)
  <2>1. Scripts
    BY <1>1, <1>3 DEF Undeployed, Scripts
  <2> QED
    BY <1>3, <2>1 DEF Undeployed, Scripts
<1>4. CASE Validated(d) \/ GraphDeployed(d) \/ AllDeployed(d)
  BY <1>1, <1>4 DEF Validated, GraphDeployed, AllDeployed
<1>5. CASE NamespaceCreated(d)
  BY <1>5 DEF NamespaceCreated
<1>6. CASE Lock(d) \/ Start(d) \/ TimesOut(d) \/ GetReport(d)
  BY <1>1, <1>6 DEF Lock, Start, TimesOut, GetReport
<1>7. CASE PollFails(d) \/ PollAnswered(d)
  BY <1>1, <1>7 DEF PollFails, PollAnswered
<1>8. CASE LockFails(d) \/ Release(d) \/ Store(d)
  BY <1>1, <1>8 DEF LockFails, Release, Store, Through
<1>9. CASE TestsDone(d)
  <2>1. UNCHANGED <<phase, undeleted, scripts>> /\ pc[d] = "runAll" /\ pc'[d] \in {"deployAll", "undeployAll", "done"}
    BY <1>9 DEF TestsDone
  <2>2. Places
    <3>1. EnableCleanups => \/ pc'[d] = "deployAll"
                            \/ pc'[d] = "undeployAll" /\ at'[d].entry = 1 /\ at'[d].suite = 1
      BY <1>9 DEF TestsDone, FirstEntry
    <3> QED
      BY <1>0, <3>1 DEF Places
  <2> QED
    BY <1>1, <2>1, <2>2 DEF Places
<1>10. CASE NamespaceDeleted(d)
  <2>1. /\ pc[d] = "deleting" /\ pc'[d] = "undeployAll" /\ ~Waits(d) /\ UNCHANGED <<phase, undeleted, scripts>>
        /\ at'[d].entry = at[d].entry /\ at'[d].suite = at[d].suite + 1
    BY <1>10 DEF NamespaceDeleted, NextSuite
  <2>2. Places
    BY <1>0, <2>1 DEF Places, Current
  <2> QED
    BY <2>1, <2>2 DEF Places
<1>11. CASE CleanedUpEntry(d)
  <2>1. /\ pc[d] = "undeployAll" /\ pc'[d] \in {"undeployAll", "done"} /\ ~MoreSuites(d)
        /\ UNCHANGED <<phase, undeleted, scripts>>
    BY <1>11 DEF CleanedUpEntry
  <2>2. \A j \in 1 .. entries[d][at[d].entry] : j < at[d].suite
    BY <1>0, <2>1, EntryFacts DEF MoreSuites
  <2>3. Places
    <3>1. CASE MoreEntries(d)
      <4>1. pc'[d] = "undeployAll" /\ at'[d].entry = at[d].entry + 1 /\ at'[d].suite = 1
        BY <1>11, <3>1 DEF CleanedUpEntry, NextEntry
      <4> QED
        BY <1>0, <2>1, <2>2, <4>1 DEF Places
    <3>2. CASE ~MoreEntries(d)
      BY <1>0, <2>1, <2>2, <3>2 DEF MoreEntries, Places
    <3> QED
      BY <3>1, <3>2
  <2> QED
    BY <1>1, <2>1, <2>3 DEF Places
<1>12. CASE Stop(d)
  BY <1>12 DEF Stop
<1> QED
  BY <1>2, <1>3, <1>4, <1>5, <1>6, <1>7, <1>8, <1>9, <1>10, <1>11, <1>12 DEF Progress

\* The other steps: a script does its work, or no namespace becomes active.
LEMMA CleanAround ==
    ASSUME TypeOK, SuitePicked, Around, UNCHANGED entries
    PROVE  /\ UNCHANGED at
           /\ \A d \in Deployer : pc'[d] = pc[d] \/ (pc[d] = "polling" /\ pc'[d] = "timeout")
           /\ \/ \E x \in scripts : CreateNamespace(x) \/ DeleteNamespace(x)
              \/ /\ UNCHANGED <<scripts, undeleted>>
                 /\ \A n \in Namespace : phase'[n] = "active" => phase[n] = "active"
<1> USE DEF nsVars, testVars
<1>1. UNCHANGED at
  BY AroundTypes
<1>2. \A d \in Deployer : pc'[d] = pc[d] \/ (pc[d] = "polling" /\ pc'[d] = "timeout")
  BY AroundTypes DEF TimePasses, EndWait, GoTo, TypeOK
<1>3. CASE \E x \in scripts : CreateNamespace(x) \/ DeleteNamespace(x)
  BY <1>1, <1>2, <1>3
<1>4. CASE \E n \in Namespace : GrowOld(n)
  BY <1>1, <1>2, <1>4 DEF GrowOld
<1>5. CASE \E n \in Namespace : Terminate(n)
  BY <1>1, <1>2, <1>5 DEF Terminate, TypeOK, NamespacesTypeOK
<1>6. CASE LockFailsTest \/ \E d \in Deployer : TimePasses(d)
  BY <1>1, <1>2, <1>6 DEF TimePasses, LockFailsTest, LeaseEnds, HeartbeatGivesUp
<1>7. CASE CleanupJob
  <2>1. CASE List
    BY <1>1, <1>2, <2>1 DEF List
  <2>2. CASE \E n \in Namespace : Examine(n)
    BY <1>1, <1>2, <2>2 DEF Examine, Delete, TypeOK, NamespacesTypeOK
  <2> QED
    BY <1>7, <2>1, <2>2 DEF CleanupJob, Brownie
<1> QED
  BY <1>3, <1>4, <1>5, <1>6, <1>7 DEF Around, Cluster

\* A script about a name of one suite only is of the deployer of that suite.
LEMMA ScriptOwner ==
    ASSUME ScriptsInv, NEW x \in scripts, NEW s \in Suites(entries),
           x.name = NamespaceName(s), ~Shared(x.name)
    PROVE  s \in SuitesOf(x.client)
<1>1. PICK t \in SuitesOf(x.client) : x.name = NamespaceName(t)
  BY DEF ScriptsInv
<1>2. t \in Suites(entries)
  BY DEF SuitesOf
<1> QED
  BY <1>1, <1>2 DEF Shared

LEMMA CleanNext == Inv /\ CleanInv /\ [Next]_vars => CleanInv'
<1> SUFFICES ASSUME Inv, CleanInv, [Next]_vars PROVE CleanInv'
  OBVIOUS
<1> USE DEF Inv, CleanInv
<1>1. UNCHANGED entries
  BY DEF Next, vars
<1>2. /\ \A d : SuitesOf(d)' = SuitesOf(d)
      /\ \A n : Shared(n)' <=> Shared(n)
  BY <1>1 DEF SuitesOf, Suites, Shared, NamespaceName
<1>3. CASE UNCHANGED vars
  BY <1>2, <1>3 DEF vars, nsVars, ScriptsInv, DeletionAwaited, CleanedSoFar, BehindCleanup, Waits, Current,
                    Accounted, NamespaceName
<1>4. ASSUME NEW d \in Deployer, Progress(d) \/ Stop(d) PROVE CleanInv'
  <2>1. \A e \in Deployer \ {d} : pc'[e] = pc[e] /\ at'[e] = at[e]
    BY <1>1, <1>4, ProgressShape, Moves DEF Shape
  <2>2. \A n : Accounted(n)' <=> Accounted(n)
    BY <1>1, <1>2, <1>4, CleanProgress DEF Accounted
  <2>3. ScriptsInv' /\ DeletionAwaited'
    <3>1. CASE UNCHANGED scripts /\ pc'[d] \notin {"creating", "deleting"} /\ (pc'[d] = "failed" \/ ~Waits(d))
      BY <1>2, <2>1, <2>2, <3>1 DEF ScriptsInv, DeletionAwaited, Waits, Current, NamespaceName
    <3>2. CASE /\ MoreSuites(d) /\ UNCHANGED at
               /\ \/ pc'[d] = "creating" /\ Launch(d, "create")
                  \/ pc'[d] = "deleting" /\ Launch(d, "delete") /\ ~Waits(d)
      <4>1. PICK a \in {"create", "delete"} :
                /\ Launch(d, a)
                /\ pc'[d] \in {"creating", "deleting"}
                /\ pc'[d] = "deleting" => a = "delete" /\ ~Waits(d)
        BY <3>2
      <4> DEFINE x == [client |-> d, action |-> a, name |-> NamespaceName(Current(d))]
      <4>2. /\ scripts' = scripts \cup {x} /\ x.client = d /\ x.action = a
            /\ x.name = NamespaceName(Current(d)) /\ Current(d)' = Current(d)
        BY <3>2, <4>1 DEF Launch, Current
      <4>3. Current(d) \in SuitesOf(d)
        BY <3>2, CurrentIsSuite DEF SuitesOf, Current
      <4> HIDE DEF x
      <4>4. \A e \in Deployer \ {d} : /\ Waits(e)' <=> Waits(e)
                                      /\ Current(e)' = Current(e)
        BY <2>1, <4>2 DEF Waits, Current
      <4>5. Waits(d)'
        BY <4>2 DEF Waits
      <4>6. \A y \in scripts' : \E s \in SuitesOf(y.client)' : y.name = NamespaceName(s)
        BY <1>2, <4>2, <4>3 DEF ScriptsInv
      <4>7. \A e \in Deployer : pc'[e] \notin {"creating", "deleting", "failed"} => ~Waits(e)'
        BY <2>1, <4>1, <4>4 DEF ScriptsInv
      <4>8. ASSUME NEW e \in Deployer, NEW y \in scripts', pc'[e] = "deleting", y.client = e
            PROVE  y.action = "delete" /\ y.name = NamespaceName(Current(e))'
        <5>1. CASE e = d
          BY <4>1, <4>2, <4>8, <5>1 DEF Waits
        <5>2. CASE e # d
          BY <2>1, <4>2, <4>4, <4>8, <5>2 DEF ScriptsInv, NamespaceName
        <5> QED
          BY <5>1, <5>2
      <4>9. ScriptsInv'
        BY <4>6, <4>7, <4>8 DEF ScriptsInv
      <4> QED
        BY <2>1, <2>2, <4>4, <4>5, <4>9 DEF DeletionAwaited, NamespaceName
    <3> QED
      BY <1>1, <1>4, <3>1, <3>2, CleanProgress
  <2>4. ASSUME EnableCleanups, NEW e \in Deployer, NEW i \in DOMAIN entries[e],
               NEW j \in 1 .. entries[e][i], NEW n \in Namespace,
               BehindCleanup(e, i, j)', n = NamespaceName(<<e, i, j>>)
        PROVE  Accounted(n)
    <3>1. CASE e = d
      <4>1. \/ BehindCleanup(d, i, j)
            \/ pc[d] = "deleting" /\ ~Waits(d) /\ <<d, i, j>> = Current(d)
        BY <1>1, <1>4, <2>4, <3>1, CleanProgress
      <4> QED
        BY <2>4, <3>1, <4>1 DEF CleanedSoFar, DeletionAwaited
    <3>2. CASE e # d
      <4>1. BehindCleanup(e, i, j)
        BY <2>1, <2>4, <3>2 DEF BehindCleanup
      <4> QED
        BY <2>4, <4>1 DEF CleanedSoFar
    <3> QED
      BY <3>1, <3>2
  <2>5. CleanedSoFar'
    BY <1>1, <2>2, <2>4 DEF CleanedSoFar, NamespaceName
  <2> QED
    BY <2>3, <2>5
<1>5. CASE Around
  <2>1. /\ UNCHANGED at
        /\ \A d \in Deployer : pc'[d] = pc[d] \/ (pc[d] = "polling" /\ pc'[d] = "timeout")
    BY <1>1, <1>5, CleanAround
  <2>2. \A d \in Deployer : Current(d)' = Current(d)
    BY <2>1 DEF Current
  <2>3. \A d \in Deployer : \A i \in DOMAIN entries[d] : \A j \in 1 .. entries[d][i] :
            BehindCleanup(d, i, j)' => BehindCleanup(d, i, j)
    BY <2>1 DEF BehindCleanup
  <2>4. CASE /\ UNCHANGED <<scripts, undeleted>>
             /\ \A n \in Namespace : phase'[n] = "active" => phase[n] = "active"
    <3>0. \A n \in Namespace : Accounted(n) => Accounted(n)'
      BY <1>2, <2>4 DEF Accounted
    <3>1. ScriptsInv'
      BY <1>2, <2>1, <2>2, <2>4 DEF ScriptsInv, Waits, NamespaceName
    <3>3. DeletionAwaited'
      BY <2>1, <2>2, <2>4, <3>0 DEF DeletionAwaited, Waits, NamespaceName
    <3>4. CleanedSoFar'
      BY <1>1, <2>3, <3>0 DEF CleanedSoFar, NamespaceName
    <3> QED
      BY <3>1, <3>3, <3>4
  <2>5. ASSUME NEW x \in scripts, CreateNamespace(x) \/ DeleteNamespace(x) PROVE CleanInv'
    <3> DEFINE c == x.client
    <3>1. c \in Deployer /\ x.name \in Namespace /\ scripts' = scripts \ {x}
      BY <2>5, SuiteLifecycleAssumption DEF TypeOK, NamespacesTypeOK, Script, CreateNamespace, DeleteNamespace
    <3>2. /\ x.action = "delete" => phase'[x.name] # "active" \/ x.name \in undeleted'
          /\ \A n \in Namespace \ {x.name} :
                phase'[n] = phase[n] /\ (n \in undeleted' <=> n \in undeleted)
      BY <2>5, <3>1 DEF CreateNamespace, DeleteNamespace, Delete, TypeOK, NamespacesTypeOK
    <3>3. ScriptsInv'
      BY <1>2, <2>1, <2>2, <3>1 DEF ScriptsInv, Waits, NamespaceName
    <3>4. pc[c] \in {"creating", "deleting", "failed"}
      BY <3>1 DEF ScriptsInv, Waits
    <3>5. \A d \in Deployer : \A s \in SuitesOf(d) : x.name = NamespaceName(s) => d = c \/ Shared(x.name)
      BY ScriptOwner DEF SuitesOf
    <3> HIDE DEF c
    <3>6. ASSUME NEW n \in Namespace, x.name # n \/ x.action = "delete" \/ Shared(x.name), Accounted(n)
          PROVE  Accounted(n)'
      <4>1. CASE x.name = n
        BY <1>2, <3>2, <3>6, <4>1 DEF Accounted
      <4>2. CASE x.name # n
        BY <1>2, <3>2, <3>6, <4>2 DEF Accounted
      <4> QED
        BY <4>1, <4>2
    <3>7. ASSUME NEW d \in Deployer, NEW n \in Namespace, pc'[d] = "deleting", n = NamespaceName(Current(d))
          PROVE  Waits(d)' \/ Accounted(n)'
      <4>1. pc[d] = "deleting" /\ Current(d) \in SuitesOf(d)
        BY <2>1, <3>7, CurrentIsSuite DEF SuitePicked, WithSuite, SuitesOf, Current
      <4>2. CASE d = c
        <5>1. x.action = "delete" /\ x.name = n
          BY <3>7, <4>1, <4>2 DEF ScriptsInv, c
        <5> QED
          BY <3>2, <5>1 DEF Accounted
      <4>3. CASE d # c
        <5>1. Waits(d)' <=> Waits(d)
          BY <3>1, <4>3 DEF Waits, c
        <5>2. x.name # n \/ Shared(x.name)
          BY <3>5, <3>7, <4>1, <4>3
        <5> QED
          BY <3>6, <3>7, <4>1, <5>1, <5>2 DEF DeletionAwaited
      <4> QED
        BY <4>2, <4>3
    <3>8. ASSUME EnableCleanups, NEW d \in Deployer, NEW i \in DOMAIN entries[d],
                 NEW j \in 1 .. entries[d][i], NEW n \in Namespace,
                 BehindCleanup(d, i, j), n = NamespaceName(<<d, i, j>>)
          PROVE  Accounted(n)'
      <4>1. <<d, i, j>> \in SuitesOf(d)
        BY SuiteFacts DEF SuitesOf
      <4>2. x.name = n /\ ~Shared(x.name) => x.action = "delete"
        <5>1. x.name = n /\ ~Shared(x.name) => d = c
          BY <3>5, <3>8, <4>1
        <5>2. d = c => pc[c] = "deleting"
          BY <3>4, <3>8 DEF BehindCleanup
        <5> QED
          BY <3>1, <5>1, <5>2 DEF ScriptsInv, c
      <4> QED
        BY <3>6, <3>8, <4>2 DEF CleanedSoFar
    <3>9. DeletionAwaited'
      BY <2>2, <3>7 DEF DeletionAwaited, NamespaceName
    <3>10. CleanedSoFar'
      BY <1>1, <2>3, <3>8 DEF CleanedSoFar, NamespaceName
    <3> QED
      BY <3>3, <3>9, <3>10
  <2> QED
    BY <1>1, <1>5, <2>4, <2>5, CleanAround
<1> QED
  BY <1>3, <1>4, <1>5 DEF Next, Step, Around, LockFailsTest

\* A run that ends well leaves no namespace behind, whatever other runs and Brownie do
\* meanwhile, unless the deletion failed unnoticed or another run uses the name, too.
THEOREM NothingLeftByARun == Spec => []CleanedUp
<1>1. Inv /\ CleanInv => CleanedUp
  <2> SUFFICES ASSUME Inv, CleanInv, EnableCleanups, NEW d \in Deployer, pc[d] = "done", NEW s \in SuitesOf(d)
               PROVE  Accounted(NamespaceName(s))
    BY DEF CleanedUp, Accounted
  <2>1. PICK i \in DOMAIN entries[d] : \E j \in 1 .. entries[d][i] : s = <<d, i, j>>
    BY SuitesOfShape
  <2>2. NamespaceName(s) \in Namespace
    BY <2>1, SuiteFacts, SuiteLifecycleAssumption DEF Inv
  <2> QED
    BY <2>1, <2>2 DEF CleanInv, CleanedSoFar, BehindCleanup
<1> QED
  BY <1>1, Invariance, CleanInit, CleanNext, PTL DEF Spec

-----------------------------------------------------------------------------
(* Nobody deletes a namespace in use *)

\* The suites that deployAll has yet to pick.
Ahead(d, i, j) ==
    \/ pc[d] = "validating"
    \/ /\ pc[d] \notin Ended \cup {"undeployAll", "deleting"}
       /\ at[d].entry < i
    \/ pc[d] = "deployAll" /\ at[d].entry = i /\ at[d].suite <= j
    \/ pc[d] \in {"creating", "deploying"} /\ at[d].entry = i /\ at[d].suite < j

\* A name of one suite is used once: it does not exist before its suite is picked, nor until
\* the script ends that creates it, and Brownie has no older one on its list.
NotYetMade(n) == born[n] = 0 /\ \A x \in scripts : x.action = "create" => x.name # n

UsedOnce ==
    /\ \A n \in Namespace : listed[n] <= born[n] /\ (born[n] <= 1 \/ Shared(n))
    /\ \A x \in scripts : x.action = "create" => born[x.name] = 0 \/ Shared(x.name)
    /\ \A d \in Deployer : \A i \in DOMAIN entries[d] : \A j \in 1 .. entries[d][i] : \A n \in Namespace :
          Ahead(d, i, j) /\ n = NamespaceName(<<d, i, j>>) => NotYetMade(n) \/ Shared(n)

UseInv == Inv /\ CleanInv /\ UsedOnce

LEMMA UsedInit == Init => UsedOnce
<1> SUFFICES ASSUME Init PROVE UsedOnce
  OBVIOUS
<1>1. \A n \in Namespace : born[n] = 0 /\ listed[n] = 0
  BY DEF Init, NamespacesInit
<1>2. scripts = {}
  BY DEF Init, NamespacesInit
<1> QED
  BY <1>1, <1>2 DEF UsedOnce, NotYetMade

\* Of a deployer's steps only DeploySuite creates, and what it creates was ahead.
LEMMA UsedProgress ==
    ASSUME TypeOK, SuitePicked, NEW d \in Deployer, Progress(d) \/ Stop(d), UNCHANGED entries
    PROVE  /\ UNCHANGED <<born, listed>>
           /\ \/ UNCHANGED scripts
              \/ Launch(d, "delete")
              \/ Launch(d, "create") /\ DeploySuite(d)
           /\ \A i \in DOMAIN entries[d] : \A j \in 1 .. entries[d][i] :
                 Ahead(d, i, j)' => Ahead(d, i, j)
<1> USE DEF GoTo, EndWait, Testing, Ended, nsVars, testVars, Ahead, TypeOK
<1> DEFINE Places == \A i \in DOMAIN entries[d] : \A j \in 1 .. entries[d][i] :
                         Ahead(d, i, j)' => Ahead(d, i, j)
<1>0. /\ at[d].entry \in Nat /\ at[d].suite \in Nat /\ Len(entries[d]) \in Nat
      /\ \A i \in DOMAIN entries[d] :
            i \in Nat /\ i \in 1 .. Len(entries[d]) /\ \A j \in 1 .. entries[d][i] : j \in Nat
  BY EntryFacts
<1> HIDE DEF Places
<1>1. CASE DeploySuite(d)
  <2>1. Places
    BY <1>0, <1>1 DEF DeploySuite, Places
  <2> QED
    BY <1>1, <2>1 DEF DeploySuite, Places
<1>2. CASE Undeployed(d)
  <2>1. Places
    BY <1>2 DEF Undeployed, Places
  <2> QED
    BY <1>2, <2>1 DEF Undeployed, Places
<1>3. CASE Validated(d)
  BY <1>3 DEF Validated
<1>4. CASE NamespaceCreated(d)
  BY <1>4 DEF NamespaceCreated
<1>5. CASE GraphDeployed(d)
  <2>1. /\ UNCHANGED <<born, listed, scripts>>
        /\ pc[d] = "deploying" /\ pc'[d] = "deployAll"
        /\ at'[d].entry = at[d].entry /\ at'[d].suite = at[d].suite + 1
    BY <1>5 DEF GraphDeployed, NextSuite
  <2>2. Places
    BY <1>0, <2>1 DEF Places
  <2> QED
    BY <2>1, <2>2 DEF Places
<1>6. CASE AllDeployed(d)
  <2>1. /\ UNCHANGED <<born, listed, scripts>>
        /\ pc[d] = "deployAll" /\ pc'[d] = "runAll" /\ at'[d].entry = at[d].entry
    BY <1>6 DEF AllDeployed, FirstSuite
  <2>2. Places
    BY <1>0, <2>1 DEF Places
  <2> QED
    BY <2>1, <2>2 DEF Places
<1>7. CASE Lock(d) \/ Start(d) \/ TimesOut(d) \/ GetReport(d)
  BY <1>7 DEF Lock, Start, TimesOut, GetReport
<1>8. CASE PollFails(d) \/ PollAnswered(d)
  BY <1>8 DEF PollFails, PollAnswered
<1>9. CASE LockFails(d) \/ Release(d) \/ Store(d)
  <2>1. /\ UNCHANGED <<born, listed, scripts>>
        /\ pc[d] \in Testing \cup {"runAll", "storing"}
        /\ pc'[d] \in {"runAll", "storing"} /\ at'[d].entry = at[d].entry
    BY <1>9 DEF LockFails, Release, Store, Through, NextSuite
  <2>2. Places
    BY <1>0, <2>1 DEF Places
  <2> QED
    BY <2>1, <2>2 DEF Places
<1>10. CASE TestsDone(d)
  <2>1. UNCHANGED <<born, listed, scripts>> /\ pc[d] = "runAll"
    BY <1>10 DEF TestsDone
  <2>2. CASE MoreEntries(d)
    <3>1. pc'[d] = "deployAll" /\ at'[d].entry = at[d].entry + 1 /\ at'[d].suite = 1
      BY <1>10, <2>2 DEF TestsDone, NextEntry
    <3>2. Places
      BY <1>0, <2>1, <3>1 DEF Places
    <3> QED
      BY <2>1, <3>2 DEF Places
  <2>3. CASE ~MoreEntries(d)
    <3>1. pc'[d] \in {"undeployAll", "done"}
      BY <1>10, <2>3 DEF TestsDone
    <3>2. Places
      BY <3>1 DEF Places
    <3> QED
      BY <2>1, <3>2 DEF Places
  <2> QED
    BY <2>2, <2>3
<1>11. CASE NamespaceDeleted(d)
  BY <1>11 DEF NamespaceDeleted
<1>12. CASE CleanedUpEntry(d)
  BY <1>12 DEF CleanedUpEntry
<1>13. CASE Stop(d)
  BY <1>13 DEF Stop
<1> QED
  BY <1>1, <1>2, <1>3, <1>4, <1>5, <1>6, <1>7, <1>8, <1>9, <1>10, <1>11, <1>12, <1>13 DEF Progress

\* A deployer that has picked a suite is none of those that have yet to pick it;
\* so a name is never created twice.
LEMMA UsedByDeployer ==
    ASSUME Inv, CleanInv, UsedOnce, UNCHANGED entries,
           NEW d \in Deployer, Progress(d) \/ Stop(d)
    PROVE  UsedOnce'
<1> USE DEF Inv
<1>0. \A n : Shared(n)' <=> Shared(n)
  BY DEF Shared, Suites, NamespaceName
<1>1. \A e \in Deployer \ {d} : pc'[e] = pc[e] /\ at'[e] = at[e]
  BY ProgressShape, Moves DEF Shape
<1>2. UNCHANGED <<born, listed>>
  BY UsedProgress
<1>3. \A e \in Deployer : \A i \in DOMAIN entries[e] : \A j \in 1 .. entries[e][i] :
          Ahead(e, i, j)' => Ahead(e, i, j)
  <2> SUFFICES ASSUME NEW e \in Deployer, NEW i \in DOMAIN entries[e], NEW j \in 1 .. entries[e][i],
                      Ahead(e, i, j)'
               PROVE  Ahead(e, i, j)
    OBVIOUS
  <2>1. CASE e = d
    BY <2>1, UsedProgress
  <2>2. CASE e # d
    BY <1>1, <2>2 DEF Ahead
  <2> QED
    BY <2>1, <2>2
<1>4. CASE \A x \in scripts' : x.action = "create" => x \in scripts
  <2>1. \A n : NotYetMade(n) => NotYetMade(n)'
    BY <1>2, <1>4 DEF NotYetMade
  <2>2. \A n \in Namespace : listed'[n] <= born'[n] /\ (born'[n] <= 1 \/ Shared(n)')
    BY <1>0, <1>2 DEF UsedOnce
  <2>3. \A x \in scripts' : x.action = "create" => born'[x.name] = 0 \/ Shared(x.name)
    BY <1>2, <1>4 DEF UsedOnce
  <2> QED
    BY <1>0, <1>3, <2>1, <2>2, <2>3 DEF UsedOnce, NamespaceName
<1>5. CASE Launch(d, "create") /\ DeploySuite(d)
  <2> DEFINE x == [client |-> d, action |-> "create", name |-> NamespaceName(Current(d))]
  <2>1. /\ scripts' = scripts \cup {x} /\ x.name = NamespaceName(Current(d))
        /\ pc[d] = "deployAll" /\ pc'[d] = "creating" /\ MoreSuites(d) /\ UNCHANGED at
    BY <1>5 DEF Launch, DeploySuite, GoTo, TypeOK
  <2>2. PICK p \in DOMAIN entries[d], q \in Nat :
            /\ at[d].entry = p /\ at[d].suite = q /\ q \in 1 .. entries[d][p] /\ p \in Nat
            /\ Current(d) = <<d, p, q>> /\ Current(d) \in Suites(entries) /\ Current(d) \in Suite
    <3>1. Current(d) \in Suites(entries) /\ Current(d) \in Suite
      BY <2>1, CurrentIsSuite
    <3>2. at[d].entry \in DOMAIN entries[d] /\ at[d].entry \in Nat /\ at[d].suite \in Nat
      BY DEF TypeOK
    <3>3. at[d].suite \in 1 .. entries[d][at[d].entry]
      BY <2>1, EntryFacts DEF TypeOK, MoreSuites
    <3>4. Current(d) = <<d, at[d].entry, at[d].suite>>
      BY DEF Current
    <3> QED
      BY <3>1, <3>2, <3>3, <3>4
  <2>3. Ahead(d, p, q) /\ ~Ahead(d, p, q)'
    BY <2>1, <2>2 DEF Ahead, Ended
  <2> HIDE DEF x
  <2>4. x.name \in Namespace /\ (born[x.name] = 0 \/ Shared(x.name))
    BY <2>1, <2>2, <2>3, SuiteLifecycleAssumption DEF UsedOnce, NotYetMade
  <2>5. ASSUME NEW e \in Deployer, NEW i \in DOMAIN entries[e], NEW j \in 1 .. entries[e][i],
               NEW n \in Namespace, Ahead(e, i, j)', n = NamespaceName(<<e, i, j>>)
        PROVE  NotYetMade(n)' \/ Shared(n)
    <3>1. NotYetMade(n) \/ Shared(n)
      BY <1>3, <2>5 DEF UsedOnce
    <3>2. <<e, i, j>> # Current(d) /\ <<e, i, j>> \in Suites(entries)
      BY <2>2, <2>3, <2>5, SuiteFacts
    <3>3. x.name # n \/ Shared(n)
      BY <2>1, <2>2, <2>5, <3>2 DEF Shared
    <3> QED
      BY <1>2, <2>1, <3>1, <3>3 DEF NotYetMade
  <2>6. \A n \in Namespace : listed'[n] <= born'[n] /\ (born'[n] <= 1 \/ Shared(n)')
    BY <1>0, <1>2 DEF UsedOnce
  <2>7. \A y \in scripts' : y.action = "create" => born'[y.name] = 0 \/ Shared(y.name)
    BY <1>2, <2>1, <2>4 DEF UsedOnce
  <2> QED
    BY <1>0, <2>5, <2>6, <2>7 DEF UsedOnce, NamespaceName
<1>6. CASE Launch(d, "delete")
  BY <1>4, <1>6 DEF Launch
<1> QED
  BY <1>4, <1>5, <1>6, UsedProgress

LEMMA UsedByOthers ==
    ASSUME Inv, CleanInv, UsedOnce, UNCHANGED entries, Around
    PROVE  UsedOnce'
<1> USE DEF Inv, CleanInv, nsVars, testVars
<1>0. \A n : Shared(n)' <=> Shared(n)
  BY DEF Shared, Suites, NamespaceName
<1>1. /\ UNCHANGED at
      /\ \A d \in Deployer : pc'[d] = pc[d] \/ (pc[d] = "polling" /\ pc'[d] = "timeout")
  BY CleanAround
<1>2. \A d \in Deployer : \A i \in DOMAIN entries[d] : \A j \in 1 .. entries[d][i] :
          Ahead(d, i, j)' => Ahead(d, i, j)
  BY <1>1 DEF Ahead, Ended
<1>3. \A n \in Namespace : born[n] \in Nat /\ listed[n] \in Nat
  BY DEF TypeOK, NamespacesTypeOK
<1>4. CASE /\ UNCHANGED born /\ scripts' \subseteq scripts
           /\ \A n \in Namespace : listed'[n] \in {0, listed[n], born[n]}
  <2>1. \A n : NotYetMade(n) => NotYetMade(n)'
    BY <1>4 DEF NotYetMade
  <2>2. \A n \in Namespace : listed'[n] <= born'[n] /\ (born'[n] <= 1 \/ Shared(n)')
    BY <1>0, <1>3, <1>4 DEF UsedOnce
  <2>3. \A x \in scripts' : x.action = "create" => born'[x.name] = 0 \/ Shared(x.name)
    BY <1>4 DEF UsedOnce
  <2> QED
    BY <1>0, <1>2, <2>1, <2>2, <2>3 DEF UsedOnce, NamespaceName
<1>5. CASE \E x \in scripts : CreateNamespace(x)
  <2>1. PICK x \in scripts : CreateNamespace(x)
    BY <1>5
  <2> DEFINE m == x.name
  <2>2. born \in [Namespace -> Nat]
    BY DEF TypeOK, NamespacesTypeOK
  <2>3. /\ m \in Namespace /\ x.action = "create" /\ (born[m] = 0 \/ Shared(m))
        /\ scripts' = scripts \ {x} /\ UNCHANGED listed
    BY <2>1 DEF CreateNamespace, UsedOnce, TypeOK, NamespacesTypeOK, Script
  <2>4. UNCHANGED born \/ born' = [born EXCEPT ![m] = @ + 1]
    BY <2>1 DEF CreateNamespace
  <2>5. ASSUME NEW y \in scripts', y.action = "create" PROVE y.name # m \/ Shared(m)
    <3>1. PICK s \in SuitesOf(x.client) : m = NamespaceName(s)
      BY DEF ScriptsInv
    <3>2. s \in Suites(entries) /\ s[1] = x.client
      BY DEF SuitesOf
    <3>3. y.name = m => s[1] = y.client \/ Shared(m)
      BY <2>3, <2>5, <3>1, <3>2, ScriptOwner DEF SuitesOf
    <3>4. x \in Script /\ y \in Script
      BY <2>3 DEF TypeOK, NamespacesTypeOK
    <3> QED
      BY <2>3, <2>5, <3>2, <3>3, <3>4 DEF Script
  <2> HIDE DEF m
  <2>6. \A n \in Namespace \ {m} : NotYetMade(n) => NotYetMade(n)'
    BY <2>2, <2>3, <2>4 DEF NotYetMade
  <2>7. ASSUME NEW d \in Deployer, NEW i \in DOMAIN entries[d], NEW j \in 1 .. entries[d][i],
               NEW n \in Namespace, Ahead(d, i, j)', n = NamespaceName(<<d, i, j>>)
        PROVE  NotYetMade(n)' \/ Shared(n)
    <3>1. NotYetMade(n) \/ Shared(n)
      BY <1>2, <2>7 DEF UsedOnce
    <3>2. NotYetMade(n) => n # m
      BY <2>3 DEF NotYetMade, m
    <3> QED
      BY <2>6, <3>1, <3>2
  <2>8. \A n \in Namespace : listed'[n] <= born'[n] /\ (born'[n] <= 1 \/ Shared(n)')
    <3>1. ASSUME NEW n \in Namespace, UNCHANGED born PROVE listed'[n] <= born'[n] /\ (born'[n] <= 1 \/ Shared(n))
      BY <2>3, <3>1 DEF UsedOnce
    <3>2. ASSUME NEW n \in Namespace, born' = [born EXCEPT ![m] = @ + 1]
          PROVE  listed'[n] <= born'[n] /\ (born'[n] <= 1 \/ Shared(n))
      <4>1. CASE n = m
        BY <1>3, <2>2, <2>3, <3>2, <4>1 DEF UsedOnce
      <4>2. CASE n # m
        BY <2>2, <2>3, <3>2, <4>2 DEF UsedOnce
      <4> QED
        BY <4>1, <4>2
    <3> QED
      BY <1>0, <2>4, <3>1, <3>2
  <2>9. \A y \in scripts' : y.action = "create" => born'[y.name] = 0 \/ Shared(y.name)
    <3>1. \A y \in scripts' : y \in scripts /\ y.name \in Namespace
      BY <2>3 DEF TypeOK, NamespacesTypeOK, Script
    <3>2. \A n \in Namespace \ {m} : born'[n] = born[n]
      BY <2>2, <2>4
    <3> QED
      BY <2>5, <3>1, <3>2 DEF UsedOnce
  <2> QED
    BY <1>0, <2>7, <2>8, <2>9 DEF UsedOnce, NamespaceName
<1>6. CASE \E x \in scripts : DeleteNamespace(x)
  BY <1>4, <1>6 DEF DeleteNamespace
<1>7. CASE \E n \in Namespace : GrowOld(n)
  BY <1>4, <1>7 DEF GrowOld
<1>8. CASE \E n \in Namespace : Terminate(n)
  BY <1>4, <1>8 DEF Terminate
<1>9. CASE LockFailsTest \/ \E d \in Deployer : TimePasses(d)
  BY <1>4, <1>9 DEF TimePasses, LockFailsTest, LeaseEnds, HeartbeatGivesUp
<1>10. CASE CleanupJob
  <2>1. CASE List
    BY <1>4, <2>1 DEF List
  <2>2. CASE \E n \in Namespace : Examine(n)
    BY <1>4, <2>2 DEF Examine, TypeOK, NamespacesTypeOK
  <2> QED
    BY <1>10, <2>1, <2>2 DEF CleanupJob, Brownie
<1> QED
  BY <1>5, <1>6, <1>7, <1>8, <1>9, <1>10 DEF Around, Cluster

LEMMA UsedNext == UseInv /\ [Next]_vars => UsedOnce'
<1> SUFFICES ASSUME UseInv, [Next]_vars PROVE UsedOnce'
  OBVIOUS
<1> USE DEF UseInv
<1>1. UNCHANGED entries
  BY DEF Next, vars
<1>2. CASE UNCHANGED vars
  <2>1. \A n : (Shared(n)' <=> Shared(n)) /\ (NotYetMade(n)' <=> NotYetMade(n))
    BY <1>2 DEF vars, nsVars, Shared, Suites, NamespaceName, NotYetMade
  <2> QED
    BY <1>2, <2>1 DEF vars, nsVars, UsedOnce, Ahead, NamespaceName
<1>3. CASE \E d \in Deployer : Progress(d) \/ Stop(d)
  BY <1>1, <1>3, UsedByDeployer
<1>4. CASE Around
  BY <1>1, <1>4, UsedByOthers
<1> QED
  BY <1>2, <1>3, <1>4 DEF Next, Step, Around, LockFailsTest

\* Nobody deletes a namespace that a deployer is using: neither a cleanup nor a script
\* left over from a run that was stopped, and Brownie only by its age; but where suites
\* share a name, the cleanup of the other, and Brownie with a list from before.
THEOREM NoneDeletedInUse == Spec => NotDeletedInUse
<1> DEFINE Allowed(d, n) ==
               \/ aged[n] = born[n]
               \/ /\ Shared(n)
                  /\ \/ \E x \in scripts \ scripts' :
                           x.action = "delete" /\ x.name = n /\ x.client # d
                     \/ listed[n] \in 1 .. aged[n] /\ listed[n] < born[n]
<1>1. UseInv /\ [Next]_vars =>
          \A d \in Deployer, n \in Namespace :
              InUse(d, n) /\ phase[n] = "active" /\ phase'[n] = "terminating" => Allowed(d, n)
  <2> SUFFICES ASSUME UseInv, [Next]_vars, NEW d \in Deployer, NEW n \in Namespace,
                      InUse(d, n), phase[n] = "active", phase'[n] = "terminating"
               PROVE  Allowed(d, n)
    OBVIOUS
  <2> USE DEF UseInv, Inv, CleanInv, nsVars, testVars
  <2>1. UNCHANGED entries /\ Next
    BY DEF Next, vars
  <2>2. phase \in [Namespace -> {"absent", "active", "terminating"}]
    BY DEF TypeOK, NamespacesTypeOK
  <2>3. CASE \E e \in Deployer : Progress(e) \/ Stop(e)
    BY <2>1, <2>3, CleanProgress
  <2>4. CASE \E x \in scripts : CreateNamespace(x)
    BY <2>2, <2>4 DEF CreateNamespace
  <2>5. CASE \E x \in scripts : DeleteNamespace(x)
    <3>1. PICK x \in scripts : DeleteNamespace(x)
      BY <2>5
    <3>2. x.name = n /\ x.action = "delete" /\ x \in scripts \ scripts'
      BY <2>2, <3>1 DEF DeleteNamespace, Delete
    <3>3. /\ n = NamespaceName(Current(d)) /\ Current(d) \in Suites(entries) /\ Current(d)[1] = d
          /\ pc[d] \notin {"creating", "deleting", "failed"}
      BY CurrentIsSuite DEF InUse, SuitePicked, WithSuite, Current, Testing
    <3>4. x.client # d
      BY <3>3 DEF ScriptsInv, Waits
    <3>5. Shared(n)
      BY <3>2, <3>3, <3>4, ScriptOwner DEF SuitesOf
    <3> QED
      BY <3>2, <3>4, <3>5
  <2>6. CASE \E m \in Namespace : GrowOld(m)
    BY <2>6 DEF GrowOld
  <2>7. CASE \E m \in Namespace : Terminate(m)
    BY <2>2, <2>7 DEF Terminate
  <2>8. CASE LockFailsTest \/ \E e \in Deployer : TimePasses(e)
    BY <2>8 DEF TimePasses, LockFailsTest, LeaseEnds, HeartbeatGivesUp
  <2>9. CASE List
    BY <2>9 DEF List
  <2>10. CASE \E m \in Namespace : Examine(m)
    <3>1. PICK m \in Namespace : Examine(m)
      BY <2>10
    <3>2. m = n /\ aged[n] >= listed[n] /\ listed[n] # 0
      BY <2>2, <3>1 DEF Examine, Delete
    <3>3. born[n] \in Nat /\ aged[n] \in Nat /\ listed[n] \in Nat /\ aged[n] <= born[n]
      BY DEF TypeOK, NamespacesTypeOK
    <3>4. listed[n] <= born[n] /\ (born[n] <= 1 \/ Shared(n))
      BY DEF UsedOnce
    <3>5. CASE listed[n] = born[n]
      BY <3>2, <3>3, <3>5
    <3>6. CASE listed[n] # born[n]
      <4>1. listed[n] \in 1 .. aged[n] /\ listed[n] < born[n] /\ ~(born[n] <= 1)
        BY <3>2, <3>3, <3>4, <3>6
      <4> QED
        BY <3>4, <4>1
    <3> QED
      BY <3>5, <3>6
  <2> QED
    BY <2>1, <2>3, <2>4, <2>5, <2>6, <2>7, <2>8, <2>9, <2>10
    DEF Next, Step, Cluster, CleanupJob, Brownie, LockFailsTest
<1> QED
  BY <1>1, Invariance, CleanInit, CleanNext, UsedInit, UsedNext, PTL DEF Spec, NotDeletedInUse, UseInv
=============================================================================
