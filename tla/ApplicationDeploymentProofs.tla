-------------------- MODULE ApplicationDeploymentProofs --------------------
(***************************************************************************)
(* What ApplicationDeployment promises of the log, for every output a      *)
(* script may write.  Three actions read the log with the same operator,   *)
(* so most of the work is in one lemma: Read preserves the invariant.      *)
(***************************************************************************)
EXTENDS ApplicationDeployment, TLAPS

\* No line before the place where the next read begins is a marker.
LogInv ==
    /\ tail # "none" => written < Len(output)
    /\ linesRead <= written
    /\ \A i \in 1 .. linesRead : ~Marker(i)

\* Everything before that place was delivered, and at most the line that begins
\* there too, when it was read while its end was missing.
DeliveryInv ==
    /\ 1 .. linesRead \subseteq delivered
    /\ delivered \subseteq 1 .. linesRead + 1
    /\ delivered \subseteq 1 .. Readable
    /\ \A i \in delivered : ~Marker(i)

\* Once the outcome is known, the place is in front of the first marker.
OutcomeInv ==
    outcome # Unknown =>
        /\ linesRead + 1 <= Readable /\ Marker(linesRead + 1)
        /\ outcome = (output[linesRead + 1] = "done")

Inv == TypeOK /\ LogInv /\ DeliveryInv /\ OutcomeInv

-----------------------------------------------------------------------------

LEMMA OutputIsSeq == ASSUME TypeOK PROVE Len(output) \in Nat /\ output \in Seq({"text", "done", "error"})
BY ApplicationDeploymentAssumption DEF TypeOK

LEMMA InitInv == Init => Inv
<1> SUFFICES ASSUME Init PROVE Inv
  OBVIOUS
<1>1. TypeOK
  <2>1. 0 \in 0 .. Len(output) /\ 1 \in 1 .. 6
    BY ApplicationDeploymentAssumption DEF Init
  <2>2. timedCheck \in BOOLEAN
    BY ApplicationDeploymentAssumption DEF Init
  <2> QED
    BY <2>1, <2>2, Zenon DEF Init, TypeOK
<1>2. Len(output) \in Nat /\ 1 .. 0 = {}
  BY <1>1, OutputIsSeq
<1>3. LogInv /\ OutcomeInv
  BY <1>2 DEF Init, LogInv, OutcomeInv
<1>4. DeliveryInv
  BY <1>2 DEF Init, DeliveryInv
<1> QED
  BY <1>1, <1>3, <1>4 DEF Inv

\* A read moves up to the first marker or to the last line, and what it moves
\* over is no marker and is delivered.
LEMMA ReadInv ==
    ASSUME Inv, Read, UNCHANGED <<log, statusCheck, timedCheck>>
    PROVE  /\ linesRead' \in 0 .. Len(output) /\ outcome' \in BOOLEAN \cup {Unknown}
           /\ delivered' \subseteq 1 .. Len(output)
           /\ LogInv' /\ DeliveryInv' /\ OutcomeInv'
<1> USE DEF Inv, log
<1>1. /\ Len(output) \in Nat /\ written \in Nat /\ linesRead \in Nat
      /\ Readable \in 0 .. Len(output) /\ written <= Readable /\ Readable <= written + 1
      /\ Readable' = Readable /\ \A i : Marker(i)' <=> Marker(i)
  BY OutputIsSeq DEF TypeOK, LogInv, Readable, Marker
<1>2. CASE MarkersFrom(linesRead) = {}
  <2>1. /\ linesRead' = written /\ outcome' = outcome
        /\ delivered' = delivered \cup (linesRead + 1 .. Readable)
    BY <1>2 DEF Read
  <2>2. \A i \in linesRead + 1 .. Readable : ~Marker(i)
    BY <1>2 DEF MarkersFrom
  <2>3. outcome = Unknown
    BY <1>1, <2>2 DEF OutcomeInv
  <2>4. LogInv'
    BY <1>1, <2>1, <2>2 DEF LogInv, TypeOK
  <2>5. DeliveryInv'
    BY <1>1, <2>1, <2>2 DEF LogInv, DeliveryInv, TypeOK
  <2> QED
    BY <1>1, <2>1, <2>3, <2>4, <2>5 DEF OutcomeInv, TypeOK
<1>3. CASE MarkersFrom(linesRead) # {}
  <2>1. PICK i \in MarkersFrom(linesRead) :
            /\ \A j \in MarkersFrom(linesRead) : i <= j
            /\ linesRead' = i - 1 /\ outcome' = (output[i] = "done")
            /\ delivered' = delivered \cup (linesRead + 1 .. i - 1)
    BY <1>3 DEF Read, FirstFrom
  <2>2. i \in linesRead + 1 .. Readable /\ Marker(i)
    BY DEF MarkersFrom
  <2>3. \A j \in linesRead + 1 .. i - 1 : ~Marker(j)
    BY <1>1, <2>1, <2>2 DEF MarkersFrom
  <2>4. LogInv'
    BY <1>1, <2>1, <2>2, <2>3 DEF LogInv, TypeOK
  <2>5. \A j \in delivered : j <= i - 1
    BY <1>1, <2>2 DEF DeliveryInv
  <2>6. DeliveryInv'
    BY <1>1, <2>1, <2>2, <2>3, <2>5 DEF LogInv, DeliveryInv, TypeOK
  <2>7. OutcomeInv'
    BY <1>1, <2>1, <2>2 DEF OutcomeInv
  <2> QED
    BY <1>1, <2>1, <2>2, <2>4, <2>6, <2>7 DEF TypeOK
<1> QED
  BY <1>2, <1>3

LEMMA NextInv == Inv /\ [Next]_vars => Inv'
<1> SUFFICES ASSUME Inv, [Next]_vars PROVE Inv'
  OBVIOUS
<1> USE DEF log, reading
<1> DEFINE Facts == LogInv /\ DeliveryInv /\ OutcomeInv
<1>1. /\ Len(output) \in Nat /\ written \in 0 .. Len(output)
  BY OutputIsSeq DEF Inv, TypeOK
<1>2. ASSUME UNCHANGED <<output, written, tail, reading>> PROVE Facts'
  BY <1>2 DEF Inv, LogInv, DeliveryInv, OutcomeInv, Marker, Readable
<1>3. CASE UNCHANGED vars
  BY <1>2, <1>3 DEF vars, Inv, TypeOK
<1>4. CASE CreateFile
  BY <1>2, <1>4 DEF CreateFile, Inv, TypeOK
<1>5. CASE Write
  <2>1. /\ written' \in 0 .. Len(output) /\ tail' \in {"none", "part", "whole"}
        /\ written' >= written /\ (tail' # "none" => written' < Len(output))
        /\ Readable' >= Readable /\ Readable' \in Nat /\ Readable \in Nat
    BY <1>1, <1>5 DEF Write, Inv, TypeOK, LogInv, Readable
  <2>2. UNCHANGED <<output, reading>>
    BY <1>5 DEF Write
  <2>3. \A i : Marker(i)' <=> Marker(i)
    BY <2>2 DEF Marker
  <2>4. LogInv'
    BY <1>1, <2>1, <2>2, <2>3 DEF Inv, TypeOK, LogInv
  <2>5. DeliveryInv'
    <3>1. 1 .. Readable \subseteq 1 .. Readable'
      BY <2>1
    <3>2. linesRead' = linesRead /\ delivered' = delivered
      BY <2>2
    <3> QED
      BY <2>3, <3>1, <3>2 DEF Inv, DeliveryInv
  <2>6. OutcomeInv'
    BY <1>1, <2>1, <2>2, <2>3 DEF Inv, TypeOK, OutcomeInv
  <2> QED
    BY <1>5, <2>1, <2>2, <2>4, <2>5, <2>6 DEF Write, Inv, TypeOK
<1>6. CASE Launch
  BY <1>2, <1>6 DEF Launch, Inv, TypeOK
<1>7. CASE WaitForFile
  BY <1>2, <1>7 DEF WaitForFile, Inv, TypeOK
<1>8. CASE Watch
  <2>1. Read /\ UNCHANGED <<log, statusCheck, timedCheck>>
    BY <1>8 DEF Watch
  <2> QED
    BY <1>8, <2>1, ReadInv DEF Watch, Inv, TypeOK
<1>9. CASE Wake
  <2>1. UNCHANGED <<log, statusCheck, timedCheck>> /\ pc' = "polling" /\ UNCHANGED late /\ iteration' \in 1 .. 6
    BY <1>9 DEF Wake, Inv, TypeOK
  <2>2. Read \/ UNCHANGED reading
    BY <1>9 DEF Wake
  <2>3. CASE Read
    BY <2>1, <2>3, ReadInv DEF Inv, TypeOK
  <2>4. CASE UNCHANGED reading
    BY <1>2, <2>1, <2>4 DEF Inv, TypeOK
  <2> QED
    BY <2>2, <2>3, <2>4
<1>10. CASE Poll
  <2>1. /\ UNCHANGED <<log, statusCheck, timedCheck, late, iteration>>
        /\ pc' \in {"failed", "sleeping"}
    BY <1>10 DEF Poll
  <2>2. Read \/ UNCHANGED reading
    BY <1>10 DEF Poll
  <2>3. CASE Read
    BY <2>1, <2>3, ReadInv DEF Inv, TypeOK
  <2>4. CASE UNCHANGED reading
    BY <1>2, <2>1, <2>4 DEF Inv, TypeOK
  <2> QED
    BY <2>2, <2>3, <2>4
<1>11. CASE Settle
  BY <1>2, <1>11 DEF Settle, Inv, TypeOK
<1>12. CASE CheckSucceeds
  BY <1>2, <1>12 DEF CheckSucceeds, Inv, TypeOK
<1>13. CASE CheckTimesOut
  BY <1>2, <1>13 DEF CheckTimesOut, Inv, TypeOK
<1>14. CASE TimePasses
  BY <1>2, <1>14 DEF TimePasses, Inv, TypeOK
<1> QED
  BY <1>3, <1>4, <1>5, <1>6, <1>7, <1>8, <1>9, <1>10, <1>11, <1>12, <1>13, <1>14 DEF Next, Deployer

LEMMA Invariance == Spec => []Inv
BY InitInv, NextInv, PTL DEF Spec

-----------------------------------------------------------------------------

\* Every variable of a deployment keeps its type, for outputs of any length.
THEOREM DeploymentTypeCorrect == Spec => []TypeOK
<1>1. Inv => TypeOK
  BY DEF Inv
<1> QED
  BY <1>1, Invariance, PTL

\* The place in front of which the outcome was found is that of the first marker.
LEMMA FirstMarkerFound ==
    ASSUME Inv, outcome # Unknown
    PROVE  linesRead + 1 \in 1 .. Readable /\ FirstMarker(linesRead + 1) /\ linesRead \in Nat
BY OutputIsSeq DEF Inv, TypeOK, LogInv, OutcomeInv, FirstMarker, Readable

\* Whichever reads of the polling loop and of the watcher delivered the log, and
\* whatever the script writes after it: the first marker decides.
THEOREM OutcomeIsOfScript == Spec => []OutcomeOfScript
<1>1. Inv => OutcomeOfScript
  <2> SUFFICES ASSUME Inv, outcome # Unknown
               PROVE  \E i \in 1 .. Readable : FirstMarker(i) /\ outcome = (output[i] = "done")
    BY DEF OutcomeOfScript
  <2>1. outcome = (output[linesRead + 1] = "done")
    BY DEF Inv, OutcomeInv
  <2> QED
    BY <2>1, FirstMarkerFound
<1> QED
  BY <1>1, Invariance, PTL

\* What the log holds before the first marker has been passed on in full, lines
\* that a read saw unfinished included.
THEOREM OutputIsComplete == Spec => []OutputComplete
<1>1. Inv => OutputComplete
  <2> SUFFICES ASSUME Inv, outcome # Unknown
               PROVE  \E i \in 1 .. Readable : FirstMarker(i) /\ delivered = 1 .. i - 1
    BY DEF OutputComplete
  <2>1. delivered = 1 .. linesRead
    <3>1. linesRead + 1 \notin delivered /\ linesRead \in Nat
      BY FirstMarkerFound DEF Inv, DeliveryInv, OutcomeInv
    <3>2. \A i \in delivered : i \in 1 .. linesRead
      BY <3>1 DEF Inv, DeliveryInv
    <3> QED
      BY <3>2 DEF Inv, DeliveryInv
  <2>2. delivered = 1 .. (linesRead + 1) - 1
    BY <2>1, FirstMarkerFound
  <2> QED
    BY <2>2, FirstMarkerFound
<1> QED
  BY <1>1, Invariance, PTL

\* exec gives a script up for its time only if no marker is in the log.
THEOREM NoMarkerIsMissed == Spec => NoMarkerMissed
<1>1. Inv /\ [Next]_vars => [pc = "polling" /\ outcome = Unknown /\ pc' = "failed" => MarkersFrom(0) = {}]_vars
  <2> SUFFICES ASSUME Inv, Next, pc = "polling", outcome = Unknown, pc' = "failed"
               PROVE  MarkersFrom(0) = {}
    BY DEF vars
  <2>1. Poll
    BY DEF Next, Deployer, Launch, WaitForFile, Wake, Settle, CheckTimesOut, CheckSucceeds, Watch,
           CreateFile, Write, TimePasses, log
  <2>2. Read /\ outcome' = Unknown
    BY <2>1 DEF Poll
  <2>3. MarkersFrom(linesRead) = {}
    BY <2>2, ApplicationDeploymentAssumption DEF Read
  <2> QED
    BY <2>3, OutputIsSeq DEF MarkersFrom, Inv, TypeOK, LogInv, Readable
<1> QED
  BY <1>1, Invariance, PTL DEF Spec, NoMarkerMissed
=============================================================================
