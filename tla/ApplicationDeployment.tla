----------------------- MODULE ApplicationDeployment -----------------------
(***************************************************************************)
(* How one application is deployed: deployApplication                      *)
(* (k8s-deployer/src/deployer.ts) runs the deployment script through exec  *)
(* (k8s-deployer/src/shell-facade.ts), which follows the log file the      *)
(* script writes until it finds a status marker in it, and then repeats    *)
(* the status check.                                                       *)
(*                                                                         *)
(* The script, the deployer's polling loop and its file watcher run        *)
(* concurrently; a read of the log sees whatever is in the file, down to a *)
(* line whose end is not written yet.  Time is the flag `late': the        *)
(* timeout of what is being waited for may pass between any two steps.     *)
(***************************************************************************)
EXTENDS Naturals, Sequences

CONSTANTS Outputs,       \* what scripts write: sequences of "text", "done", "error"
          Unknown,       \* the null of stoppedWithStatusDone
          TimedChecks    \* does a statusCheck have timeoutSeconds?  A subset of BOOLEAN

ASSUME ApplicationDeploymentAssumption ==
    /\ \A o \in Outputs : o \in Seq({"text", "done", "error"})
    /\ Unknown \notin BOOLEAN /\ TimedChecks \subseteq BOOLEAN

VARIABLES
    output,      \* the lines the script is going to write
    file,        \* the log file exists
    written,     \* complete lines in the file
    tail,        \* of the next line: "none", "part", or "whole" but for its end
    pc,          \* what deployApplication is doing
    late,        \* the timeout of it has passed
    iteration,   \* of the polling loop
    linesRead,   \* index of the line where the next read begins
    outcome,     \* stoppedWithStatusDone
    delivered,   \* lines that the tail target got in full
    statusCheck, \* is there one?
    timedCheck   \* has it timeoutSeconds?

log == <<output, file, written, tail>>
reading == <<linesRead, outcome, delivered>>
vars == <<log, pc, late, iteration, reading, statusCheck, timedCheck>>

TypeOK ==
    /\ output \in Outputs /\ file \in BOOLEAN
    /\ written \in 0 .. Len(output) /\ tail \in {"none", "part", "whole"}
    /\ pc \in {"start", "waitForFile", "polling", "sleeping", "checking", "ready", "failed"}
    /\ late \in BOOLEAN /\ iteration \in 1 .. 6
    /\ linesRead \in 0 .. Len(output) /\ outcome \in BOOLEAN \cup {Unknown}
    /\ delivered \subseteq 1 .. Len(output)
    /\ statusCheck \in BOOLEAN /\ timedCheck \in BOOLEAN

Init ==
    /\ output \in Outputs /\ file = FALSE /\ written = 0 /\ tail = "none"
    /\ pc = "start" /\ late = FALSE /\ iteration = 1
    /\ linesRead = 0 /\ outcome = Unknown /\ delivered = {}
    /\ statusCheck \in BOOLEAN /\ timedCheck \in TimedChecks

-----------------------------------------------------------------------------
(* The script; it may stop at any point *)

CreateFile ==
    /\ pc # "start" /\ ~file
    /\ file' = TRUE
    /\ UNCHANGED <<output, written, tail, pc, late, iteration, reading, statusCheck, timedCheck>>

Write ==
    /\ file /\ written < Len(output)
    /\ \/ tail = "none" /\ tail' = "part" /\ UNCHANGED written
       \/ tail \in {"none", "part"} /\ tail' = "whole" /\ UNCHANGED written
       \/ tail' = "none" /\ written' = written + 1
    /\ UNCHANGED <<output, file, pc, late, iteration, reading, statusCheck, timedCheck>>

-----------------------------------------------------------------------------
(* tailLogFile *)

\* Lines that are readable to their last character.
Readable == IF tail = "whole" THEN written + 1 ELSE written

Marker(i) == output[i] \in {"done", "error"}
MarkersFrom(n) == {i \in n + 1 .. Readable : Marker(i)}
FirstFrom(n, i) == i \in MarkersFrom(n) /\ \A j \in MarkersFrom(n) : i <= j

\* Mutants: the next read begins behind the line read last; a read does not
\* stop at a marker.
ReadOnce ==
    IF MarkersFrom(linesRead) = {}
    THEN /\ linesRead' = written + 1
         /\ delivered' = delivered \cup (linesRead + 1 .. Readable)
         /\ UNCHANGED outcome
    ELSE \E i \in MarkersFrom(linesRead) :
         /\ FirstFrom(linesRead, i) /\ linesRead' = i - 1
         /\ delivered' = delivered \cup (linesRead + 1 .. i - 1)
         /\ outcome' = (output[i] = "done")
ReadToTheEnd ==
    IF MarkersFrom(linesRead) = {}
    THEN /\ linesRead' = written
         /\ delivered' = delivered \cup (linesRead + 1 .. Readable)
         /\ UNCHANGED outcome
    ELSE \E i \in MarkersFrom(linesRead) :
         /\ (\A j \in MarkersFrom(linesRead) : j <= i) /\ linesRead' = i - 1
         /\ delivered' = delivered \cup (linesRead + 1 .. i - 1)
         /\ outcome' = (output[i] = "done")

\* A read goes to the first marker or to the last line of the file.  The last
\* line, which may be empty or unfinished, is where the next read begins.
Read ==
    IF MarkersFrom(linesRead) = {}
    THEN /\ linesRead' = written
         /\ delivered' = delivered \cup (linesRead + 1 .. Readable)
         /\ UNCHANGED outcome
    ELSE \E i \in MarkersFrom(linesRead) :
         /\ FirstFrom(linesRead, i) /\ linesRead' = i - 1
         /\ delivered' = delivered \cup (linesRead + 1 .. i - 1)
         /\ outcome' = (output[i] = "done")

-----------------------------------------------------------------------------
(* exec *)

\* isExecutable fails, or the script is started.
Launch ==
    /\ pc = "start"
    /\ pc' \in {"waitForFile", "failed"}
    /\ UNCHANGED <<log, late, iteration, reading, statusCheck, timedCheck>>

\* waitForFile tries to open the file before it looks at the time.
WaitForFile ==
    /\ pc = "waitForFile"
    /\ \/ file /\ pc' = "polling" /\ late' = FALSE
       \/ ~file /\ late /\ pc' = "failed" /\ UNCHANGED late
    /\ UNCHANGED <<log, iteration, reading, statusCheck, timedCheck>>

\* The watcher reports changes of the file while the polling loop sleeps; it
\* may miss some and report others twice.
Watch ==
    /\ pc = "sleeping" /\ Read
    /\ UNCHANGED <<log, pc, late, iteration, statusCheck, timedCheck>>

\* monitorProgress reads in iteration 1 and in the multiples of 3: iterations
\* beyond 6 count as 4, 5 and 6 again.
Wake ==
    /\ pc = "sleeping"
    /\ IF iteration = 1 \/ iteration % 3 = 0 THEN Read ELSE UNCHANGED reading
    /\ iteration' = IF iteration = 6 THEN 4 ELSE iteration + 1
    /\ pc' = "polling"
    /\ UNCHANGED <<log, late, statusCheck, timedCheck>>

\* Mutants: no last read when time is up; the time is not looked at.
PollWithoutLastRead ==
    /\ pc = "polling" /\ outcome = Unknown
    /\ pc' = IF late THEN "failed" ELSE "sleeping"
    /\ UNCHANGED <<log, late, iteration, reading, statusCheck, timedCheck>>
PollForEver ==
    /\ pc = "polling" /\ outcome = Unknown
    /\ pc' = "sleeping"
    /\ UNCHANGED <<log, late, iteration, reading, statusCheck, timedCheck>>

\* The loop goes on while no marker has been found; when time is up it reads
\* once more before it gives up.
Poll ==
    /\ pc = "polling" /\ outcome = Unknown
    /\ IF late
       THEN Read /\ pc' = IF outcome' = Unknown THEN "failed" ELSE "sleeping"
       ELSE UNCHANGED reading /\ pc' = "sleeping"
    /\ UNCHANGED <<log, late, iteration, statusCheck, timedCheck>>

\* exec ends: the marker was an error, or moving the log file fails, or the
\* status check is next, if there is one and it is executable.
Settle ==
    /\ pc = "polling" /\ outcome # Unknown
    /\ \/ pc' = "failed"
       \/ outcome /\ pc' = IF statusCheck THEN "checking" ELSE "ready"
    /\ late' = FALSE
    /\ UNCHANGED <<log, iteration, reading, statusCheck, timedCheck>>

-----------------------------------------------------------------------------
(* The status check *)

\* After each pause deployApplication first looks at the time, then runs the
\* check.  A check that fails changes nothing: it is repeated.
CheckSucceeds ==
    /\ pc = "checking" /\ ~late
    /\ pc' = "ready"
    /\ UNCHANGED <<log, late, iteration, reading, statusCheck, timedCheck>>

CheckTimesOut ==
    /\ pc = "checking" /\ late
    /\ pc' = "failed"
    /\ UNCHANGED <<log, late, iteration, reading, statusCheck, timedCheck>>

\* Without timeoutSeconds a check has no timeout: the elapsed time is compared
\* with NaN.
TimePasses ==
    /\ ~late
    /\ \/ pc \in {"waitForFile", "polling", "sleeping"}
       \/ pc = "checking" /\ timedCheck
    /\ late' = TRUE
    /\ UNCHANGED <<log, pc, iteration, reading, statusCheck, timedCheck>>

-----------------------------------------------------------------------------

Deployer == Launch \/ WaitForFile \/ Wake \/ Poll \/ Settle \/ CheckTimesOut

Next == Deployer \/ CheckSucceeds \/ Watch \/ CreateFile \/ Write \/ TimePasses

Spec == Init /\ [][Next]_vars

\* Timers of the deployer fire and time passes; the script may stop, its checks
\* may fail for ever, and the watcher may say nothing.
FairSpec == Spec /\ WF_vars(Deployer) /\ WF_vars(TimePasses)

-----------------------------------------------------------------------------
(* Properties *)

FirstMarker(i) == Marker(i) /\ \A j \in 1 .. i - 1 : ~Marker(j)

\* The outcome is that of the first marker the script has written, whoever read
\* the log, in whichever pieces, and whatever was written after it.
OutcomeOfScript ==
    outcome # Unknown =>
        \E i \in 1 .. Readable : FirstMarker(i) /\ outcome = (output[i] = "done")

\* When the outcome is known, every line before it has reached the tail target
\* in full, even if a read first saw only a part of it.
OutputComplete ==
    outcome # Unknown =>
        \E i \in 1 .. Readable : FirstMarker(i) /\ delivered = 1 .. i - 1

\* A script that has finished is not given up: when the timeout passes between
\* two reads, a marker that is already in the file still counts.
NoMarkerMissed ==
    [][pc = "polling" /\ outcome = Unknown /\ pc' = "failed" => MarkersFrom(0) = {}]_vars

\* A deployment comes to an end, whatever the script does and however often the
\* check fails; only a check without timeoutSeconds, for which a default of 60
\* is documented, may be repeated for ever.
DeploymentEnds == <>(pc \in {"ready", "failed"} \/ (pc = "checking" /\ ~timedCheck))
=============================================================================
