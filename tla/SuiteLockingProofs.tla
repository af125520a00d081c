------------------------ MODULE SuiteLockingProofs -------------------------
(***************************************************************************)
(* Proofs about SuiteLocking, for every number of suites and locks, every  *)
(* lease length, interval and retry count, and every pattern of faults.    *)
(***************************************************************************)
EXTENDS SuiteLocking, WellFoundedInduction, TLAPS

-----------------------------------------------------------------------------
(* The statements of the service preserve the type of the table. *)

LEMMA GrantType ==
    ASSUME StorageTypeOK, NEW o \in Owner, NEW l \in LockId, NEW age \in Age, GrantRow(o, l, age)
    PROVE  StorageTypeOK' /\ Expiry - age \in Ttl
BY LockStorageAssumption DEF StorageTypeOK, GrantRow, Ttl, Oldest, Age

LEMMA RenewType ==
    ASSUME StorageTypeOK, NEW o \in Owner, NEW ids, NEW age \in Age, RenewRows(o, ids, age)
    PROVE  StorageTypeOK'
BY LockStorageAssumption DEF StorageTypeOK, RenewRows, Ttl, Oldest, Age

LEMMA DeleteType ==
    ASSUME StorageTypeOK, NEW o \in Owner, NEW ids, DeleteRows(o, ids)
    PROVE  StorageTypeOK'
BY LockStorageAssumption DEF StorageTypeOK, DeleteRows, Ttl, Oldest

LEMMA AgeType ==
    ASSUME StorageTypeOK, AgeRows
    PROVE  StorageTypeOK'
BY LockStorageAssumption DEF StorageTypeOK, AgeRows, Ttl, Oldest

-----------------------------------------------------------------------------
(* What a call in progress changes stays in its type. *)

LEMMA ZeroTtl == 0 \in Ttl
BY LockStorageAssumption DEF Ttl, Oldest

LEMMA IdleType == Idle \in Call
BY LockStorageAssumption, SuiteLockingAssumption DEF Idle, Call, CallState, Ttl, Oldest

LEMMA AttemptType ==
    ASSUME CallTypeOK, NetTypeOK, NEW o \in Owner, NEW t \in Thread,
           NEW op \in {"acquire", "keepAlive", "release"}, NEW ids \in SUBSET LockId,
           NEW n \in 0 .. Retries, Attempt(o, t, op, ids, n)
    PROVE  CallTypeOK' /\ NetTypeOK'
<1>1. [op |-> op, ids |-> ids, attempt |-> n, at |-> "await", life |-> 0] \in Call
  BY LockStorageAssumption DEF Call, CallState, Ttl, Oldest
<1>2. [owner |-> o, thread |-> t, op |-> op, ids |-> ids, age |-> 0, live |-> TRUE] \in Request
  BY LockStorageAssumption DEF Request, Age
<1>. QED  BY <1>1, <1>2 DEF CallTypeOK, NetTypeOK, Attempt

LEMMA ReturnType ==
    ASSUME CallTypeOK, NetTypeOK, NEW o \in Owner, NEW t \in Thread, Return(o, t)
    PROVE  CallTypeOK' /\ NetTypeOK'
BY IdleType DEF CallTypeOK, NetTypeOK, Return

LEMMA UpdateType ==
    ASSUME CallTypeOK, NEW o \in Owner, NEW t \in Thread, NEW life \in Ttl,
           NEW how \in {"ok", "refused", "error"}, call[o][t].op # "none"
    PROVE  /\ [call[o][t] EXCEPT !.at = how] \in Call
           /\ [call[o][t] EXCEPT !.at = how, !.life = life] \in Call
<1>. DEFINE c == call[o][t]
<1>1. c \in Call /\ c.op # "none"  BY DEF CallTypeOK
<1>. HIDE DEF c
<1>2. [c EXCEPT !.at = how] \in Call  BY <1>1 DEF Call, CallState
<1>3. [c EXCEPT !.at = how, !.life = life] \in Call  BY <1>1 DEF Call, CallState
<1>. QED  BY <1>2, <1>3 DEF c

LEMMA AnswerType ==
    ASSUME CallTypeOK, NetTypeOK, LiveRequests, NEW m \in net, NEW life \in Ttl,
           NEW how \in {"ok", "refused", "error"}, Answer(m, how, life)
    PROVE  CallTypeOK' /\ NetTypeOK'
<1>1. m.owner \in Owner /\ m.thread \in Thread /\ m.op # "none"
  BY DEF NetTypeOK, Request
<1>2. NetTypeOK'
  BY DEF NetTypeOK, Answer
<1>3. m.live => [call[m.owner][m.thread] EXCEPT !.at = how, !.life = life] \in Call
  BY <1>1, UpdateType DEF LiveRequests
<1>. QED  BY <1>1, <1>2, <1>3 DEF Answer, CallTypeOK

-----------------------------------------------------------------------------
(* A thread has at most one live request. *)

LEMMA AttemptLive ==
    ASSUME CallTypeOK, NetTypeOK, LiveRequests, NEW o \in Owner, NEW t \in Thread,
           NEW op, NEW ids, NEW n, Attempt(o, t, op, ids, n), call[o][t].at # "await"
    PROVE  LiveRequests'
<1>. DEFINE new == [owner |-> o, thread |-> t, op |-> op, ids |-> ids, age |-> 0, live |-> TRUE]
<1>1. \A m \in net : m.live => ~(m.owner = o /\ m.thread = t)
  BY DEF LiveRequests
<1>2. \A p \in Owner, u \in Thread : ~(p = o /\ u = t) => call'[p][u] = call[p][u]
  BY DEF Attempt, CallTypeOK
<1>3. /\ call'[o][t].at = "await" /\ call'[o][t].op = op /\ call'[o][t].ids = ids
  BY DEF Attempt, CallTypeOK
<1>4. net' = net \cup {new}
  BY DEF Attempt
<1>5. \A m \in net : m.owner \in Owner /\ m.thread \in Thread
  BY DEF NetTypeOK, Request
<1>6. new.owner = o /\ new.thread = t /\ new.op = op /\ new.ids = ids /\ new.live
  OBVIOUS
<1>. HIDE DEF new
<1>. SUFFICES ASSUME NEW m \in net', m.live
             PROVE  /\ call'[m.owner][m.thread].at = "await"
                    /\ call'[m.owner][m.thread].op = m.op
                    /\ call'[m.owner][m.thread].ids = m.ids
                    /\ \A n1 \in net' : n1.live /\ n1.owner = m.owner
                                            /\ n1.thread = m.thread => n1 = m
  BY DEF LiveRequests
<1>7. CASE m = new
  BY <1>1, <1>3, <1>4, <1>6, <1>7
<1>8. CASE m \in net
  BY <1>1, <1>2, <1>4, <1>5, <1>6, <1>8 DEF LiveRequests
<1>. QED  BY <1>4, <1>7, <1>8

LEMMA ReturnLive ==
    ASSUME CallTypeOK, NetTypeOK, LiveRequests, NEW o \in Owner, NEW t \in Thread,
           Return(o, t), call[o][t].at # "await"
    PROVE  LiveRequests'
BY DEF CallTypeOK, NetTypeOK, LiveRequests, Return, Request

LEMMA AnswerLive ==
    ASSUME CallTypeOK, NetTypeOK, LiveRequests, NEW m \in net, NEW how, NEW life,
           Answer(m, how, life)
    PROVE  LiveRequests'
BY DEF CallTypeOK, NetTypeOK, LiveRequests, Answer, Request

-----------------------------------------------------------------------------
(* The first of the remaining ids. *)

LEMMA NatMin ==
    ASSUME NEW T \in SUBSET Nat, T # {}
    PROVE  \E x \in T : \A y \in T : x <= y
<1>1. \E x \in T : \A y \in T : ~ (<<y, x>> \in OpToRel(<, Nat))
  <2>. DEFINE R == OpToRel(<, Nat)
  <2>1. IsWellFoundedOn(R, Nat)  BY NatLessThanWellFounded
  <2>. HIDE DEF R
  <2>2. \E x \in T : \A y \in T : ~ (<<y, x>> \in R)
    BY <2>1, WFMin
  <2>. QED  BY <2>2 DEF R
<1>2. ASSUME NEW x \in T, NEW y \in T, ~ (<<y, x>> \in OpToRel(<, Nat)) PROVE x <= y
  BY <1>2 DEF OpToRel
<1>. QED  BY <1>1, <1>2

LEMMA FirstIsMin ==
    ASSUME NEW S \in SUBSET LockId, S # {}
    PROVE  First(S) \in S /\ \A m \in S : First(S) <= m
<1>1. S \subseteq Nat  BY LockStorageAssumption DEF LockId
<1>. QED  BY <1>1, NatMin DEF First

-----------------------------------------------------------------------------
(* The inductive invariant.  TypeOK is not inductive by itself: NextId is  *)
(* a lock id only while lock() still has one to ask for.                   *)

IInv == TypeOK /\ LocksInOrder /\ LiveRequests

\* The ids of every suite, and the next of those it does not have.
LEMMA NextIdIsLeast ==
    ASSUME NEW o \in Owner, NEW got \in SUBSET Wants[o], got # Wants[o]
    PROVE  /\ NextId(o, got) \in Wants[o] \ got
           /\ NextId(o, got) \in LockId
           /\ \A m \in Wants[o] \ got : NextId(o, got) <= m
<1>1. Wants[o] \in SUBSET LockId  BY SuiteLockingAssumption
<1>2. Wants[o] \ got \in SUBSET LockId /\ Wants[o] \ got # {}  BY <1>1
<1>. QED  BY <1>1, <1>2, FirstIsMin DEF NextId

LEMMA MainIsThread == Main \in Thread /\ Main \notin Beats
BY SuiteLockingAssumption DEF Main, Thread

\* Steps that leave what lock() asks for as it is keep the order.
LEMMA OrderFrame ==
    ASSUME LocksInOrder, UNCHANGED <<main, acquired>>,
           \A o \in Owner : main[o] \in {"idle", "locking", "running"} =>
               /\ call'[o][Main].op = call[o][Main].op
               /\ call'[o][Main].ids = call[o][Main].ids
    PROVE  LocksInOrder'
BY DEF LocksInOrder

LEMMA ClearJobType ==
    ASSUME ClientTypeOK, NEW o \in Owner, ClearJob(o)
    PROVE  /\ job' \in [Owner -> {"none", "on", "cleared"}]
           /\ period' \in [Owner -> Period] /\ timer' \in [Owner -> Period]
BY SuiteLockingAssumption DEF ClientTypeOK, ClearJob, Period

LEMMA InitStep == Init => IInv
<1>. SUFFICES ASSUME Init PROVE IInv  OBVIOUS
<1>1. StorageTypeOK
  BY LockStorageAssumption DEF Init, StorageInit, StorageTypeOK, Ttl, Oldest
<1>2. ClientTypeOK
  BY SuiteLockingAssumption DEF Init, ClientTypeOK, Period
<1>3. CallTypeOK /\ NetTypeOK /\ faults \in 0 .. MaxFaults
  BY IdleType, SuiteLockingAssumption DEF Init, CallTypeOK, NetTypeOK
<1>4. LocksInOrder /\ LiveRequests
  BY MainIsThread DEF Init, LocksInOrder, LiveRequests, Idle
<1>. QED  BY <1>1, <1>2, <1>3, <1>4 DEF IInv, TypeOK

-----------------------------------------------------------------------------
(* HttpClient.invoke *)

LEMMA BackoffStep ==
    ASSUME IInv, NEW o \in Owner, NEW t \in Thread, Backoff(o, t)
    PROVE  IInv'
<1>. USE DEF IInv, TypeOK
<1>. DEFINE c == call[o][t]
<1>1. c \in Call /\ c.attempt < Retries /\ c.op # "none"
  BY DEF Backoff, CallTypeOK, Call, CallState
<1>2. [c EXCEPT !.at = "sleep"] \in Call
  <2>. HIDE DEF c
  <2>. QED  BY <1>1 DEF Call, CallState
<1>3. CallTypeOK'
  BY <1>2 DEF Backoff, CallTypeOK
<1>4. \A p \in Owner : /\ call'[p][Main].op = call[p][Main].op
                       /\ call'[p][Main].ids = call[p][Main].ids
  BY MainIsThread DEF Backoff, CallTypeOK, Call, CallState
<1>5. LocksInOrder'
  BY <1>4, OrderFrame DEF Backoff, clientVars
<1>6. LiveRequests'
  BY DEF Backoff, LiveRequests, CallTypeOK, NetTypeOK, Request, Call, CallState
<1>. QED
  BY <1>3, <1>5, <1>6 DEF Backoff, storageVars, clientVars, StorageTypeOK, ClientTypeOK, NetTypeOK

\* An attempt of a thread that awaits nothing, which is not Main or asks for
\* what Main asks for already.
LEMMA AttemptKeeps ==
    ASSUME CallTypeOK, NetTypeOK, LiveRequests, LocksInOrder, UNCHANGED <<main, acquired>>,
           NEW o \in Owner, NEW t \in Thread,
           NEW op \in {"acquire", "keepAlive", "release"}, NEW ids \in SUBSET LockId,
           NEW n \in 0 .. Retries, Attempt(o, t, op, ids, n), call[o][t].at # "await",
           t # Main \/ (op = call[o][Main].op /\ ids = call[o][Main].ids)
    PROVE  CallTypeOK' /\ NetTypeOK' /\ LiveRequests' /\ LocksInOrder'
<1>1. \A p \in Owner : main[p] \in {"idle", "locking", "running"} =>
          /\ call'[p][Main].op = call[p][Main].op
          /\ call'[p][Main].ids = call[p][Main].ids
  BY MainIsThread DEF Attempt, CallTypeOK
<1>2. LocksInOrder'
  BY <1>1, OrderFrame
<1>. QED  BY <1>2, AttemptType, AttemptLive

LEMMA RetryStep ==
    ASSUME IInv, NEW o \in Owner, NEW t \in Thread, Retry(o, t)
    PROVE  IInv'
<1>. USE DEF IInv, TypeOK
<1>. DEFINE c == call[o][t]
<1>1. /\ c.op \in {"acquire", "keepAlive", "release"}
      /\ c.ids \in SUBSET LockId /\ c.attempt + 1 \in 0 .. Retries /\ c.at # "await"
  BY SuiteLockingAssumption DEF Retry, CallTypeOK, Call, CallState
<1>2. Attempt(o, t, c.op, c.ids, c.attempt + 1) /\ UNCHANGED <<main, acquired>>
  BY DEF Retry, clientVars
<1>3. t # Main \/ (c.op = call[o][Main].op /\ c.ids = call[o][Main].ids)
  OBVIOUS
<1>4. CallTypeOK' /\ NetTypeOK' /\ LiveRequests' /\ LocksInOrder'
  BY <1>1, <1>2, <1>3, AttemptKeeps
<1>. QED
  BY <1>4 DEF Retry, storageVars, clientVars, StorageTypeOK, ClientTypeOK

-----------------------------------------------------------------------------
(* lock() *)

LEMMA OneIsAttempt == 1 \in 0 .. Retries
BY SuiteLockingAssumption

LEMMA BeginStep ==
    ASSUME IInv, NEW o \in Owner, Begin(o)
    PROVE  IInv'
<1>. USE DEF IInv, TypeOK
<1>1. call[o][Main].at # "await" /\ acquired[o] = {}
  BY MainIsThread DEF Begin, LocksInOrder, CallTypeOK, Call
<1>2. NextId(o, {}) \in LockId /\ Wants[o] # {}
  <2>1. {} \in SUBSET Wants[o] /\ Wants[o] # {}  BY SuiteLockingAssumption
  <2>. QED  BY <2>1, NextIdIsLeast
<1>3. Attempt(o, Main, "acquire", {NextId(o, {})}, 1)
  BY DEF Begin, Invoke
<1>4. CallTypeOK' /\ NetTypeOK' /\ LiveRequests'
  BY <1>1, <1>2, <1>3, OneIsAttempt, MainIsThread, AttemptType, AttemptLive
<1>5. LocksInOrder'
  BY <1>1, <1>2, <1>3, MainIsThread DEF LocksInOrder, Begin, Attempt, CallTypeOK, ClientTypeOK
<1>. QED
  BY <1>4, <1>5 DEF Begin, storageVars, StorageTypeOK, ClientTypeOK

LEMMA RefusedStep ==
    ASSUME IInv, NEW o \in Owner, Refused(o)
    PROVE  IInv'
<1>. USE DEF IInv, TypeOK
<1>1. /\ call[o][Main].op = "acquire" /\ call[o][Main].ids \in SUBSET LockId
      /\ call[o][Main].at # "await"
  BY MainIsThread DEF Refused, LocksInOrder, CallTypeOK, Call, CallState
<1>2. /\ Attempt(o, Main, "acquire", call[o][Main].ids, 1)
      /\ UNCHANGED <<main, acquired>>
  BY DEF Refused, Invoke, clientVars
<1>3. CallTypeOK' /\ NetTypeOK' /\ LiveRequests' /\ LocksInOrder'
  BY <1>1, <1>2, OneIsAttempt, MainIsThread, AttemptKeeps
<1>. QED
  BY <1>3 DEF Refused, storageVars, clientVars, StorageTypeOK, ClientTypeOK

LEMMA HeartbeatFrequencyType ==
    ASSUME NEW life \in Int
    PROVE  HeartbeatFrequency(life) \in Period
BY SuiteLockingAssumption DEF HeartbeatFrequency, Period

LEMMA StartJobType ==
    ASSUME ClientTypeOK, NEW o \in Owner, NEW life \in Int, StartJob(o, life)
    PROVE  /\ job' \in [Owner -> {"none", "on", "cleared"}]
           /\ period' \in [Owner -> Period] /\ timer' \in [Owner -> Period]
BY HeartbeatFrequencyType DEF ClientTypeOK, StartJob

LEMMA GrantedStep ==
    ASSUME IInv, NEW o \in Owner, Granted(o)
    PROVE  IInv'
<1>. USE DEF IInv, TypeOK
<1>. DEFINE c == call[o][Main]
            got == acquired[o] \cup c.ids
<1>1. /\ main[o] = "locking" /\ c.at = "ok" /\ c.life \in Int
      /\ acquired[o] \subseteq Wants[o] /\ acquired[o] # Wants[o]
      /\ c.ids = {NextId(o, acquired[o])}
  BY MainIsThread DEF Granted, Succeeds, LocksInOrder, CallTypeOK, Call, CallState, Ttl
<1>2. /\ NextId(o, acquired[o]) \in Wants[o] \ acquired[o]
      /\ \A m \in Wants[o] \ acquired[o] : NextId(o, acquired[o]) <= m
  BY <1>1, NextIdIsLeast
<1>3. got \subseteq Wants[o] /\ Wants[o] \subseteq LockId
  BY <1>1, <1>2, SuiteLockingAssumption
<1>4. \A l \in got, m \in Wants[o] \ got : l < m
  <2>. SUFFICES ASSUME NEW l \in got, NEW m \in Wants[o] \ got PROVE l < m
    OBVIOUS
  <2>1. CASE l \in acquired[o]
    BY <2>1 DEF LocksInOrder
  <2>2. CASE l = NextId(o, acquired[o])
    <3>1. m \in Wants[o] \ acquired[o] /\ m # l /\ l \in Wants[o]
      BY <1>1, <1>2, <2>2
    <3>2. l \in Int /\ m \in Int
      BY <1>3, <3>1, LockStorageAssumption DEF LockId
    <3>3. l <= m
      BY <1>2, <2>2, <3>1
    <3>. QED  BY <3>1, <3>2, <3>3
  <2>. QED  BY <1>1, <2>1, <2>2
<1>5. acquired' = [acquired EXCEPT ![o] = got]
  BY DEF Granted
<1>. HIDE DEF got
<1>6. ClientTypeOK' /\ StorageTypeOK'
  <2>1. acquired' \in [Owner -> SUBSET LockId]
    BY <1>3, <1>5 DEF ClientTypeOK
  <2>2. main' \in [Owner -> {"idle", "locking", "aborting", "running", "releasing",
                             "done", "failed", "dead", "crashed"}]
    BY DEF Granted, ClientTypeOK
  <2>3. StartJob(o, c.life)
    BY DEF Granted
  <2>. QED  BY <1>1, <2>1, <2>2, <2>3, StartJobType
            DEF Granted, ClientTypeOK, StorageTypeOK, storageVars
<1>7. CASE got = Wants[o]
  <2>1. main' = [main EXCEPT ![o] = "running"] /\ Return(o, Main)
    BY <1>7 DEF Granted, got
  <2>2. CallTypeOK' /\ NetTypeOK' /\ LiveRequests'
    BY <1>1, <2>1, MainIsThread, ReturnType, ReturnLive
  <2>3. LocksInOrder'
    BY <1>3, <1>4, <1>5, <2>1, MainIsThread
       DEF LocksInOrder, Return, CallTypeOK, ClientTypeOK, Idle
  <2>. QED  BY <1>6, <2>2, <2>3 DEF Granted
<1>8. CASE got # Wants[o]
  <2>1. UNCHANGED main /\ Attempt(o, Main, "acquire", {NextId(o, got)}, 1)
    BY <1>8 DEF Granted, got, Invoke
  <2>2. NextId(o, got) \in LockId
    BY <1>3, <1>8, NextIdIsLeast
  <2>3. CallTypeOK' /\ NetTypeOK' /\ LiveRequests'
    BY <1>1, <2>1, <2>2, OneIsAttempt, MainIsThread, AttemptType, AttemptLive
  <2>4. LocksInOrder'
    BY <1>1, <1>3, <1>4, <1>5, <1>8, <2>1, MainIsThread
       DEF LocksInOrder, Attempt, CallTypeOK, ClientTypeOK
  <2>. QED  BY <1>6, <2>3, <2>4 DEF Granted
<1>. QED  BY <1>7, <1>8

-----------------------------------------------------------------------------
(* release(), from lock() and from runSuite *)

\* Main leaves lock() or the test for a call of another kind, or for none.
LEMMA LeaveOrder ==
    ASSUME ClientTypeOK, CallTypeOK, LocksInOrder, NEW o \in Owner, UNCHANGED acquired,
           NEW to \in {"aborting", "releasing", "done", "failed"},
           main' = [main EXCEPT ![o] = to], main[o] # "idle",
           \A p \in Owner : p # o => call'[p] = call[p]
    PROVE  LocksInOrder'
BY DEF LocksInOrder, ClientTypeOK

LEMMA AcquireFailsStep ==
    ASSUME IInv, NEW o \in Owner, AcquireFails(o)
    PROVE  IInv'
<1>. USE DEF IInv, TypeOK
<1>1. /\ main[o] = "locking" /\ call[o][Main].at # "await" /\ acquired[o] \in SUBSET LockId
      /\ UNCHANGED <<storageVars, acquired, faults>>
  BY DEF AcquireFails, Fails, ClientTypeOK
<1>2. CASE acquired[o] = {}
  <2>1. /\ main' = [main EXCEPT ![o] = "failed"] /\ Return(o, Main)
        /\ UNCHANGED <<job, period, timer>>
    BY <1>2 DEF AcquireFails
  <2>2. CallTypeOK' /\ NetTypeOK' /\ LiveRequests'
    BY <1>1, <2>1, MainIsThread, ReturnType, ReturnLive
  <2>3. LocksInOrder'
    BY <1>1, <2>1, LeaveOrder DEF Return, CallTypeOK
  <2>. QED  BY <1>1, <2>1, <2>2, <2>3 DEF ClientTypeOK, StorageTypeOK, storageVars
<1>3. CASE acquired[o] # {}
  <2>1. /\ main' = [main EXCEPT ![o] = "aborting"] /\ ClearJob(o)
        /\ Attempt(o, Main, "release", acquired[o], 1)
    BY <1>3 DEF AcquireFails, Invoke
  <2>2. CallTypeOK' /\ NetTypeOK' /\ LiveRequests'
    BY <1>1, <2>1, OneIsAttempt, MainIsThread, AttemptType, AttemptLive
  <2>3. LocksInOrder'
    BY <1>1, <2>1, LeaveOrder DEF Attempt, CallTypeOK
  <2>. QED  BY <1>1, <2>1, <2>2, <2>3, ClearJobType
            DEF ClientTypeOK, StorageTypeOK, storageVars
<1>. QED  BY <1>2, <1>3

LEMMA TestEndsStep ==
    ASSUME IInv, NEW o \in Owner, TestEnds(o)
    PROVE  IInv'
<1>. USE DEF IInv, TypeOK
<1>1. /\ main[o] = "running" /\ main' = [main EXCEPT ![o] = "releasing"] /\ ClearJob(o)
      /\ Attempt(o, Main, "release", Wants[o], 1) /\ UNCHANGED <<storageVars, acquired, faults>>
  BY DEF TestEnds, Invoke
<1>2. call[o][Main].at # "await"
  BY <1>1, MainIsThread DEF LocksInOrder, CallTypeOK, Call
<1>3. Wants[o] \in SUBSET LockId
  BY SuiteLockingAssumption
<1>4. CallTypeOK' /\ NetTypeOK' /\ LiveRequests'
  BY <1>1, <1>2, <1>3, OneIsAttempt, MainIsThread, AttemptType, AttemptLive
<1>5. LocksInOrder'
  BY <1>1, LeaveOrder DEF Attempt, CallTypeOK
<1>. QED  BY <1>1, <1>4, <1>5, ClearJobType DEF ClientTypeOK, StorageTypeOK, storageVars

LEMMA ReleaseReturnsStep ==
    ASSUME IInv, NEW o \in Owner, ReleaseReturns(o)
    PROVE  IInv'
<1>. USE DEF IInv, TypeOK
<1>1. PICK to \in {"done", "failed"} : main' = [main EXCEPT ![o] = to]
  BY DEF ReleaseReturns
<1>2. /\ main[o] # "idle" /\ Return(o, Main) /\ call[o][Main].at # "await"
      /\ UNCHANGED <<storageVars, acquired, job, period, timer, faults>>
  BY DEF ReleaseReturns, Succeeds, Fails
<1>3. CallTypeOK' /\ NetTypeOK' /\ LiveRequests'
  BY <1>2, MainIsThread, ReturnType, ReturnLive
<1>4. LocksInOrder'
  BY <1>1, <1>2, LeaveOrder DEF Return, CallTypeOK
<1>. QED  BY <1>1, <1>2, <1>3, <1>4 DEF ClientTypeOK, StorageTypeOK, storageVars

-----------------------------------------------------------------------------
(* The keep-alive job *)

LEMMA BeatIsThread ==
    ASSUME NEW t \in Beats
    PROVE  t \in Thread /\ t # Main
BY MainIsThread DEF Thread

LEMMA HeartbeatStep ==
    ASSUME IInv, NEW o \in Owner, NEW t \in Beats, Heartbeat(o, t)
    PROVE  IInv'
<1>. USE DEF IInv, TypeOK
<1>1. /\ call[o][t].at # "await" /\ UNCHANGED <<storageVars, main, acquired, faults>>
  BY DEF Heartbeat, Idle
<1>2. PICK op \in {"keepAlive", "release"} : Attempt(o, t, op, Wants[o], 1)
  BY DEF Heartbeat, Invoke
<1>3. Wants[o] \in SUBSET LockId
  BY SuiteLockingAssumption
<1>4. CallTypeOK' /\ NetTypeOK' /\ LiveRequests' /\ LocksInOrder'
  BY <1>1, <1>2, <1>3, OneIsAttempt, BeatIsThread, AttemptKeeps
<1>5. /\ job' \in [Owner -> {"none", "on", "cleared"}]
      /\ period' \in [Owner -> Period] /\ timer' \in [Owner -> Period]
  BY ClearJobType DEF Heartbeat, ClientTypeOK
<1>. QED  BY <1>1, <1>4, <1>5 DEF ClientTypeOK, StorageTypeOK, storageVars

LEMMA HeartbeatSkippedStep ==
    ASSUME IInv, NEW o \in Owner, HeartbeatSkipped(o)
    PROVE  IInv'
BY DEF IInv, TypeOK, HeartbeatSkipped, storageVars, StorageTypeOK, ClientTypeOK, CallTypeOK,
       NetTypeOK, LocksInOrder, LiveRequests

LEMMA HeartbeatReturnsStep ==
    ASSUME IInv, NEW o \in Owner, NEW t \in Beats, HeartbeatReturns(o, t)
    PROVE  IInv'
<1>. USE DEF IInv, TypeOK
<1>1. /\ call[o][t].at # "await" /\ Return(o, t)
      /\ UNCHANGED <<storageVars, clientVars, faults>>
  BY DEF HeartbeatReturns, Succeeds
<1>2. CallTypeOK' /\ NetTypeOK' /\ LiveRequests'
  BY <1>1, BeatIsThread, ReturnType, ReturnLive
<1>3. LocksInOrder'
  BY <1>1, BeatIsThread, OrderFrame DEF clientVars, Return, CallTypeOK
<1>. QED  BY <1>1, <1>2, <1>3 DEF clientVars, ClientTypeOK, StorageTypeOK, storageVars

LEMMA HeartbeatFailsStep ==
    ASSUME IInv, NEW o \in Owner, NEW t \in Beats, HeartbeatFails(o, t)
    PROVE  IInv'
<1>. USE DEF IInv, TypeOK
<1>1. /\ call[o][t].at # "await" /\ UNCHANGED <<storageVars, main, acquired, faults>>
      /\ ClearJob(o) /\ Attempt(o, t, "release", Wants[o], 1)
  BY DEF HeartbeatFails, Fails, Invoke
<1>2. Wants[o] \in SUBSET LockId
  BY SuiteLockingAssumption
<1>3. CallTypeOK' /\ NetTypeOK' /\ LiveRequests' /\ LocksInOrder'
  BY <1>1, <1>2, OneIsAttempt, BeatIsThread, AttemptKeeps
<1>. QED  BY <1>1, <1>3, ClearJobType DEF ClientTypeOK, StorageTypeOK, storageVars

LEMMA StopStep ==
    ASSUME IInv, NEW o \in Owner, NEW how \in {"dead", "crashed"}, Stop(o, how),
           UNCHANGED storageVars, faults' \in 0 .. MaxFaults
    PROVE  IInv'
<1>. USE DEF IInv, TypeOK
<1>1. ClientTypeOK'
  BY ClearJobType DEF Stop, ClientTypeOK
<1>2. CallTypeOK'
  BY IdleType DEF Stop, CallTypeOK
<1>3. /\ net' = {IF m.owner = o THEN [m EXCEPT !.live = FALSE] ELSE m : m \in net}
      /\ \A m \in net : [m EXCEPT !.live = FALSE] \in Request
  BY DEF Stop, NetTypeOK, Request
<1>4. NetTypeOK'
  BY <1>3 DEF NetTypeOK
<1>5. \A m \in net' : m.live => m \in net /\ m.owner # o
  BY <1>3 DEF NetTypeOK, Request
<1>6. \A p \in Owner : p # o => call'[p] = call[p]
  BY DEF Stop, CallTypeOK
<1>7. LiveRequests'
  BY <1>5, <1>6 DEF LiveRequests, NetTypeOK, Request
<1>8. LocksInOrder'
  BY <1>6 DEF LocksInOrder, Stop, ClientTypeOK
<1>. QED  BY <1>1, <1>2, <1>4, <1>7, <1>8 DEF StorageTypeOK, storageVars

-----------------------------------------------------------------------------
(* The service and the network *)

\* An answer changes neither what a thread asks for nor what is acquired.
LEMMA AnswerKeeps ==
    ASSUME CallTypeOK, NetTypeOK, LiveRequests, LocksInOrder, NEW m \in net, NEW life \in Ttl,
           NEW how \in {"ok", "refused", "error"}, Answer(m, how, life), UNCHANGED clientVars
    PROVE  CallTypeOK' /\ NetTypeOK' /\ LiveRequests' /\ LocksInOrder'
<1>1. m.owner \in Owner /\ m.thread \in Thread
  BY DEF NetTypeOK, Request
<1>2. call[m.owner][m.thread] \in Call
  BY <1>1 DEF CallTypeOK
<1>3. \A p \in Owner : /\ call'[p][Main].op = call[p][Main].op
                       /\ call'[p][Main].ids = call[p][Main].ids
  BY <1>1, <1>2, MainIsThread DEF Answer, CallTypeOK, Call, CallState
<1>4. LocksInOrder'
  BY <1>3, OrderFrame DEF clientVars
<1>. QED  BY <1>4, AnswerType, AnswerLive

LEMMA ServeStep ==
    ASSUME IInv, NEW m \in net, Serve(m)
    PROVE  IInv'
<1>. USE DEF IInv, TypeOK
<1>1. /\ m.owner \in Owner /\ m.ids \in SUBSET LockId
      /\ \A age \in 0 .. m.age : age \in Age
  BY LockStorageAssumption DEF NetTypeOK, Request, Age
<1>2. UNCHANGED <<clientVars, faults>> /\ Found(m) \in {"ok", "error"}
  BY DEF Serve, Found
<1>3. CASE ServeAcquire(m)
  <2>1. PICK age \in 0 .. m.age, l \in m.ids :
            \/ GrantRow(m.owner, l, age) /\ Answer(m, "ok", Expiry - age)
            \/ RefuseRow(l, age) /\ Answer(m, "refused", 0)
    BY <1>3 DEF ServeAcquire
  <2>2. CASE GrantRow(m.owner, l, age) /\ Answer(m, "ok", Expiry - age)
    <3>1. StorageTypeOK' /\ Expiry - age \in Ttl
      BY <1>1, <2>1, <2>2, GrantType
    <3>. QED  BY <1>2, <2>2, <3>1, AnswerKeeps DEF clientVars, ClientTypeOK
  <2>3. CASE RefuseRow(l, age) /\ Answer(m, "refused", 0)
    BY <1>2, <2>3, ZeroTtl, AnswerKeeps
       DEF clientVars, ClientTypeOK, RefuseRow, StorageTypeOK, storageVars
  <2>. QED  BY <2>1, <2>2, <2>3
<1>4. CASE ServeKeepAlive(m)
  <2>1. PICK age \in 0 .. m.age : RenewRows(m.owner, m.ids, age)
    BY <1>4 DEF ServeKeepAlive
  <2>2. StorageTypeOK'
    BY <1>1, <2>1, RenewType
  <2>. QED  BY <1>2, <1>4, <2>2, ZeroTtl, AnswerKeeps DEF ServeKeepAlive, clientVars, ClientTypeOK
<1>5. CASE ServeRelease(m)
  <2>1. StorageTypeOK'
    BY <1>1, <1>5, DeleteType DEF ServeRelease
  <2>. QED  BY <1>2, <1>5, <2>1, ZeroTtl, AnswerKeeps DEF ServeRelease, clientVars, ClientTypeOK
<1>. QED  BY <1>3, <1>4, <1>5 DEF Serve

LEMMA FaultCount ==
    ASSUME faults \in 0 .. MaxFaults, NEW kind, Fault(kind)
    PROVE  faults' \in 0 .. MaxFaults
BY SuiteLockingAssumption DEF Fault

LEMMA RequestLostStep ==
    ASSUME IInv, NEW m \in net, RequestLost(m)
    PROVE  IInv'
BY FaultCount, ZeroTtl, AnswerKeeps
   DEF IInv, TypeOK, RequestLost, storageVars, clientVars, StorageTypeOK, ClientTypeOK

LEMMA ReplyLostStep ==
    ASSUME IInv, NEW o \in Owner, NEW t \in Thread, ReplyLost(o, t)
    PROVE  IInv'
<1>. USE DEF IInv, TypeOK
<1>1. /\ call[o][t] \in Call /\ call[o][t].at \notin {"idle", "await"} /\ call[o][t].op # "none"
      /\ UNCHANGED <<storageVars, clientVars, net>> /\ faults' \in 0 .. MaxFaults
  BY FaultCount DEF ReplyLost, CallTypeOK, Call
<1>2. /\ call' = [call EXCEPT ![o][t] = [@ EXCEPT !.at = "error", !.life = 0]]
      /\ [call[o][t] EXCEPT !.at = "error", !.life = 0] \in Call
  BY <1>1, ZeroTtl, UpdateType DEF ReplyLost
<1>3. CallTypeOK'
  BY <1>2 DEF CallTypeOK
<1>4. LiveRequests'
  BY <1>1, <1>2 DEF LiveRequests, CallTypeOK, NetTypeOK, Request
<1>5. \A p \in Owner : /\ call'[p][Main].op = call[p][Main].op
                       /\ call'[p][Main].ids = call[p][Main].ids
  BY <1>1, <1>2, MainIsThread DEF CallTypeOK, Call, CallState
<1>6. LocksInOrder'
  BY <1>1, <1>5, OrderFrame DEF clientVars
<1>. QED  BY <1>1, <1>3, <1>4, <1>6
          DEF storageVars, clientVars, StorageTypeOK, ClientTypeOK, NetTypeOK

LEMMA AbandonedStep ==
    ASSUME IInv, NEW m \in net, Abandoned(m)
    PROVE  IInv'
<1>. USE DEF IInv, TypeOK
<1>. DEFINE orphan == [m EXCEPT !.live = FALSE]
<1>1. /\ m.owner \in Owner /\ m.thread \in Thread /\ m.op # "none" /\ m.live
      /\ orphan \in Request /\ ~orphan.live
  BY DEF Abandoned, NetTypeOK, Request
<1>2. /\ call[m.owner][m.thread] \in Call /\ call[m.owner][m.thread].op # "none"
      /\ \A n \in net : n.live /\ n.owner = m.owner /\ n.thread = m.thread => n = m
  BY <1>1 DEF LiveRequests, CallTypeOK
<1>3. /\ net' = (net \ {m}) \cup {orphan}
      /\ call' = [call EXCEPT ![m.owner][m.thread] = [@ EXCEPT !.at = "error"]]
      /\ UNCHANGED <<storageVars, clientVars>> /\ faults' \in 0 .. MaxFaults
  BY FaultCount DEF Abandoned
<1>4. [call[m.owner][m.thread] EXCEPT !.at = "error"] \in Call
  BY <1>1, <1>2, ZeroTtl, UpdateType
<1>. HIDE DEF orphan
<1>5. CallTypeOK' /\ NetTypeOK'
  BY <1>1, <1>3, <1>4 DEF CallTypeOK, NetTypeOK
<1>6. \A n \in net' : n.live => n \in net /\ ~(n.owner = m.owner /\ n.thread = m.thread)
  BY <1>1, <1>2, <1>3
<1>7. \A p \in Owner, t \in Thread :
          ~(p = m.owner /\ t = m.thread) => call'[p][t] = call[p][t]
  BY <1>1, <1>3 DEF CallTypeOK
<1>8. LiveRequests'
  BY <1>6, <1>7 DEF LiveRequests, NetTypeOK, Request
<1>9. \A p \in Owner : /\ call'[p][Main].op = call[p][Main].op
                       /\ call'[p][Main].ids = call[p][Main].ids
  BY <1>1, <1>2, <1>3, MainIsThread DEF CallTypeOK, Call, CallState
<1>10. LocksInOrder'
  BY <1>3, <1>9, OrderFrame DEF clientVars
<1>. QED  BY <1>3, <1>5, <1>8, <1>10 DEF storageVars, clientVars, StorageTypeOK, ClientTypeOK

LEMMA LaterType ==
    ASSUME NEW c \in Call
    PROVE  /\ Later(c) \in Call /\ Later(c).op = c.op /\ Later(c).ids = c.ids
           /\ (c.at = "await" => Later(c).at = "await")
<1>. DEFINE at == IF c.at = "sleep" THEN "wake" ELSE c.at
            life == IF c.life > 0 THEN c.life - 1 ELSE c.life
<1>1. c \in CallState /\ c.life \in Ttl
  BY DEF Call, CallState
<1>2. life \in Ttl
  BY <1>1, LockStorageAssumption DEF Ttl, Oldest
<1>3. /\ at \in {"idle", "await", "ok", "refused", "error", "sleep", "wake"}
      /\ at = c.at \/ (at = "wake" /\ c.at = "sleep")
  BY <1>1 DEF CallState
<1>4. Later(c) = [c EXCEPT !.at = at, !.life = life]
  BY <1>1 DEF Later, CallState
<1>. HIDE DEF at, life
<1>5. /\ Later(c) \in CallState /\ Later(c).at = at
      /\ Later(c).op = c.op /\ Later(c).ids = c.ids /\ Later(c).attempt = c.attempt
  BY <1>1, <1>2, <1>3, <1>4 DEF CallState
<1>. QED  BY <1>3, <1>5 DEF Call

LEMMA OlderType ==
    ASSUME NEW m \in Request
    PROVE  /\ Older(m) \in Request /\ Older(m).owner = m.owner /\ Older(m).live = m.live
           /\ Older(m).thread = m.thread /\ Older(m).op = m.op /\ Older(m).ids = m.ids
BY LockStorageAssumption DEF Request, Age, Older

LEMMA TickStep ==
    ASSUME IInv, Tick
    PROVE  IInv'
<1>. USE DEF IInv, TypeOK
<1>1. StorageTypeOK' /\ faults' \in 0 .. MaxFaults
  BY AgeType DEF Tick
<1>2. ClientTypeOK'
  <2>1. \A o \in Owner : (IF timer[o] > 0 THEN timer[o] - 1 ELSE 0) \in Period
    BY SuiteLockingAssumption DEF ClientTypeOK, Period
  <2>2. timer' \in [Owner -> Period]
    BY <2>1 DEF Tick
  <2>. QED  BY <2>2 DEF Tick, ClientTypeOK
<1>3. /\ call' = [o \in Owner |-> [t \in Thread |-> Later(call[o][t])]]
      /\ net' = {Older(m) : m \in net}
  BY DEF Tick
<1>4. CallTypeOK' /\ NetTypeOK'
  BY <1>3, LaterType, OlderType DEF CallTypeOK, NetTypeOK
<1>5. LiveRequests'
  <2>. SUFFICES ASSUME NEW m \in net', m.live
               PROVE  /\ call'[m.owner][m.thread].at = "await"
                      /\ call'[m.owner][m.thread].op = m.op
                      /\ call'[m.owner][m.thread].ids = m.ids
                      /\ \A n \in net' : n.live /\ n.owner = m.owner
                                          /\ n.thread = m.thread => n = m
    BY DEF LiveRequests
  <2>1. PICK m0 \in net : m = Older(m0)
    BY <1>3
  <2>2. m0 \in Request /\ m0.owner \in Owner /\ m0.thread \in Thread
    BY DEF NetTypeOK, Request
  <2>3. m0.live /\ m.owner = m0.owner /\ m.thread = m0.thread /\ m.op = m0.op /\ m.ids = m0.ids
    BY <2>1, <2>2, OlderType
  <2>4. /\ call[m0.owner][m0.thread] \in Call
        /\ call'[m0.owner][m0.thread] = Later(call[m0.owner][m0.thread])
    BY <1>3, <2>2 DEF CallTypeOK
  <2>5. ASSUME NEW n \in net', n.live, n.owner = m.owner, n.thread = m.thread
        PROVE  n = m
    <3>1. PICK n0 \in net : n = Older(n0)
      BY <1>3
    <3>2. n0.live /\ n0.owner = m0.owner /\ n0.thread = m0.thread
      BY <2>3, <2>5, <3>1, OlderType DEF NetTypeOK
    <3>. QED  BY <2>1, <2>3, <3>1, <3>2 DEF LiveRequests
  <2>. QED  BY <2>3, <2>4, <2>5, LaterType DEF LiveRequests
<1>6. \A p \in Owner : /\ call'[p][Main].op = call[p][Main].op
                       /\ call'[p][Main].ids = call[p][Main].ids
  BY <1>3, LaterType, MainIsThread DEF CallTypeOK
<1>7. LocksInOrder'
  BY <1>6, OrderFrame DEF Tick
<1>. QED  BY <1>1, <1>2, <1>4, <1>5, <1>7

-----------------------------------------------------------------------------
(* Every step preserves the invariant. *)

LEMMA ClientStep ==
    ASSUME IInv, NEW o \in Owner, Client(o)
    PROVE  IInv'
<1>1. ASSUME NEW t \in Beats, UnhandledRejection(o, t)
      PROVE  IInv'
  BY <1>1, StopStep DEF UnhandledRejection, IInv, TypeOK
<1>. QED
  BY <1>1, BeginStep, GrantedStep, RefusedStep, AcquireFailsStep, TestEndsStep,
     ReleaseReturnsStep, HeartbeatSkippedStep, BackoffStep, RetryStep, HeartbeatStep,
     HeartbeatReturnsStep, HeartbeatFailsStep
     DEF Client

LEMMA NextStep == IInv /\ [Next]_vars => IInv'
<1>. SUFFICES ASSUME IInv, [Next]_vars PROVE IInv'  OBVIOUS
<1>1. ASSUME NEW o \in Owner, Crash(o)
      PROVE  IInv'
  BY <1>1, FaultCount, StopStep DEF Crash, IInv, TypeOK
<1>2. CASE UNCHANGED vars
  BY <1>2 DEF vars, storageVars, clientVars, IInv, TypeOK, StorageTypeOK, ClientTypeOK,
              CallTypeOK, NetTypeOK, LocksInOrder, LiveRequests
<1>. QED
  BY <1>1, <1>2, TickStep, ServeStep, RequestLostStep, AbandonedStep, ReplyLostStep, ClientStep
     DEF Next, Service, Network

\* Every state of every run of the suites has the inductive invariant.
THEOREM Invariance == Spec => []IInv
BY InitStep, NextStep, PTL DEF Spec

\* Table, clients, calls in progress and requests keep their types.
THEOREM TypeCorrect == Spec => []TypeOK
<1>1. IInv => TypeOK  BY DEF IInv
<1>. QED  BY <1>1, Invariance, PTL
-----------------------------------------------------------------------------
(* What the other steps leave alone: only the service and the clock touch *)
(* the table.                                                              *)

LEMMA TableFrame ==
    ASSUME [Next]_vars
    PROVE  Service \/ AgeRows \/ UNCHANGED storageVars
BY DEF Next, Tick, Network, Client, Begin, Granted, Refused, AcquireFails, TestEnds,
       ReleaseReturns, HeartbeatSkipped, Backoff, Retry, Heartbeat, HeartbeatReturns,
       HeartbeatFails, UnhandledRejection, Crash, RequestLost, Abandoned, ReplyLost, vars

LEMMA ServiceCases ==
    ASSUME TypeOK, Service
    PROVE  \E m \in net : \E age \in Age :
              /\ m.owner \in Owner /\ m.ids \in SUBSET LockId
              /\ \/ \E l \in LockId : \/ GrantRow(m.owner, l, age)
                                      \/ UNCHANGED storageVars
                 \/ RenewRows(m.owner, m.ids, age)
                 \/ m.op = "release" /\ DeleteRows(m.owner, m.ids)
<1>1. PICK m \in net : Serve(m)
  BY DEF Service
<1>2. m \in Request
  BY DEF TypeOK, NetTypeOK
<1>3. m.owner \in Owner /\ m.ids \in SUBSET LockId /\ m.age \in Age
  BY <1>2 DEF Request
<1>4. \A age \in 0 .. m.age : age \in Age
  BY <1>3, LockStorageAssumption DEF Age
<1>5. 0 \in Age
  BY LockStorageAssumption DEF Age
<1>6. CASE ServeAcquire(m)
  <2>1. PICK age \in 0 .. m.age, l \in m.ids : GrantRow(m.owner, l, age) \/ RefuseRow(l, age)
    BY <1>6 DEF ServeAcquire
  <2>. QED  BY <1>3, <1>4, <2>1 DEF RefuseRow
<1>7. CASE ServeKeepAlive(m)
  BY <1>3, <1>4, <1>7 DEF ServeKeepAlive
<1>8. CASE ServeRelease(m)
  BY <1>3, <1>5, <1>8 DEF ServeRelease
<1>. QED  BY <1>1, <1>6, <1>7, <1>8 DEF Serve

-----------------------------------------------------------------------------
(* Suites never wait in a circle. *)

LEMMA SetMax ==
    ASSUME NEW S, S # {}, NEW f \in [S -> LockId]
    PROVE  \E o \in S : \A p \in S : f[p] <= f[o]
<1>. DEFINE T == {NumLocks - f[o] : o \in S}
<1>1. T \in SUBSET Nat /\ T # {}
  BY LockStorageAssumption DEF LockId
<1>2. PICK x \in T : \A y \in T : x <= y
  <2>. HIDE DEF T
  <2>. QED  BY <1>1, NatMin
<1>3. PICK o \in S : x = NumLocks - f[o]
  OBVIOUS
<1>4. \A p \in S : NumLocks - f[o] <= NumLocks - f[p]
  BY <1>2, <1>3
<1>. QED  BY <1>4, LockStorageAssumption DEF LockId

LEMMA OrderNoCycle == IInv => NoWaitCycle
<1>. SUFFICES ASSUME IInv, NEW S \in SUBSET Owner, S # {}
             PROVE  \E o \in S : \A p \in S : ~WaitsFor(o, p)
  BY DEF NoWaitCycle
<1>. DEFINE asked(o) == NextId(o, acquired[o])
<1>1. CASE \E o \in S : main[o] # "locking"
  BY <1>1 DEF WaitsFor
<1>2. CASE \A o \in S : main[o] = "locking"
  <2>1. \A o \in S : asked(o) \in Wants[o] \ acquired[o] /\ asked(o) \in LockId
    BY <1>2, NextIdIsLeast, SuiteLockingAssumption DEF IInv, LocksInOrder
  <2>2. PICK o \in S : \A p \in S : asked(p) <= asked(o)
    <3>. DEFINE f == [o \in S |-> asked(o)]
    <3>1. f \in [S -> LockId]
      BY <2>1
    <3>2. PICK o \in S : \A p \in S : f[p] <= f[o]
      <4>. HIDE DEF f
      <4>. QED  BY <3>1, SetMax
    <3>. QED  BY <3>2
  <2>3. ASSUME NEW p \in S, WaitsFor(o, p)  PROVE FALSE
    <3>1. asked(o) \in acquired[p]
      BY <1>2, <2>3 DEF WaitsFor, IInv, LocksInOrder
    <3>2. asked(o) < asked(p)
      BY <2>1, <3>1 DEF IInv, LocksInOrder
    <3>. QED  BY <2>1, <2>2, <3>2 DEF LockId
  <2>. QED  BY <2>3
<1>. QED  BY <1>1, <1>2

\* However many suites share however many locks, there is always one among
\* those that wait that waits for none of them: cleanupIds sorts the ids.
THEOREM NoCircularWait == Spec => []NoWaitCycle
BY OrderNoCycle, Invariance, PTL

-----------------------------------------------------------------------------
(* Leases are not stolen. *)

LEMMA TheftStep ==
    ASSUME TypeOK, [Next]_vars, NEW l \in LockId, holder[l] # NoOwner, holder'[l] # holder[l]
    PROVE  ttl[l] < 0 \/ \E m \in net : m.op = "release" /\ m.owner = holder[l]
<1>1. ~AgeRows /\ ~UNCHANGED storageVars
  BY DEF AgeRows, storageVars
<1>2. Service
  BY <1>1, TableFrame
<1>3. PICK m \in net, age \in Age :
          /\ m.owner \in Owner /\ m.ids \in SUBSET LockId
          /\ \/ \E k \in LockId : \/ GrantRow(m.owner, k, age)
                                  \/ UNCHANGED storageVars
             \/ RenewRows(m.owner, m.ids, age)
             \/ m.op = "release" /\ DeleteRows(m.owner, m.ids)
  BY <1>2, ServiceCases
<1>4. CASE \E k \in LockId : GrantRow(m.owner, k, age)
  <2>1. PICK k \in LockId : GrantRow(m.owner, k, age)
    BY <1>4
  <2>2. k = l
    BY <2>1 DEF GrantRow, TypeOK, StorageTypeOK
  <2>3. ttl[l] < -age /\ age \in Nat /\ ttl[l] \in Int
    BY <2>1, <2>2, LockStorageAssumption
       DEF GrantRow, Grantable, Age, TypeOK, StorageTypeOK, Ttl, Oldest
  <2>. QED  BY <2>3
<1>5. CASE m.op = "release" /\ DeleteRows(m.owner, m.ids)
  BY <1>5 DEF DeleteRows, OwnRows
<1>6. CASE RenewRows(m.owner, m.ids, age)
  BY <1>6 DEF RenewRows
<1>. QED  BY <1>1, <1>3, <1>4, <1>5, <1>6

\* For every interleaving of suites, heartbeats, retries and late requests, a
\* lock whose lease is live changes hands only if its holder asked for that.
THEOREM LeasesNotStolen == Spec => NoTheft
<1>1. TypeOK /\ [Next]_vars =>
        [\A l \in LockId :
            holder[l] # NoOwner /\ holder'[l] # holder[l] =>
                ttl[l] < 0 \/ \E m \in net : m.op = "release" /\ m.owner = holder[l]]_vars
  BY TheftStep
<1>. QED  BY <1>1, TypeCorrect, PTL DEF Spec, NoTheft

-----------------------------------------------------------------------------
(* The locks of the suites implement the promise of ResourceLease. *)

LEMMA GrantRefines ==
    ASSUME StorageTypeOK, NEW o \in Owner, NEW l \in LockId, NEW age \in Age, GrantRow(o, l, age)
    PROVE  Lease!Grant(o, l)
<1>1. o # NoOwner /\ age \in Nat /\ Expiry - age \in Int /\ \A k \in LockId : ttl[k] \in Int
  BY LockStorageAssumption DEF StorageTypeOK, Age, Ttl, Oldest
<1>2. Lease!Available(l)
  BY <1>1 DEF GrantRow, Grantable, Lease!Available, Lapsed
<1>3. /\ holder' = [holder EXCEPT ![l] = o]
      /\ \A k \in LockId : holder'[k] = IF k = l THEN o ELSE holder[k]
      /\ \A k \in LockId : ttl'[k] = IF k = l THEN Expiry - age ELSE ttl[k]
  BY DEF GrantRow, StorageTypeOK
<1>4. CASE Expiry - age < 0
  <2>1. Lapsed' = Lapsed \cup {l}
    BY <1>1, <1>3, <1>4 DEF Lapsed
  <2>. QED  BY <1>2, <1>3, <2>1 DEF Lease!Grant
<1>5. CASE ~(Expiry - age < 0)
  <2>1. Lapsed' = Lapsed \ {l}
    BY <1>1, <1>3, <1>5 DEF Lapsed
  <2>. QED  BY <1>2, <1>3, <2>1 DEF Lease!Grant
<1>. QED  BY <1>4, <1>5

LEMMA RenewRefines ==
    ASSUME StorageTypeOK, NEW o \in Owner, NEW ids \in SUBSET LockId, NEW age \in Age,
           RenewRows(o, ids, age)
    PROVE  Lease!Renew(o)
<1>. DEFINE S == OwnRows(o, ids)
<1>1. o # NoOwner /\ S \in SUBSET LockId /\ \A l \in S : holder[l] = o
  BY LockStorageAssumption DEF OwnRows
<1>2. holder' = holder /\ \A l \in LockId : ttl'[l] = IF l \in S THEN RenewBy - age ELSE ttl[l]
  BY DEF RenewRows
<1>. HIDE DEF S
<1>3. Lapsed' \in {Lapsed \ S, Lapsed \cup S}
  <2>1. CASE RenewBy - age < 0
    <3>1. Lapsed' = Lapsed \cup S
      BY <1>1, <1>2, <2>1 DEF Lapsed
    <3>. QED  BY <3>1
  <2>2. CASE ~(RenewBy - age < 0)
    <3>1. Lapsed' = Lapsed \ S
      BY <1>1, <1>2, <2>2 DEF Lapsed
    <3>. QED  BY <3>1
  <2>. QED  BY <2>1, <2>2
<1>. QED  BY <1>1, <1>2, <1>3 DEF Lease!Renew

LEMMA DeleteRefines ==
    ASSUME StorageTypeOK, NEW o \in Owner, NEW ids \in SUBSET LockId, DeleteRows(o, ids)
    PROVE  Lease!GiveBack(o)
<1>. DEFINE S == OwnRows(o, ids)
<1>1. o # NoOwner /\ S \in SUBSET LockId /\ \A l \in S : holder[l] = o
  BY LockStorageAssumption DEF OwnRows
<1>2. /\ holder' = [l \in LockId |-> IF l \in S THEN NoOwner ELSE holder[l]]
      /\ \A l \in LockId : ttl'[l] = IF l \in S THEN 0 ELSE ttl[l]
  BY DEF DeleteRows
<1>. HIDE DEF S
<1>3. Lapsed' = Lapsed \ S
  BY <1>1, <1>2 DEF Lapsed
<1>. QED  BY <1>1, <1>2, <1>3 DEF Lease!GiveBack

LEMMA AgeRefines ==
    ASSUME StorageTypeOK, AgeRows
    PROVE  Lease!Lapse
<1>1. \A l \in LockId : ttl[l] \in Int
  BY LockStorageAssumption DEF StorageTypeOK, Ttl, Oldest
<1>2. holder' = holder /\ \A l \in LockId : ttl'[l] = ttl[l] \/ ttl'[l] = ttl[l] - 1
  BY DEF AgeRows
<1>3. Lapsed \subseteq Lapsed'
  BY <1>1, <1>2 DEF Lapsed
<1>4. Lapsed' \in SUBSET {l \in LockId : holder[l] # NoOwner}
  BY <1>2 DEF Lapsed
<1>. QED  BY <1>2, <1>3, <1>4 DEF Lease!Lapse

LEMMA LeaseStep ==
    ASSUME TypeOK, [Next]_vars
    PROVE  [Lease!Next]_(Lease!leaseVars)
<1>. USE DEF TypeOK
<1>1. CASE UNCHANGED storageVars
  BY <1>1 DEF storageVars, Lease!leaseVars, Lapsed
<1>2. CASE AgeRows
  BY <1>2, AgeRefines DEF Lease!Next
<1>3. CASE Service
  <2>1. PICK m \in net, age \in Age :
            /\ m.owner \in Owner /\ m.ids \in SUBSET LockId
            /\ \/ \E l \in LockId : \/ GrantRow(m.owner, l, age)
                                    \/ UNCHANGED storageVars
               \/ RenewRows(m.owner, m.ids, age)
               \/ m.op = "release" /\ DeleteRows(m.owner, m.ids)
    BY <1>3, ServiceCases
  <2>2. ASSUME NEW l \in LockId, GrantRow(m.owner, l, age)  PROVE Lease!Next
    BY <2>1, <2>2, GrantRefines DEF Lease!Next
  <2>3. CASE RenewRows(m.owner, m.ids, age)
    BY <2>1, <2>3, RenewRefines DEF Lease!Next
  <2>4. CASE DeleteRows(m.owner, m.ids)
    BY <2>1, <2>4, DeleteRefines DEF Lease!Next
  <2>. QED  BY <1>1, <2>1, <2>2, <2>3, <2>4
<1>. QED  BY <1>1, <1>2, <1>3, TableFrame

\* The service, its table and its clients implement ResourceLease: every step
\* of theirs grants, renews, gives back or lets lapse leases, or changes none.
THEOREM LeaseImplemented == Spec => LeasePromise
<1>1. Init => Lease!Init
  BY DEF Init, StorageInit, Lease!Init, Lapsed
<1>2. TypeOK /\ [Next]_vars => [Lease!Next]_(Lease!leaseVars)
  BY LeaseStep
<1>. QED  BY <1>1, <1>2, TypeCorrect, PTL DEF Spec, LeasePromise, Lease!Spec

-----------------------------------------------------------------------------
(* What sending, returning and answering change, thread by thread. *)

LEMMA AttemptEffect ==
    ASSUME CallTypeOK, NEW o \in Owner, NEW t \in Thread, NEW op, NEW ids, NEW n,
           Attempt(o, t, op, ids, n)
    PROVE  /\ call'[o][t] = [op |-> op, ids |-> ids, attempt |-> n, at |-> "await", life |-> 0]
           /\ \A p \in Owner, u \in Thread : ~(p = o /\ u = t) => call'[p][u] = call[p][u]
           /\ \A m \in net' : \/ m \in net
                              \/ /\ m.owner = o /\ m.thread = t /\ m.op = op /\ m.ids = ids
                                 /\ m.age = 0 /\ m.live
           /\ \E m \in net' : /\ m.owner = o /\ m.thread = t /\ m.op = op /\ m.ids = ids
                              /\ m.age = 0 /\ m.live
           /\ net \subseteq net'
<1>. DEFINE new == [owner |-> o, thread |-> t, op |-> op, ids |-> ids, age |-> 0, live |-> TRUE]
<1>1. net' = net \cup {new}
  BY DEF Attempt
<1>2. /\ new.owner = o /\ new.thread = t /\ new.op = op /\ new.ids = ids
      /\ new.age = 0 /\ new.live
  OBVIOUS
<1>3. /\ call'[o][t] = [op |-> op, ids |-> ids, attempt |-> n, at |-> "await", life |-> 0]
      /\ \A p \in Owner, u \in Thread : ~(p = o /\ u = t) => call'[p][u] = call[p][u]
  BY DEF Attempt, CallTypeOK
<1>. HIDE DEF new
<1>. QED  BY <1>1, <1>2, <1>3

LEMMA ReturnEffect ==
    ASSUME CallTypeOK, NEW o \in Owner, NEW t \in Thread, Return(o, t)
    PROVE  /\ call'[o][t] = Idle /\ net' = net
           /\ \A p \in Owner, u \in Thread : ~(p = o /\ u = t) => call'[p][u] = call[p][u]
BY DEF Return, CallTypeOK

LEMMA AnswerEffect ==
    ASSUME CallTypeOK, NetTypeOK, LiveRequests, NEW m \in net, NEW how, NEW life,
           Answer(m, how, life)
    PROVE  /\ m.owner \in Owner /\ m.thread \in Thread /\ net' = net \ {m}
           /\ \A p \in Owner, u \in Thread :
                 ~(p = m.owner /\ u = m.thread) => call'[p][u] = call[p][u]
           /\ \/ m.live
              \/ call'[m.owner][m.thread] = call[m.owner][m.thread]
           /\ m.live =>
                 /\ call'[m.owner][m.thread].op = call[m.owner][m.thread].op
                 /\ call'[m.owner][m.thread].ids = call[m.owner][m.thread].ids
                 /\ call'[m.owner][m.thread].attempt = call[m.owner][m.thread].attempt
                 /\ call'[m.owner][m.thread].at = how
                 /\ call'[m.owner][m.thread].life = life
<1>1. m.owner \in Owner /\ m.thread \in Thread
  BY DEF NetTypeOK, Request
<1>. QED  BY <1>1 DEF Answer, CallTypeOK, Call, CallState

LEMMA StopEffect ==
    ASSUME CallTypeOK, NetTypeOK, NEW o \in Owner, NEW how, Stop(o, how)
    PROVE  /\ \A t \in Thread : call'[o][t] = Idle
           /\ \A p \in Owner, u \in Thread : p # o => call'[p][u] = call[p][u]
           /\ \A m \in net' : \/ m \in net /\ m.owner # o
                              \/ m.owner = o /\ ~m.live /\ \E n \in net :
                                    n.owner = o /\ n.op = m.op /\ n.ids = m.ids
BY DEF Stop, CallTypeOK, NetTypeOK, Request

LEMMA WantsAreLocks == ASSUME NEW o \in Owner PROVE Wants[o] \in SUBSET LockId /\ Wants[o] # {}
BY SuiteLockingAssumption

-----------------------------------------------------------------------------
(* A suite that is done left nothing behind.  What makes this inductive:   *)
(* only lock() asks for locks, suites name only their own, no request is   *)
(* given up while nothing fails, and once the release of a suite has been  *)
(* answered it has no row.                                                 *)

Tidy(o) ==
    /\ call[o][Main].op = "acquire" => main[o] = "locking"
    /\ \A t \in Beats : call[o][t].op # "acquire"
    /\ \A t \in Thread : call[o][t].ids \subseteq Wants[o]
    /\ \A m \in net : m.owner = o => m.ids \subseteq Wants[o]
    /\ \A l \in LockId : holder[l] = o => l \in Wants[o]

NoneGivenUp(o) == faults = 0 => \A m \in net : m.owner = o => m.live \/ main[o] = "dead"

Freed(o) ==
    /\ main[o] = "releasing" => call[o][Main].op = "release" /\ call[o][Main].ids = Wants[o]
    /\ faults = 0 /\ (main[o] = "done" \/ (main[o] = "releasing" /\ call[o][Main].at # "await")) =>
          \A l \in LockId : holder[l] # o

ReleaseOf(o) == Tidy(o) /\ NoneGivenUp(o) /\ Freed(o)

\* A suite none of whose calls, requests and rows a step touches.
LEMMA ReleaseFrame ==
    ASSUME NEW o \in Owner, ReleaseOf(o), main'[o] = main[o],
           \A t \in Thread : call'[o][t] = call[o][t],
           \A m \in net' : m.owner = o => m \in net,
           faults = faults' \/ (faults \in Nat /\ faults' = faults + 1),
           \A l \in LockId : holder'[l] = o => holder[l] = o
    PROVE  ReleaseOf(o)'
BY MainIsThread, BeatIsThread DEF ReleaseOf, Tidy, NoneGivenUp, Freed

\* A thread of a suite calls or returns; Main may go on to the next phase.
LEMMA AttemptReleaseOf ==
    ASSUME TypeOK, NEW o \in Owner, ReleaseOf(o), NEW t \in Thread, NEW op, NEW ids, NEW n,
           Attempt(o, t, op, ids, n), UNCHANGED <<storageVars, faults>>,
           ids \subseteq Wants[o],
           op = "acquire" => t = Main /\ main'[o] = "locking",
           t # Main => main'[o] = main[o],
           main'[o] = "dead" \/ main[o] # "dead",
           main'[o] = "done" => main[o] = "done",
           t = Main /\ main'[o] = "releasing" => op = "release" /\ ids = Wants[o]
    PROVE  ReleaseOf(o)'
<1>1. /\ call'[o][t] = [op |-> op, ids |-> ids, attempt |-> n, at |-> "await", life |-> 0]
      /\ \A u \in Thread : u # t => call'[o][u] = call[o][u]
      /\ \A m \in net' : \/ m \in net
                         \/ m.owner = o /\ m.ids = ids /\ m.live
  BY AttemptEffect DEF TypeOK
<1>2. call'[o][t].op = op /\ call'[o][t].ids = ids /\ call'[o][t].at = "await"
  BY <1>1
<1>3. holder' = holder /\ faults' = faults
  BY DEF storageVars
<1>4. Tidy(o)'
  <2>1. call'[o][Main].op = "acquire" => main'[o] = "locking"
    BY <1>1, <1>2, MainIsThread DEF ReleaseOf, Tidy
  <2>2. \A u \in Beats : call'[o][u].op # "acquire"
    BY <1>1, <1>2, BeatIsThread DEF ReleaseOf, Tidy
  <2>3. /\ \A u \in Thread : call'[o][u].ids \subseteq Wants[o]
        /\ \A m \in net' : m.owner = o => m.ids \subseteq Wants[o]
    BY <1>1, <1>2 DEF ReleaseOf, Tidy
  <2>. QED  BY <1>3, <2>1, <2>2, <2>3 DEF ReleaseOf, Tidy
<1>5. NoneGivenUp(o)'
  BY <1>1, <1>3 DEF ReleaseOf, NoneGivenUp
<1>6. Freed(o)'
  BY <1>1, <1>2, <1>3, MainIsThread DEF ReleaseOf, Freed
<1>. QED  BY <1>4, <1>5, <1>6 DEF ReleaseOf

\* The other suites.
LEMMA AttemptReleaseOthers ==
    ASSUME TypeOK, NEW o \in Owner, NEW t \in Thread, NEW op, NEW ids, NEW n,
           Attempt(o, t, op, ids, n), UNCHANGED <<storageVars, faults>>,
           NEW p \in Owner, p # o, main'[p] = main[p], ReleaseOf(p)
    PROVE  ReleaseOf(p)'
<1>1. /\ \A u \in Thread : call'[p][u] = call[p][u]
      /\ \A m \in net' : m \in net \/ m.owner = o
  BY DEF TypeOK, CallTypeOK, Attempt
<1>. QED  BY <1>1, ReleaseFrame DEF storageVars

\* A thread of a suite returns; with Main, the suite may be done or fail.
LEMMA ReturnReleaseOf ==
    ASSUME TypeOK, NEW o \in Owner, ReleaseOf(o), NEW t \in Thread,
           Return(o, t), UNCHANGED <<storageVars, faults>>, call[o][t].at # "await",
           main'[o] = "releasing" => t # Main,
           t # Main => main'[o] = main[o],
           main'[o] = "dead" \/ main[o] # "dead",
           main'[o] = "done" => main[o] \in {"done", "releasing"} 
    PROVE  ReleaseOf(o)'
<1>1. /\ call'[o][t] = Idle /\ net' = net
      /\ \A u \in Thread : u # t => call'[o][u] = call[o][u]
  BY ReturnEffect DEF TypeOK
<1>2. Idle.op = "none" /\ Idle.ids = {}
  BY DEF Idle
<1>3. holder' = holder /\ faults' = faults
  BY DEF storageVars
<1>4. Tidy(o)'
  <2>1. call'[o][Main].op = "acquire" => main'[o] = "locking"
    BY <1>1, <1>2, MainIsThread DEF ReleaseOf, Tidy
  <2>2. \A u \in Beats : call'[o][u].op # "acquire"
    BY <1>1, <1>2, BeatIsThread DEF ReleaseOf, Tidy
  <2>3. /\ \A u \in Thread : call'[o][u].ids \subseteq Wants[o]
        /\ \A m \in net' : m.owner = o => m.ids \subseteq Wants[o]
    BY <1>1, <1>2 DEF ReleaseOf, Tidy
  <2>. QED  BY <1>3, <2>1, <2>2, <2>3 DEF ReleaseOf, Tidy
<1>5. NoneGivenUp(o)'
  BY <1>1, <1>3 DEF ReleaseOf, NoneGivenUp
<1>6. Freed(o)'
  <2>1. main'[o] = "releasing" =>
            main[o] = "releasing" /\ call'[o][Main] = call[o][Main]
    BY <1>1, MainIsThread
  <2>2. main'[o] = "done" =>
            main[o] = "done" \/ (main[o] = "releasing" /\ call[o][Main].at # "await")
    OBVIOUS
  <2>. QED  BY <1>3, <2>1, <2>2 DEF ReleaseOf, Freed
<1>. QED  BY <1>4, <1>5, <1>6 DEF ReleaseOf

LEMMA ReturnReleaseOthers ==
    ASSUME TypeOK, NEW o \in Owner, NEW t \in Thread, Return(o, t),
           UNCHANGED <<storageVars, faults>>,
           NEW p \in Owner, p # o, main'[p] = main[p], ReleaseOf(p)
    PROVE  ReleaseOf(p)'
<1>1. net' = net /\ \A u \in Thread : call'[p][u] = call[p][u]
  BY DEF TypeOK, CallTypeOK, Return
<1>. QED  BY <1>1, ReleaseFrame DEF storageVars

ReleaseInv == \A o \in Owner : ReleaseOf(o)

LEMMA AttemptRelease ==
    ASSUME TypeOK, ReleaseInv, NEW o \in Owner, NEW t \in Thread, NEW op, NEW ids, NEW n,
           Attempt(o, t, op, ids, n), UNCHANGED <<storageVars, faults>>,
           ids \subseteq Wants[o],
           \A p \in Owner : p # o => main'[p] = main[p],
           main'[o] = main[o] \/ (t = Main /\ main'[o] \in {"locking", "aborting", "releasing"}),
           main[o] = "dead" => main'[o] = "dead",
           op = "acquire" => t = Main /\ main'[o] = "locking",
           t = Main /\ main'[o] = "releasing" => op = "release" /\ ids = Wants[o]
    PROVE  ReleaseInv'
<1>1. ASSUME NEW p \in Owner, p # o  PROVE ReleaseOf(p)'
  BY <1>1, AttemptReleaseOthers DEF ReleaseInv
<1>2. /\ t # Main => main'[o] = main[o]
      /\ main'[o] = "dead" \/ main[o] # "dead"
      /\ main'[o] = "done" => main[o] = "done"
  OBVIOUS
<1>3. ReleaseOf(o)'
  BY <1>2, AttemptReleaseOf DEF ReleaseInv
<1>. QED  BY <1>1, <1>3 DEF ReleaseInv

LEMMA ReturnRelease ==
    ASSUME TypeOK, ReleaseInv, NEW o \in Owner, NEW t \in Thread, Return(o, t),
           UNCHANGED <<storageVars, faults>>, call[o][t].at # "await",
           \A p \in Owner : p # o => main'[p] = main[p],
           \/ t # Main /\ main'[o] = main[o]
           \/ t = Main /\ main'[o] = "done" /\ main[o] = "releasing"
           \/ t = Main /\ main[o] \in {"locking", "aborting"}
                       /\ main'[o] \in {"running", "failed"}
    PROVE  ReleaseInv'
<1>1. ASSUME NEW p \in Owner, p # o  PROVE ReleaseOf(p)'
  BY <1>1, ReturnReleaseOthers DEF ReleaseInv
<1>2. /\ main'[o] = "releasing" => t # Main
      /\ t # Main => main'[o] = main[o]
      /\ main'[o] = "dead" \/ main[o] # "dead"
      /\ main'[o] = "done" => main[o] \in {"done", "releasing"}
  OBVIOUS
<1>3. ReleaseOf(o)'
  BY <1>2, ReturnReleaseOf DEF ReleaseInv
<1>. QED  BY <1>1, <1>3 DEF ReleaseInv

LEMMA StopRelease ==
    ASSUME TypeOK, ReleaseInv, NEW o \in Owner, NEW how \in {"dead", "crashed"}, Stop(o, how),
           UNCHANGED storageVars,
           (how = "dead" /\ faults' = faults) \/ faults' = faults + 1
    PROVE  ReleaseInv'
<1>1. /\ \A t \in Thread : call'[o][t] = Idle
      /\ \A p \in Owner, u \in Thread : p # o => call'[p][u] = call[p][u]
      /\ \A m \in net' : \/ m \in net /\ m.owner # o
                         \/ m.owner = o /\ ~m.live /\ \E n \in net :
                                n.owner = o /\ n.op = m.op /\ n.ids = m.ids
  BY StopEffect DEF TypeOK
<1>2. /\ main'[o] = how /\ \A p \in Owner : p # o => main'[p] = main[p]
      /\ holder' = holder /\ faults \in Nat
  BY SuiteLockingAssumption DEF Stop, TypeOK, ClientTypeOK, storageVars
<1>3. ASSUME NEW p \in Owner, p # o  PROVE ReleaseOf(p)'
  BY <1>1, <1>2, <1>3, ReleaseFrame DEF ReleaseInv
<1>4. ReleaseOf(o)'
  <2>1. Idle.op = "none" /\ Idle.ids = {}
    BY DEF Idle
  <2>2. Tidy(o)'
    BY <1>1, <1>2, <2>1, MainIsThread, BeatIsThread DEF ReleaseInv, ReleaseOf, Tidy
  <2>3. NoneGivenUp(o)'
    BY <1>2 DEF NoneGivenUp
  <2>4. Freed(o)'
    BY <1>2 DEF Freed
  <2>. QED  BY <2>2, <2>3, <2>4 DEF ReleaseOf
<1>. QED  BY <1>3, <1>4 DEF ReleaseInv

LEMMA ClientRelease ==
    ASSUME IInv, ReleaseInv, NEW o \in Owner, Client(o)
    PROVE  ReleaseInv'
<1>. USE DEF IInv
<1>. DEFINE c == call[o][Main]
<1>1. /\ \A p \in Owner : p # o => main'[p] = main[p]
      /\ UNCHANGED <<storageVars, faults>>
  BY DEF Client, Begin, Granted, Refused, AcquireFails, TestEnds, ReleaseReturns,
         HeartbeatSkipped, Backoff, Retry, Heartbeat, HeartbeatReturns, HeartbeatFails,
         UnhandledRejection, Stop, clientVars, TypeOK, ClientTypeOK
<1>2. CASE Begin(o)
  <2>1. NextId(o, {}) \in Wants[o]
    BY NextIdIsLeast, SuiteLockingAssumption
  <2>2. main[o] = "idle" /\ main'[o] = "locking" /\ Attempt(o, Main, "acquire", {NextId(o, {})}, 1)
    BY <1>2 DEF Begin, Invoke, TypeOK, ClientTypeOK
  <2>. QED  BY <1>1, <2>1, <2>2, MainIsThread, AttemptRelease
<1>3. CASE Granted(o)
  <2>. DEFINE got == acquired[o] \cup c.ids
  <2>1. main[o] = "locking" /\ c.at # "await" /\ got \in SUBSET Wants[o]
    BY <1>3, NextIdIsLeast DEF Granted, Succeeds, LocksInOrder
  <2>2. CASE got = Wants[o]
    <3>1. main'[o] = "running" /\ Return(o, Main)
      BY <1>3, <2>2 DEF Granted, TypeOK, ClientTypeOK
    <3>. QED  BY <1>1, <2>1, <3>1, MainIsThread, ReturnRelease
  <2>3. CASE got # Wants[o]
    <3>1. main' = main /\ Attempt(o, Main, "acquire", {NextId(o, got)}, 1)
      BY <1>3, <2>3 DEF Granted, Invoke
    <3>2. {NextId(o, got)} \subseteq Wants[o] /\ main'[o] = "locking"
      BY <2>1, <2>3, <3>1, NextIdIsLeast
    <3>. HIDE DEF got, c
    <3>. QED  BY <1>1, <2>1, <3>1, <3>2, MainIsThread, AttemptRelease
  <2>. QED  BY <2>2, <2>3
<1>4. CASE Refused(o)
  <2>1. main[o] = "locking" /\ main' = main /\ Attempt(o, Main, "acquire", c.ids, 1)
    BY <1>4 DEF Refused, Invoke, clientVars
  <2>2. c.ids \subseteq Wants[o]
    BY MainIsThread DEF ReleaseInv, ReleaseOf, Tidy
  <2>. QED  BY <1>1, <2>1, <2>2, MainIsThread, AttemptRelease
<1>5. CASE AcquireFails(o)
  <2>1. main[o] = "locking" /\ c.at # "await" /\ acquired[o] \subseteq Wants[o]
    BY <1>5 DEF AcquireFails, Fails, LocksInOrder
  <2>2. CASE acquired[o] = {}
    BY <1>1, <1>5, <2>1, <2>2, MainIsThread, ReturnRelease DEF AcquireFails, TypeOK, ClientTypeOK
  <2>3. CASE acquired[o] # {}
    <3>1. main'[o] = "aborting" /\ Attempt(o, Main, "release", acquired[o], 1)
      BY <1>5, <2>3 DEF AcquireFails, Invoke, TypeOK, ClientTypeOK
    <3>. QED  BY <1>1, <2>1, <3>1, MainIsThread, AttemptRelease
  <2>. QED  BY <2>2, <2>3
<1>6. CASE TestEnds(o)
  <2>1. main[o] = "running" /\ main'[o] = "releasing" /\ Attempt(o, Main, "release", Wants[o], 1)
    BY <1>6 DEF TestEnds, Invoke, TypeOK, ClientTypeOK
  <2>. QED  BY <1>1, <2>1, MainIsThread, AttemptRelease
<1>7. CASE ReleaseReturns(o)
  <2>1. /\ \/ main'[o] = "done" /\ main[o] = "releasing"
           \/ main'[o] = "failed" /\ main[o] = "aborting"
        /\ Return(o, Main) /\ c.at # "await"
    BY <1>7 DEF ReleaseReturns, Succeeds, Fails, TypeOK, ClientTypeOK
  <2>. QED  BY <1>1, <2>1, MainIsThread, ReturnRelease
<1>8. CASE HeartbeatSkipped(o)
  <2>1. main' = main /\ call' = call /\ net' = net /\ faults' = faults /\ holder' = holder
    BY <1>8 DEF HeartbeatSkipped, storageVars
  <2>. QED  BY <2>1, ReleaseFrame DEF ReleaseInv
<1>9. ASSUME NEW t \in Thread, Backoff(o, t)  PROVE ReleaseInv'
  <2>1. main' = main /\ net' = net /\ faults' = faults /\ holder' = holder
    BY <1>9 DEF Backoff, storageVars, clientVars
  <2>2. /\ call[o][t].at = "error" /\ call'[o][t].op = call[o][t].op
        /\ call'[o][t].ids = call[o][t].ids
        /\ \A p \in Owner, u \in Thread : ~(p = o /\ u = t) => call'[p][u] = call[p][u]
    BY <1>9 DEF Backoff, TypeOK, CallTypeOK, Call, CallState
  <2>3. ASSUME NEW p \in Owner, p # o  PROVE ReleaseOf(p)'
    BY <2>1, <2>2, <2>3, ReleaseFrame DEF ReleaseInv
  <2>4. Tidy(o)' /\ NoneGivenUp(o)'
    BY <2>1, <2>2, MainIsThread, BeatIsThread DEF ReleaseInv, ReleaseOf, Tidy, NoneGivenUp
  <2>5. Freed(o)'
    BY <2>1, <2>2, MainIsThread DEF ReleaseInv, ReleaseOf, Freed
  <2>. QED  BY <2>3, <2>4, <2>5 DEF ReleaseInv, ReleaseOf
<1>10. ASSUME NEW t \in Thread, Retry(o, t)  PROVE ReleaseInv'
  <2>1. /\ main' = main
        /\ Attempt(o, t, call[o][t].op, call[o][t].ids, call[o][t].attempt + 1)
    BY <1>10 DEF Retry, clientVars
  <2>2. call[o][t].ids \subseteq Wants[o]
    BY DEF ReleaseInv, ReleaseOf, Tidy
  <2>3. call[o][t].op = "acquire" => t = Main /\ main[o] = "locking"
    BY DEF ReleaseInv, ReleaseOf, Tidy, Thread
  <2>4. t = Main /\ main[o] = "releasing" =>
            call[o][t].op = "release" /\ call[o][t].ids = Wants[o]
    BY DEF ReleaseInv, ReleaseOf, Freed
  <2>. QED  BY <1>1, <2>1, <2>2, <2>3, <2>4, AttemptRelease
<1>11. ASSUME NEW t \in Beats, Heartbeat(o, t) \/ HeartbeatFails(o, t)  PROVE ReleaseInv'
  <2>1. PICK op \in {"keepAlive", "release"} : main' = main /\ Attempt(o, t, op, Wants[o], 1)
    BY <1>11 DEF Heartbeat, HeartbeatFails, Invoke
  <2>2. t \in Thread /\ t # Main
    BY BeatIsThread
  <2>. QED  BY <1>1, <2>1, <2>2, AttemptRelease
<1>12. ASSUME NEW t \in Beats, HeartbeatReturns(o, t)  PROVE ReleaseInv'
  <2>1. main' = main /\ Return(o, t) /\ call[o][t].at # "await" /\ t \in Thread /\ t # Main
    BY <1>12, BeatIsThread DEF HeartbeatReturns, Succeeds, clientVars
  <2>. QED  BY <1>1, <2>1, ReturnRelease
<1>13. ASSUME NEW t \in Beats, UnhandledRejection(o, t)  PROVE ReleaseInv'
  BY <1>13, StopRelease DEF UnhandledRejection
<1>. QED  BY <1>2, <1>3, <1>4, <1>5, <1>6, <1>7, <1>8, <1>9, <1>10, <1>11, <1>12, <1>13
          DEF Client

\* A request is executed or lost.
LEMMA AnswerRelease ==
    ASSUME TypeOK, LiveRequests, ReleaseInv, NEW m \in net, NEW how, how # "await", NEW life,
           Answer(m, how, life), main' = main,
           \A l \in LockId : \/ holder'[l] \in {holder[l], NoOwner}
                             \/ m.op = "acquire" /\ holder'[l] = m.owner /\ l \in m.ids,
           faults' = 0 => faults = 0 /\
               (m.op = "release" => \A l \in m.ids : holder'[l] # m.owner)
    PROVE  ReleaseInv'
<1>1. /\ m.owner \in Owner /\ m.thread \in Thread /\ net' = net \ {m}
      /\ \A p \in Owner, u \in Thread :
            ~(p = m.owner /\ u = m.thread) => call'[p][u] = call[p][u]
      /\ \/ m.live
         \/ call'[m.owner][m.thread] = call[m.owner][m.thread]
      /\ m.live =>
            /\ call'[m.owner][m.thread].op = call[m.owner][m.thread].op
            /\ call'[m.owner][m.thread].ids = call[m.owner][m.thread].ids
            /\ call'[m.owner][m.thread].at # "await"
  BY AnswerEffect DEF TypeOK
<1>2. \A p \in Owner, u \in Thread : /\ call'[p][u].op = call[p][u].op
                                     /\ call'[p][u].ids = call[p][u].ids
  BY <1>1
<1>3. \A p \in Owner : p # NoOwner
  BY LockStorageAssumption
<1>. SUFFICES ASSUME NEW o \in Owner PROVE ReleaseOf(o)'
  BY DEF ReleaseInv
<1>4. ReleaseOf(o)
  BY DEF ReleaseInv
<1>5. \A l \in LockId : holder'[l] = o /\ holder[l] # o =>
          m.op = "acquire" /\ m.owner = o /\ l \in m.ids
  BY <1>3
<1>6. Tidy(o)'
  <2>1. \A l \in LockId : holder'[l] = o => l \in Wants[o]
    BY <1>4, <1>5 DEF ReleaseOf, Tidy
  <2>2. \A u \in Thread : call'[o][u].ids \subseteq Wants[o]
    BY <1>2, <1>4 DEF ReleaseOf, Tidy
  <2>3. /\ call'[o][Main].op = "acquire" => main'[o] = "locking"
        /\ \A t \in Beats : call'[o][t].op # "acquire"
    BY <1>2, <1>4, MainIsThread, BeatIsThread DEF ReleaseOf, Tidy
  <2>4. \A n \in net' : n.owner = o => n.ids \subseteq Wants[o]
    BY <1>1, <1>4 DEF ReleaseOf, Tidy
  <2>. QED  BY <2>1, <2>2, <2>3, <2>4 DEF Tidy
<1>7. NoneGivenUp(o)'
  BY <1>1, <1>4 DEF ReleaseOf, NoneGivenUp
<1>8. Freed(o)'
  <2>1. main[o] = "releasing" => call'[o][Main].op = "release" /\ call'[o][Main].ids = Wants[o]
    BY <1>2, <1>4, MainIsThread DEF ReleaseOf, Freed
  <2>2. ASSUME faults' = 0, NEW l \in LockId, holder'[l] = o,
               main[o] = "done" \/ (main[o] = "releasing" /\ call'[o][Main].at # "await")
        PROVE  FALSE
    <3>1. CASE holder[l] = o
      <4>1. main[o] = "releasing" /\ call[o][Main].at = "await"
        BY <1>4, <2>2, <3>1 DEF ReleaseOf, Freed
      <4>2. m.owner = o /\ m.thread = Main /\ m.live
        BY <1>1, <2>2, <4>1, MainIsThread
      <4>3. m.op = "release" /\ m.ids = Wants[o]
        BY <1>4, <4>1, <4>2 DEF ReleaseOf, Freed, LiveRequests
      <4>4. l \in m.ids
        BY <1>4, <3>1, <4>3 DEF ReleaseOf, Tidy
      <4>. QED  BY <2>2, <4>2, <4>3, <4>4
    <3>2. CASE holder[l] # o
      <4>1. m.op = "acquire" /\ m.owner = o
        BY <1>5, <2>2, <3>2
      <4>2. m.live
        BY <1>4, <2>2, <4>1 DEF ReleaseOf, NoneGivenUp
      <4>3. call[o][m.thread].op = "acquire"
        BY <4>1, <4>2 DEF LiveRequests
      <4>4. main[o] = "locking"
        BY <1>1, <1>4, <4>3 DEF ReleaseOf, Tidy, Thread
      <4>. QED  BY <2>2, <4>4
    <3>. QED  BY <3>1, <3>2
  <2>. QED  BY <2>1, <2>2 DEF Freed
<1>. QED  BY <1>6, <1>7, <1>8 DEF ReleaseOf

LEMMA ServeReleaseStep ==
    ASSUME IInv, ReleaseInv, NEW m \in net, Serve(m)
    PROVE  ReleaseInv'
<1>. USE DEF IInv
<1>1. /\ m.owner \in Owner /\ m.ids \in SUBSET LockId /\ m.owner # NoOwner
      /\ Found(m) # "await" /\ main' = main /\ faults' = faults
  BY LockStorageAssumption DEF TypeOK, NetTypeOK, Request, Serve, clientVars, Found
<1>2. CASE ServeAcquire(m)
  <2>1. PICK age \in 0 .. m.age, l \in m.ids :
            \/ GrantRow(m.owner, l, age) /\ Answer(m, "ok", Expiry - age)
            \/ RefuseRow(l, age) /\ Answer(m, "refused", 0)
    BY <1>2 DEF ServeAcquire
  <2>2. CASE GrantRow(m.owner, l, age) /\ Answer(m, "ok", Expiry - age)
    <3>1. \A k \in LockId : holder'[k] = IF k = l THEN m.owner ELSE holder[k]
      BY <2>2 DEF GrantRow, TypeOK, StorageTypeOK
    <3>. QED  BY <1>1, <1>2, <2>1, <2>2, <3>1, AnswerRelease DEF ServeAcquire
  <2>3. CASE RefuseRow(l, age) /\ Answer(m, "refused", 0)
    BY <1>1, <1>2, <2>3, AnswerRelease DEF RefuseRow, storageVars, ServeAcquire
  <2>. QED  BY <2>1, <2>2, <2>3
<1>3. CASE ServeKeepAlive(m)
  <2>1. m.op = "keepAlive" /\ holder' = holder /\ Answer(m, Found(m), 0)
    BY <1>3 DEF ServeKeepAlive, RenewRows
  <2>. QED  BY <1>1, <2>1, AnswerRelease
<1>4. CASE ServeRelease(m)
  <2>1. /\ m.op = "release" /\ Answer(m, Found(m), 0)
        /\ \A l \in LockId : holder'[l] = IF l \in OwnRows(m.owner, m.ids)
                                          THEN NoOwner ELSE holder[l]
    BY <1>4 DEF ServeRelease, DeleteRows
  <2>2. \A l \in m.ids : holder'[l] # m.owner
    BY <1>1, <2>1 DEF OwnRows
  <2>. QED  BY <1>1, <2>1, <2>2, AnswerRelease
<1>. QED  BY <1>2, <1>3, <1>4 DEF Serve

\* Calls change neither their kind nor their ids, and no suite goes on; after
\* a fault nothing is promised but tidiness.
LEMMA TidyRelease ==
    ASSUME ReleaseInv, main' = main, holder' = holder, faults' # 0,
           \A o \in Owner, t \in Thread : /\ call'[o][t].op = call[o][t].op
                                          /\ call'[o][t].ids = call[o][t].ids,
           \A m \in net' : \E n \in net : n.owner = m.owner /\ n.ids = m.ids
    PROVE  ReleaseInv'
<1>. SUFFICES ASSUME NEW o \in Owner PROVE ReleaseOf(o)'
  BY DEF ReleaseInv
<1>1. Tidy(o)'
  <2>1. \A m \in net' : m.owner = o => m.ids \subseteq Wants[o]
    BY DEF ReleaseInv, ReleaseOf, Tidy
  <2>. QED  BY <2>1, MainIsThread, BeatIsThread DEF ReleaseInv, ReleaseOf, Tidy
<1>2. NoneGivenUp(o)' /\ Freed(o)'
  BY MainIsThread DEF ReleaseInv, ReleaseOf, NoneGivenUp, Freed
<1>. QED  BY <1>1, <1>2 DEF ReleaseOf

LEMMA NetworkRelease ==
    ASSUME IInv, ReleaseInv, Network
    PROVE  ReleaseInv'
<1>. USE DEF IInv
<1>1. faults \in Nat
  BY SuiteLockingAssumption DEF TypeOK
<1>2. ASSUME NEW m \in net, RequestLost(m)  PROVE ReleaseInv'
  <2>1. Answer(m, "error", 0) /\ main' = main /\ holder' = holder /\ faults' # 0
    BY <1>1, <1>2 DEF RequestLost, Fault, storageVars, clientVars
  <2>. QED  BY <2>1, AnswerRelease
<1>3. ASSUME NEW m \in net, Abandoned(m)  PROVE ReleaseInv'
  <2>1. /\ main' = main /\ holder' = holder /\ faults' # 0
        /\ net' = (net \ {m}) \cup {[m EXCEPT !.live = FALSE]}
        /\ call' = [call EXCEPT ![m.owner][m.thread] = [@ EXCEPT !.at = "error"]]
    BY <1>1, <1>3 DEF Abandoned, Fault, storageVars, clientVars
  <2>2. \A o \in Owner, t \in Thread : /\ call'[o][t].op = call[o][t].op
                                       /\ call'[o][t].ids = call[o][t].ids
    BY <2>1 DEF TypeOK, CallTypeOK, NetTypeOK, Request, Call, CallState
  <2>3. \A n \in net' : \E k \in net : k.owner = n.owner /\ k.ids = n.ids
    BY <2>1 DEF TypeOK, NetTypeOK, Request
  <2>. QED  BY <2>1, <2>2, <2>3, TidyRelease
<1>4. ASSUME NEW o \in Owner, NEW t \in Thread, ReplyLost(o, t)  PROVE ReleaseInv'
  <2>1. /\ main' = main /\ holder' = holder /\ faults' # 0 /\ net' = net
        /\ call' = [call EXCEPT ![o][t] = [@ EXCEPT !.at = "error", !.life = 0]]
    BY <1>1, <1>4 DEF ReplyLost, Fault, storageVars, clientVars
  <2>2. \A p \in Owner, u \in Thread : /\ call'[p][u].op = call[p][u].op
                                       /\ call'[p][u].ids = call[p][u].ids
    BY <2>1 DEF TypeOK, CallTypeOK, Call, CallState
  <2>. QED  BY <2>1, <2>2, TidyRelease
<1>. QED  BY <1>2, <1>3, <1>4 DEF Network

LEMMA TickEffect ==
    ASSUME TypeOK, Tick
    PROVE  /\ \A o \in Owner, t \in Thread : call'[o][t] = Later(call[o][t])
           /\ \A m \in net' : \E n \in net : /\ m = Older(n) /\ m.owner = n.owner
                                             /\ m.live = n.live /\ m.thread = n.thread
                                             /\ m.op = n.op /\ m.ids = n.ids
           /\ holder' = holder /\ main' = main /\ acquired' = acquired /\ faults' = faults
           /\ job' = job /\ period' = period
BY OlderType DEF Tick, AgeRows, TypeOK, NetTypeOK

LEMMA TickRelease ==
    ASSUME IInv, ReleaseInv, Tick
    PROVE  ReleaseInv'
<1>. USE DEF IInv
<1>1. /\ \A m \in net' : \E n \in net : m.owner = n.owner /\ m.live = n.live /\ m.ids = n.ids
      /\ holder' = holder /\ main' = main /\ faults' = faults
  BY TickEffect
<1>2. \A o \in Owner, t \in Thread : /\ call'[o][t].op = call[o][t].op
                                     /\ call'[o][t].ids = call[o][t].ids
                                     /\ call[o][t].at = "await" => call'[o][t].at = "await"
  BY TickEffect, LaterType DEF TypeOK, CallTypeOK
<1>. SUFFICES ASSUME NEW o \in Owner PROVE ReleaseOf(o)'
  BY DEF ReleaseInv
<1>3. Tidy(o)'
  <2>1. \A m \in net' : m.owner = o => m.ids \subseteq Wants[o]
    BY <1>1 DEF ReleaseInv, ReleaseOf, Tidy
  <2>. QED  BY <1>1, <1>2, <2>1, MainIsThread, BeatIsThread DEF ReleaseInv, ReleaseOf, Tidy
<1>4. NoneGivenUp(o)'
  BY <1>1 DEF ReleaseInv, ReleaseOf, NoneGivenUp
<1>5. Freed(o)'
  BY <1>1, <1>2, MainIsThread DEF ReleaseInv, ReleaseOf, Freed
<1>. QED  BY <1>3, <1>4, <1>5 DEF ReleaseOf

LEMMA NextRelease == IInv /\ ReleaseInv /\ [Next]_vars => ReleaseInv'
<1>. SUFFICES ASSUME IInv, ReleaseInv, [Next]_vars PROVE ReleaseInv'  OBVIOUS
<1>1. ASSUME NEW o \in Owner, Crash(o)  PROVE ReleaseInv'
  BY <1>1, StopRelease DEF Crash, Fault, IInv
<1>2. CASE UNCHANGED vars
  BY <1>2 DEF vars, storageVars, clientVars, ReleaseInv, ReleaseOf, Tidy, NoneGivenUp, Freed
<1>. QED
  BY <1>1, <1>2, ServeReleaseStep, NetworkRelease, TickRelease, ClientRelease DEF Next, Service

\* A suite that has run its test, in a run without a fault, has none of its
\* rows in the table, whatever its heartbeats were doing while it released.
THEOREM NothingLeftBehind == Spec => []CleanRelease
<1>1. Init => ReleaseInv
  <2>. SUFFICES ASSUME Init, NEW o \in Owner PROVE ReleaseOf(o)
    BY DEF ReleaseInv
  <2>1. /\ main[o] = "idle" /\ net = {} /\ o # NoOwner /\ \A l \in LockId : holder[l] = NoOwner
        /\ \A t \in Thread : call[o][t].op = "none" /\ call[o][t].ids = {}
    BY LockStorageAssumption DEF Init, StorageInit, Idle
  <2>. QED  BY <2>1, MainIsThread, BeatIsThread DEF ReleaseOf, Tidy, NoneGivenUp, Freed
<1>2. ReleaseInv => CleanRelease
  BY DEF ReleaseInv, ReleaseOf, Freed, CleanRelease
<1>. QED  BY <1>1, <1>2, NextRelease, Invariance, PTL DEF Spec

-----------------------------------------------------------------------------
(* A call that awaits an answer has its request in flight. *)

Awaited ==
    \A o \in Owner, t \in Thread : call[o][t].at = "await" =>
        \E m \in net : m.live /\ m.owner = o /\ m.thread = t

LEMMA AttemptAwaited ==
    ASSUME CallTypeOK, Awaited, NEW o \in Owner, NEW t \in Thread, NEW op, NEW ids, NEW n,
           Attempt(o, t, op, ids, n)
    PROVE  Awaited'
<1>1. /\ call'[o][t] = [op |-> op, ids |-> ids, attempt |-> n, at |-> "await", life |-> 0]
      /\ \A p \in Owner, u \in Thread : ~(p = o /\ u = t) => call'[p][u] = call[p][u]
      /\ \E m \in net' : m.owner = o /\ m.thread = t /\ m.live
      /\ net \subseteq net'
  BY AttemptEffect
<1>. QED  BY <1>1 DEF Awaited

LEMMA ReturnAwaited ==
    ASSUME CallTypeOK, Awaited, NEW o \in Owner, NEW t \in Thread, Return(o, t)
    PROVE  Awaited'
<1>1. /\ call'[o][t].at = "idle" /\ net' = net
      /\ \A p \in Owner, u \in Thread : ~(p = o /\ u = t) => call'[p][u] = call[p][u]
  BY ReturnEffect DEF Idle
<1>. QED  BY <1>1 DEF Awaited

LEMMA AnswerAwaited ==
    ASSUME TypeOK, LiveRequests, Awaited, NEW m \in net, NEW how, how # "await", NEW life,
           Answer(m, how, life)
    PROVE  Awaited'
<1>1. /\ m.owner \in Owner /\ m.thread \in Thread /\ net' = net \ {m}
      /\ \A p \in Owner, u \in Thread :
            ~(p = m.owner /\ u = m.thread) => call'[p][u] = call[p][u]
      /\ \/ m.live
         \/ call'[m.owner][m.thread] = call[m.owner][m.thread]
      /\ m.live => call'[m.owner][m.thread].at = how
  BY AnswerEffect DEF TypeOK
<1>. SUFFICES ASSUME NEW p \in Owner, NEW u \in Thread, call'[p][u].at = "await"
             PROVE  \E n \in net' : n.live /\ n.owner = p /\ n.thread = u
  BY DEF Awaited
<1>2. call[p][u].at = "await" /\ (m.live => ~(p = m.owner /\ u = m.thread))
  BY <1>1
<1>3. PICK n \in net : n.live /\ n.owner = p /\ n.thread = u
  BY <1>2 DEF Awaited
<1>. QED  BY <1>1, <1>2, <1>3

LEMMA StopAwaited ==
    ASSUME TypeOK, Awaited, NEW o \in Owner, NEW how, Stop(o, how)
    PROVE  Awaited'
<1>. SUFFICES ASSUME NEW p \in Owner, NEW u \in Thread, call'[p][u].at = "await"
             PROVE  \E n \in net' : n.live /\ n.owner = p /\ n.thread = u
  BY DEF Awaited
<1>1. p # o /\ call[p][u].at = "await"
  BY StopEffect DEF Idle, TypeOK
<1>2. PICK n \in net : n.live /\ n.owner = p /\ n.thread = u
  BY <1>1 DEF Awaited
<1>3. n \in net'
  BY <1>1, <1>2 DEF Stop
<1>. QED  BY <1>2, <1>3

\* What a tick does to a call.
LEMMA LaterAt ==
    ASSUME NEW c \in Call
    PROVE  /\ Later(c).at = IF c.at = "sleep" THEN "wake" ELSE c.at
           /\ Later(c).op = c.op /\ Later(c).ids = c.ids /\ Later(c).attempt = c.attempt
BY DEF Later, Call, CallState

LEMMA ClientAwaited ==
    ASSUME TypeOK, Awaited, NEW o \in Owner, Client(o)
    PROVE  Awaited'
<1>. USE DEF TypeOK
<1>1. ASSUME NEW t \in Thread, NEW op, NEW ids, NEW n, Attempt(o, t, op, ids, n)
      PROVE  Awaited'
  BY <1>1, AttemptAwaited
<1>2. ASSUME NEW t \in Thread, Return(o, t)
      PROVE  Awaited'
  BY <1>2, ReturnAwaited
<1>3. CASE Begin(o) \/ Refused(o) \/ TestEnds(o)
  BY <1>1, <1>3, MainIsThread DEF Begin, Refused, TestEnds, Invoke
<1>4. CASE Granted(o) \/ AcquireFails(o)
  <2>1. (\E op, ids, n : Attempt(o, Main, op, ids, n)) \/ Return(o, Main)
    BY <1>4 DEF Granted, AcquireFails, Invoke
  <2>. QED  BY <1>1, <1>2, <2>1, MainIsThread
<1>5. CASE ReleaseReturns(o)
  BY <1>2, <1>5, MainIsThread DEF ReleaseReturns
<1>6. CASE HeartbeatSkipped(o)
  BY <1>6 DEF HeartbeatSkipped, Awaited
<1>7. ASSUME NEW t \in Thread, Backoff(o, t)  PROVE Awaited'
  <2>1. /\ net' = net /\ call'[o][t].at = "sleep"
        /\ \A p \in Owner, u \in Thread : ~(p = o /\ u = t) => call'[p][u] = call[p][u]
    BY <1>7 DEF Backoff, CallTypeOK, Call, CallState
  <2>. QED  BY <2>1 DEF Awaited
<1>8. ASSUME NEW t \in Thread, Retry(o, t)  PROVE Awaited'
  BY <1>1, <1>8 DEF Retry
<1>9. ASSUME NEW t \in Beats, Heartbeat(o, t) \/ HeartbeatFails(o, t)  PROVE Awaited'
  <2>1. \E op, ids, n : Attempt(o, t, op, ids, n)
    BY <1>9 DEF Heartbeat, HeartbeatFails, Invoke
  <2>. QED  BY <1>1, <2>1, BeatIsThread
<1>10. ASSUME NEW t \in Beats, HeartbeatReturns(o, t)  PROVE Awaited'
  BY <1>2, <1>10, BeatIsThread DEF HeartbeatReturns
<1>11. ASSUME NEW t \in Beats, UnhandledRejection(o, t)  PROVE Awaited'
  BY <1>11, StopAwaited DEF UnhandledRejection
<1>. QED  BY <1>3, <1>4, <1>5, <1>6, <1>7, <1>8, <1>9, <1>10, <1>11 DEF Client

LEMMA NextAwaited == IInv /\ Awaited /\ [Next]_vars => Awaited'
<1>. SUFFICES ASSUME IInv, Awaited, [Next]_vars PROVE Awaited'  OBVIOUS
<1>. USE DEF IInv
<1>1. ASSUME NEW m \in net, Serve(m)  PROVE Awaited'
  <2>1. \E how \in {"ok", "refused", "error"}, life \in Int : Answer(m, how, life)
    <3>1. CASE ServeAcquire(m)
      <4>1. PICK age \in 0 .. m.age, l \in m.ids :
                Answer(m, "ok", Expiry - age) \/ Answer(m, "refused", 0)
        BY <3>1 DEF ServeAcquire
      <4>2. Expiry - age \in Int
        BY LockStorageAssumption
      <4>. QED  BY <4>1, <4>2
    <3>2. CASE ServeKeepAlive(m) \/ ServeRelease(m)
      BY <3>2 DEF ServeKeepAlive, ServeRelease, Found
    <3>. QED  BY <1>1, <3>1, <3>2 DEF Serve
  <2>. QED  BY <2>1, AnswerAwaited
<1>2. ASSUME NEW m \in net, RequestLost(m)  PROVE Awaited'
  BY <1>2, AnswerAwaited DEF RequestLost
<1>3. ASSUME NEW m \in net, Abandoned(m)  PROVE Awaited'
  <2>1. m.owner \in Owner /\ m.thread \in Thread
    BY DEF TypeOK, NetTypeOK, Request
  <2>2. /\ net \ {m} \subseteq net'
        /\ call'[m.owner][m.thread].at = "error"
        /\ \A p \in Owner, u \in Thread :
              ~(p = m.owner /\ u = m.thread) => call'[p][u] = call[p][u]
    BY <1>3, <2>1 DEF Abandoned, TypeOK, CallTypeOK, Call, CallState
  <2>. QED  BY <2>1, <2>2 DEF Awaited
<1>4. ASSUME NEW o \in Owner, NEW t \in Thread, ReplyLost(o, t)  PROVE Awaited'
  <2>1. /\ net' = net /\ call'[o][t].at = "error"
        /\ \A p \in Owner, u \in Thread : ~(p = o /\ u = t) => call'[p][u] = call[p][u]
    BY <1>4 DEF ReplyLost, TypeOK, CallTypeOK, Call, CallState
  <2>. QED  BY <2>1 DEF Awaited
<1>5. ASSUME NEW o \in Owner, Crash(o)  PROVE Awaited'
  BY <1>5, StopAwaited DEF Crash
<1>6. CASE Tick
  <2>. SUFFICES ASSUME NEW o \in Owner, NEW t \in Thread, call'[o][t].at = "await"
               PROVE  \E m \in net' : m.live /\ m.owner = o /\ m.thread = t
    BY DEF Awaited
  <2>1. call[o][t].at = "await"
    <3>1. call[o][t] \in Call /\ call'[o][t] = Later(call[o][t])
      BY <1>6, TickEffect DEF TypeOK, CallTypeOK
    <3>. QED  BY <3>1, LaterAt
  <2>2. PICK m \in net : m.live /\ m.owner = o /\ m.thread = t
    BY <2>1 DEF Awaited
  <2>3. Older(m) \in net' /\ m \in Request
    BY <1>6 DEF Tick, TypeOK, NetTypeOK
  <2>. QED  BY <2>2, <2>3, OlderType
<1>7. CASE UNCHANGED vars
  BY <1>7 DEF vars, Awaited
<1>. QED
  BY <1>1, <1>2, <1>3, <1>4, <1>5, <1>6, <1>7, ClientAwaited DEF Next, Service, Network

-----------------------------------------------------------------------------
(* A prompt system.  What makes BeliefBacked inductive: a suite at work    *)
(* has sent no release, its heartbeats renew all it wants and have made an *)
(* attempt for each fault and at most one more, and each lease it counts   *)
(* on outlasts what is left to do before the next renewal, a tick for each *)
(* fault that may still come included.                                     *)

\* Faults that may still happen.
Spare == MaxFaults - faults

AtWork(o) == main[o] \in {"idle", "locking", "running"}

\* A heartbeat has made one attempt for each fault, at most one more.
Beat(o, t) ==
    \/ call[o][t] = Idle
    \/ /\ call[o][t].op = "keepAlive" /\ call[o][t].ids = Wants[o]
       /\ \/ call[o][t].at \in {"await", "ok"} /\ call[o][t].attempt <= faults + 1
          \/ call[o][t].at \in {"error", "sleep", "wake"} /\ call[o][t].attempt <= faults

\* The job runs as soon as there is a lock, at the pace of a lease.
Job(o) ==
    /\ acquired[o] = {} => job[o] = "none" /\ \A t \in Beats : call[o][t] = Idle
    /\ acquired[o] # {} => /\ job[o] = "on" /\ timer[o] <= period[o]
                           /\ \E life \in Leases : period[o] = HeartbeatFrequency(life)

Sound(o) ==
    /\ \A m \in net : m.owner = o => m.op # "release"
    /\ \A t \in Beats : Beat(o, t)
    /\ Job(o)
    /\ main[o] = "running" => acquired[o] = Wants[o]

\* Fresh from an acquire or a keepAlive.
Fresh(l) == ttl[l] + DbDelay >= Expiry \/ ttl[l] + DbDelay >= RenewBy

Got(o) == IF main[o] = "locking" /\ call[o][Main].at = "ok" THEN call[o][Main].ids ELSE {}

JustGranted(o) ==
    /\ main[o] = "locking" /\ call[o][Main].at = "ok" => call[o][Main].life \in Leases
    /\ \A l \in Got(o) : holder[l] = o /\ Fresh(l)

\* The lease outlasts what the heartbeats still have to do, faults included.
Covered(o, l) ==
    /\ \A t \in Beats : call[o][t].at \in {"error", "sleep"} => ttl[l] >= Spare + 1
    /\ \A t \in Beats : call[o][t].at \in {"await", "wake"} => ttl[l] >= Spare
    /\ \A t \in Beats : call[o][t].at = "ok" => ttl[l] >= period[o] + Spare
    /\ (\A t \in Beats : call[o][t].at \in {"idle", "ok"}) => ttl[l] >= timer[o] + Spare

Backed(o) == \A l \in acquired[o] : holder[l] = o /\ Covered(o, l)

Working(o) == Sound(o) /\ JustGranted(o) /\ Backed(o)

Kept == \A o \in Owner : AtWork(o) => Working(o)

-----------------------------------------------------------------------------
LEMMA LeaseLength ==
    ASSUME Prompt, NEW life \in Leases
    PROVE  /\ life \in Int /\ HeartbeatFrequency(life) \in Nat /\ HeartbeatFrequency(life) >= 1
           /\ HeartbeatFrequency(life) + MaxFaults + DbDelay <= Expiry
           /\ HeartbeatFrequency(life) + MaxFaults + DbDelay <= RenewBy
<1>1. life \in Int
  BY LockStorageAssumption DEF Leases
<1>2. HeartbeatFrequency(life) \in Nat /\ HeartbeatFrequency(life) >= 1
  BY <1>1, SuiteLockingAssumption DEF HeartbeatFrequency
<1>. QED  BY <1>1, <1>2 DEF Prompt

LEMMA Room ==
    ASSUME Prompt
    PROVE  MaxFaults + DbDelay + 1 <= Expiry /\ MaxFaults + DbDelay + 1 <= RenewBy
<1>1. Expiry \in Leases
  BY LockStorageAssumption DEF Leases
<1>. QED  BY <1>1, LeaseLength, LockStorageAssumption, SuiteLockingAssumption

LEMMA Numbers ==
    ASSUME TypeOK
    PROVE  /\ \A l \in LockId : ttl[l] \in Int
           /\ \A o \in Owner : period[o] \in Nat /\ timer[o] \in Nat
           /\ faults \in Nat /\ faults <= MaxFaults /\ MaxFaults \in Nat
           /\ Spare \in Nat
BY LockStorageAssumption, SuiteLockingAssumption
   DEF TypeOK, StorageTypeOK, Ttl, Oldest, ClientTypeOK, Period, Spare

\* Locks a suite at work counts on have a lease that is live.
LEMMA CoveredLive ==
    ASSUME TypeOK, NEW o \in Owner, NEW l \in LockId, Covered(o, l),
           \A t \in Beats : Beat(o, t)
    PROVE  ttl[l] >= Spare
<1>1. /\ ttl[l] \in Int /\ timer[o] \in Nat /\ period[o] \in Nat /\ Spare \in Nat
  BY Numbers
<1>2. CASE \A t \in Beats : call[o][t].at \in {"idle", "ok"}
  BY <1>1, <1>2 DEF Covered
<1>3. CASE \E t \in Beats : call[o][t].at \notin {"idle", "ok"}
  <2>1. PICK t \in Beats : call[o][t].at \notin {"idle", "ok"}
    BY <1>3
  <2>2. call[o][t].at \in {"await", "error", "sleep", "wake"}
    BY <2>1 DEF Beat, Idle
  <2>. QED  BY <1>1, <2>2 DEF Covered
<1>. QED  BY <1>2, <1>3

LEMMA CountsOn ==
    ASSUME Prompt, TypeOK, LocksInOrder, NEW o \in Owner, Working(o),
           NEW l \in acquired[o] \cup Got(o)
    PROVE  l \in LockId /\ holder[l] = o /\ ttl[l] >= 0
<1>1. l \in LockId
  BY MainIsThread DEF TypeOK, ClientTypeOK, CallTypeOK, Call, CallState, Got
<1>2. ttl[l] \in Int /\ Spare \in Nat /\ MaxFaults \in Nat
  BY <1>1, Numbers
<1>3. CASE l \in acquired[o]
  BY <1>1, <1>2, <1>3, CoveredLive DEF Working, Backed, Sound
<1>4. CASE l \in Got(o)
  <2>1. holder[l] = o /\ Fresh(l)
    BY <1>4 DEF Working, JustGranted
  <2>. QED  BY <1>1, <1>2, <2>1, Room, LockStorageAssumption DEF Fresh
<1>. QED  BY <1>1, <1>3, <1>4

\* A lease that was just set covers whatever the heartbeats are at.
LEMMA FullCovers ==
    ASSUME TypeOK', NEW o \in Owner, NEW l \in LockId, period'[o] >= 1, timer'[o] <= period'[o],
           ttl'[l] >= period'[o] + MaxFaults
    PROVE  Covered(o, l)'
<1>1. /\ ttl'[l] \in Int /\ timer'[o] \in Nat /\ period'[o] \in Nat /\ MaxFaults \in Nat
      /\ faults' \in Nat
  BY LockStorageAssumption, SuiteLockingAssumption
     DEF TypeOK, StorageTypeOK, Ttl, Oldest, ClientTypeOK, Period
<1>. QED  BY <1>1 DEF Covered, Spare

-----------------------------------------------------------------------------
\* Steps that leave a suite, its calls and the rows it counts on alone.
LEMMA WorkFrame ==
    ASSUME TypeOK, NEW o \in Owner, Working(o), main'[o] = main[o], acquired'[o] = acquired[o],
           job'[o] = job[o], period'[o] = period[o], timer'[o] = timer[o],
           \A t \in Thread : call'[o][t] = call[o][t],
           \A m \in net' : m.owner = o => \E n \in net : n.owner = o /\ n.op = m.op,
           faults' = faults \/ faults' = faults + 1,
           \A l \in acquired[o] \cup Got(o) : holder'[l] = holder[l] /\ ttl'[l] = ttl[l]
    PROVE  Working(o)'
<1>1. /\ \A l \in LockId : ttl[l] \in Int
      /\ faults \in Nat /\ MaxFaults \in Nat /\ period[o] \in Nat /\ timer[o] \in Nat
      /\ \A t \in Thread : call[o][t] = Idle \/ call[o][t].attempt \in Nat
      /\ acquired[o] \subseteq LockId
  BY Numbers, SuiteLockingAssumption DEF TypeOK, CallTypeOK, Call, CallState, ClientTypeOK
<1>2. \A t \in Beats : call'[o][t] = call[o][t] /\ t \in Thread
  BY BeatIsThread
<1>3. Sound(o)'
  <2>1. \A t \in Beats : Beat(o, t)'
    BY <1>1, <1>2 DEF Working, Sound, Beat
  <2>2. Job(o)'
    BY <1>2 DEF Working, Sound, Job
  <2>. QED  BY <2>1, <2>2 DEF Working, Sound
<1>4. JustGranted(o)'
  <2>1. Got(o)' = Got(o) /\ call'[o][Main] = call[o][Main]
    BY MainIsThread DEF Got
  <2>. QED  BY <2>1 DEF Working, JustGranted, Fresh
<1>5. Backed(o)'
  <2>. SUFFICES ASSUME NEW l \in acquired[o] PROVE holder'[l] = o /\ Covered(o, l)'
    BY DEF Backed
  <2>1. holder[l] = o /\ Covered(o, l) /\ l \in LockId
    BY <1>1 DEF Working, Backed
  <2>2. Covered(o, l)'
    BY <1>1, <1>2, <2>1 DEF Covered, Spare
  <2>. QED  BY <2>1, <2>2
<1>. QED  BY <1>3, <1>4, <1>5 DEF Working

\* Only Main's call changes, and it has not just been granted a lock.
LEMMA MainFrame ==
    ASSUME TypeOK, NEW o \in Owner, Working(o), acquired'[o] = acquired[o],
           main'[o] = "running" => main[o] = "running",
           job'[o] = job[o], period'[o] = period[o], timer'[o] = timer[o],
           \A t \in Beats : call'[o][t] = call[o][t],
           call'[o][Main].at = "ok" => JustGranted(o)',
           \A m \in net' : m.owner = o => m.op # "release",
           faults' = faults \/ faults' = faults + 1,
           \A l \in acquired[o] : holder'[l] = holder[l] /\ ttl'[l] = ttl[l]
    PROVE  Working(o)'
<1>1. /\ \A l \in LockId : ttl[l] \in Int
      /\ faults \in Nat /\ MaxFaults \in Nat /\ period[o] \in Nat /\ timer[o] \in Nat
      /\ \A t \in Beats : call[o][t] = Idle \/ call[o][t].attempt \in Nat
      /\ acquired[o] \subseteq LockId
  BY Numbers, BeatIsThread, SuiteLockingAssumption
     DEF TypeOK, CallTypeOK, Call, CallState, ClientTypeOK
<1>2. Sound(o)'
  <2>1. \A t \in Beats : Beat(o, t)'
    BY <1>1 DEF Working, Sound, Beat
  <2>2. Job(o)'
    BY DEF Working, Sound, Job
  <2>. QED  BY <2>1, <2>2 DEF Working, Sound
<1>3. JustGranted(o)'
  BY DEF JustGranted, Got
<1>4. Backed(o)'
  <2>. SUFFICES ASSUME NEW l \in acquired[o] PROVE holder'[l] = o /\ Covered(o, l)'
    BY DEF Backed
  <2>1. holder[l] = o /\ Covered(o, l) /\ l \in LockId
    BY <1>1 DEF Working, Backed
  <2>2. Covered(o, l)'
    BY <1>1, <2>1 DEF Covered, Spare
  <2>. QED  BY <2>1, <2>2
<1>. QED  BY <1>2, <1>3, <1>4 DEF Working

\* Only the call of one heartbeat changes, or the timer.
LEMMA BeatFrame ==
    ASSUME TypeOK, NEW o \in Owner, Working(o), NEW t \in Beats, main'[o] = main[o],
           acquired'[o] = acquired[o], acquired[o] # {},
           job'[o] = job[o], period'[o] = period[o], timer'[o] <= period[o],
           \A u \in Thread : u # t => call'[o][u] = call[o][u], Beat(o, t)',
           \A m \in net' : m.owner = o => m.op # "release",
           faults' = faults \/ faults' = faults + 1,
           \A l \in Got(o) : holder'[l] = holder[l] /\ Fresh(l)',
           \A l \in acquired[o] : holder'[l] = holder[l] /\ Covered(o, l)'
    PROVE  Working(o)'
<1>1. /\ faults \in Nat /\ \A u \in Beats : call[o][u] = Idle \/ call[o][u].attempt \in Nat
      /\ call'[o][Main] = call[o][Main]
  BY Numbers, BeatIsThread, MainIsThread DEF TypeOK, CallTypeOK, Call, CallState
<1>2. Sound(o)'
  <2>1. ASSUME NEW u \in Beats PROVE Beat(o, u)'
    <3>1. CASE u = t
      BY <3>1
    <3>2. CASE u # t
      <4>1. call'[o][u] = call[o][u] /\ Beat(o, u)
        BY <3>2, BeatIsThread DEF Working, Sound
      <4>. QED  BY <1>1, <4>1 DEF Beat
    <3>. QED  BY <3>1, <3>2
  <2>2. Job(o)'
    BY DEF Working, Sound, Job
  <2>. QED  BY <2>1, <2>2 DEF Working, Sound
<1>3. JustGranted(o)'
  BY <1>1 DEF Working, JustGranted, Got
<1>4. Backed(o)'
  BY DEF Working, Backed
<1>. QED  BY <1>2, <1>3, <1>4 DEF Working

\* Every call of a suite at work that sends a request.
LEMMA NoReleaseSent ==
    ASSUME TypeOK, NEW o \in Owner, Sound(o), NEW t \in Thread, NEW op, op # "release",
           NEW ids, NEW n, Attempt(o, t, op, ids, n)
    PROVE  \A m \in net' : m.owner = o => m.op # "release"
BY DEF Attempt, Sound

-----------------------------------------------------------------------------
(* The suite's own steps that leave it at work. *)

LEMMA BeginWorks ==
    ASSUME TypeOK, NEW o \in Owner, Working(o), Begin(o)
    PROVE  Working(o)'
<1>1. /\ Attempt(o, Main, "acquire", {NextId(o, {})}, 1)
      /\ UNCHANGED <<storageVars, acquired, job, period, timer, faults>>
      /\ main' = [main EXCEPT ![o] = "locking"]
  BY DEF Begin, Invoke
<1>2. /\ call'[o][Main].at = "await"
      /\ \A t \in Beats : call'[o][t] = call[o][t]
  BY <1>1, MainIsThread, BeatIsThread DEF Attempt, TypeOK, CallTypeOK
<1>3. \A m \in net' : m.owner = o => m.op # "release"
  BY <1>1, MainIsThread, NoReleaseSent DEF Working
<1>4. main'[o] = "locking"
  BY <1>1 DEF TypeOK, ClientTypeOK
<1>. QED  BY <1>1, <1>2, <1>3, <1>4, MainFrame DEF storageVars

LEMMA RefusedWorks ==
    ASSUME TypeOK, NEW o \in Owner, Working(o), Refused(o)
    PROVE  Working(o)'
<1>1. /\ Attempt(o, Main, "acquire", call[o][Main].ids, 1)
      /\ UNCHANGED <<storageVars, main, acquired, job, period, timer, faults>>
  BY DEF Refused, Invoke, clientVars
<1>2. /\ call'[o][Main].at = "await"
      /\ \A t \in Beats : call'[o][t] = call[o][t]
  BY <1>1, MainIsThread, BeatIsThread DEF Attempt, TypeOK, CallTypeOK
<1>3. \A m \in net' : m.owner = o => m.op # "release"
  BY <1>1, MainIsThread, NoReleaseSent DEF Working
<1>. QED  BY <1>1, <1>2, <1>3, MainFrame DEF storageVars

LEMMA SkippedWorks ==
    ASSUME Prompt, TypeOK, NEW o \in Owner, Working(o), HeartbeatSkipped(o)
    PROVE  Working(o)'
<1>1. /\ UNCHANGED <<holder, ttl, main, acquired, job, period, call, net, faults>>
      /\ timer' = [timer EXCEPT ![o] = period[o]]
      /\ \A t \in Beats : call[o][t] # Idle
      /\ job[o] = "on" /\ timer[o] = 0
  BY DEF HeartbeatSkipped, storageVars, Due
<1>2. PICK t \in Beats : TRUE
  BY DEF Prompt
<1>3. /\ acquired[o] # {} /\ timer'[o] = period[o] /\ period[o] \in Nat
  BY <1>1, Numbers DEF TypeOK, ClientTypeOK, Working, Sound, Job
<1>4. \A u \in Beats : call[o][u].at # "idle"
  BY <1>1 DEF Working, Sound, Beat
<1>5. ASSUME NEW l \in acquired[o]  PROVE Covered(o, l)'
  <2>1. Covered(o, l) /\ ttl[l] \in Int /\ Spare \in Nat
    BY Numbers DEF Working, Backed, TypeOK, ClientTypeOK
  <2>2. (\A u \in Beats : call[o][u].at \in {"idle", "ok"}) => ttl[l] >= period[o] + Spare
    BY <1>2, <1>4, <2>1 DEF Covered
  <2>. QED  BY <1>1, <1>3, <2>1, <2>2 DEF Covered, Spare
<1>6. Beat(o, t)' /\ \A l \in Got(o) : Fresh(l)'
  BY <1>1 DEF Working, Sound, Beat, JustGranted, Fresh
<1>7. \A m \in net' : m.owner = o => m.op # "release"
  BY <1>1 DEF Working, Sound
<1>. QED  BY <1>1, <1>3, <1>5, <1>6, <1>7, BeatFrame

LEMMA BackoffWorks ==
    ASSUME TypeOK, NEW o \in Owner, Working(o), NEW t \in Thread, Backoff(o, t)
    PROVE  Working(o)'
<1>1. /\ UNCHANGED <<holder, ttl, main, acquired, job, period, timer, net, faults>>
      /\ call[o][t].at = "error"
      /\ \A u \in Thread : u # t => call'[o][u] = call[o][u]
  BY DEF Backoff, storageVars, clientVars, TypeOK, CallTypeOK
<1>2. /\ call'[o][t].at = "sleep" /\ call'[o][t].op = call[o][t].op
      /\ call'[o][t].ids = call[o][t].ids /\ call'[o][t].attempt = call[o][t].attempt
  BY DEF Backoff, TypeOK, CallTypeOK, Call, CallState
<1>3. \A m \in net' : m.owner = o => m.op # "release"
  BY <1>1 DEF Working, Sound
<1>4. CASE t = Main
  BY <1>1, <1>2, <1>3, <1>4, BeatIsThread, MainFrame
<1>5. CASE t \in Beats
  <2>1. Beat(o, t) /\ call[o][t] # Idle
    BY <1>1, <1>5 DEF Working, Sound, Idle
  <2>2. Beat(o, t)'
    BY <1>1, <1>2, <2>1 DEF Beat
  <2>3. acquired[o] # {} /\ timer[o] <= period[o]
    BY <1>5, <2>1 DEF Working, Sound, Job
  <2>4. ASSUME NEW l \in acquired[o]  PROVE Covered(o, l)'
    BY <1>1, <1>2, <1>5, BeatIsThread DEF Working, Backed, Covered, Spare
  <2>5. \A l \in Got(o) : Fresh(l)'
    BY <1>1 DEF Working, JustGranted, Fresh
  <2>. QED  BY <1>1, <1>3, <1>5, <2>2, <2>3, <2>4, <2>5, BeatFrame
<1>. QED  BY <1>4, <1>5 DEF Thread

LEMMA RetryWorks ==
    ASSUME IInv, NEW o \in Owner, AtWork(o), Working(o), NEW t \in Thread, Retry(o, t)
    PROVE  Working(o)'
<1>. USE DEF IInv
<1>. DEFINE c == call[o][t]
<1>1. /\ UNCHANGED <<holder, ttl, main, acquired, job, period, timer, faults>>
      /\ c.at = "wake" /\ Attempt(o, t, c.op, c.ids, c.attempt + 1)
  BY DEF Retry, storageVars, clientVars
<1>2. /\ call'[o][t] = [op |-> c.op, ids |-> c.ids, attempt |-> c.attempt + 1,
                        at |-> "await", life |-> 0]
      /\ \A u \in Thread : u # t => call'[o][u] = call[o][u]
  BY <1>1 DEF Attempt, TypeOK, CallTypeOK
<1>3. /\ call'[o][t].op = c.op /\ call'[o][t].ids = c.ids /\ call'[o][t].at = "await"
      /\ call'[o][t].attempt = c.attempt + 1 /\ c.attempt \in Nat /\ c.op # "none"
  BY <1>1, <1>2 DEF TypeOK, CallTypeOK, Call, CallState
<1>. HIDE DEF c
<1>4. CASE t = Main
  <2>1. c.op # "release"
    BY <1>3, <1>4 DEF AtWork, LocksInOrder, c
  <2>2. \A m \in net' : m.owner = o => m.op # "release"
    BY <1>1, <2>1, NoReleaseSent DEF Working
  <2>. QED  BY <1>1, <1>2, <1>3, <1>4, <2>2, BeatIsThread, MainFrame
<1>5. CASE t \in Beats
  <2>1. Beat(o, t) /\ call[o][t] # Idle
    BY <1>1, <1>5 DEF Working, Sound, Idle, c
  <2>2. c.op = "keepAlive" /\ c.ids = Wants[o] /\ c.attempt <= faults
    BY <1>1, <2>1 DEF Beat, c
  <2>3. Beat(o, t)'
    BY <1>1, <1>3, <2>2, Numbers DEF Beat
  <2>4. acquired[o] # {} /\ timer[o] <= period[o]
    BY <1>5, <2>1 DEF Working, Sound, Job
  <2>5. ASSUME NEW l \in acquired[o]  PROVE Covered(o, l)'
    BY <1>1, <1>2, <1>3, <1>5, BeatIsThread DEF Working, Backed, Covered, Spare, c
  <2>6. \A l \in Got(o) : Fresh(l)'
    BY <1>1 DEF Working, JustGranted, Fresh
  <2>7. \A m \in net' : m.owner = o => m.op # "release"
    BY <1>1, <2>2, NoReleaseSent DEF Working
  <2>. QED  BY <1>1, <1>2, <1>5, <2>3, <2>4, <2>5, <2>6, <2>7, BeatFrame
<1>. QED  BY <1>4, <1>5 DEF Thread

LEMMA HeartbeatWorks ==
    ASSUME Prompt, TypeOK, NEW o \in Owner, Working(o), NEW t \in Beats, Heartbeat(o, t)
    PROVE  Working(o)'
<1>1. /\ UNCHANGED <<holder, ttl, main, acquired, job, period, faults>>
      /\ job[o] = "on" /\ timer[o] = 0 /\ call[o][t] = Idle
      /\ timer' = [timer EXCEPT ![o] = period[o]] /\ Attempt(o, t, "keepAlive", Wants[o], 1)
  BY DEF Prompt, Heartbeat, Invoke, Due, storageVars
<1>2. /\ call'[o][t] = [op |-> "keepAlive", ids |-> Wants[o], attempt |-> 1,
                        at |-> "await", life |-> 0]
      /\ \A u \in Thread : u # t => call'[o][u] = call[o][u]
  BY <1>1, BeatIsThread DEF Attempt, TypeOK, CallTypeOK
<1>3. /\ call'[o][t].op = "keepAlive" /\ call'[o][t].ids = Wants[o]
      /\ call'[o][t].at = "await" /\ call'[o][t].attempt = 1
  BY <1>2
<1>4. acquired[o] # {} /\ timer'[o] = period[o] /\ period[o] \in Nat
  BY <1>1, Numbers DEF Working, Sound, Job, TypeOK, ClientTypeOK
<1>5. Beat(o, t)'
  BY <1>1, <1>3, Numbers DEF Beat
<1>6. ASSUME NEW l \in acquired[o]  PROVE Covered(o, l)'
  <2>1. l \in LockId /\ Covered(o, l)
    BY DEF Working, Backed, TypeOK, ClientTypeOK
  <2>2. ttl[l] >= Spare
    BY <2>1, CoveredLive DEF Working, Sound
  <2>. QED  BY <1>1, <1>2, <1>3, <2>1, <2>2, BeatIsThread DEF Covered, Spare
<1>7. \A l \in Got(o) : Fresh(l)'
  BY <1>1 DEF Working, JustGranted, Fresh
<1>8. \A m \in net' : m.owner = o => m.op # "release"
  BY <1>1, BeatIsThread, NoReleaseSent DEF Working
<1>. QED  BY <1>1, <1>2, <1>4, <1>5, <1>6, <1>7, <1>8, BeatFrame

LEMMA HeartbeatReturnsWorks ==
    ASSUME TypeOK, NEW o \in Owner, Working(o), NEW t \in Beats, HeartbeatReturns(o, t)
    PROVE  Working(o)'
<1>1. /\ UNCHANGED <<holder, ttl, main, acquired, job, period, timer, net, faults>>
      /\ call[o][t].at = "ok" /\ call'[o][t] = Idle
      /\ \A u \in Thread : u # t => call'[o][u] = call[o][u]
  BY BeatIsThread
     DEF HeartbeatReturns, Succeeds, Return, storageVars, clientVars, TypeOK, CallTypeOK
<1>2. Beat(o, t)' /\ call'[o][t].at = "idle" /\ call[o][t] # Idle
  BY <1>1 DEF Beat, Idle
<1>3. acquired[o] # {} /\ timer[o] <= period[o]
  BY <1>2 DEF Working, Sound, Job
<1>4. ASSUME NEW l \in acquired[o]  PROVE Covered(o, l)'
  <2>1. Covered(o, l)
    BY DEF Working, Backed
  <2>2. (\A u \in Beats : call'[o][u].at \in {"idle", "ok"}) =>
            \A u \in Beats : call[o][u].at \in {"idle", "ok"}
    BY <1>1, BeatIsThread
  <2>. QED  BY <1>1, <1>2, <2>1, <2>2, BeatIsThread DEF Covered, Spare
<1>5. \A l \in Got(o) : Fresh(l)'
  BY <1>1 DEF Working, JustGranted, Fresh
<1>6. \A m \in net' : m.owner = o => m.op # "release"
  BY <1>1 DEF Working, Sound
<1>. QED  BY <1>1, <1>2, <1>3, <1>4, <1>5, <1>6, BeatFrame

\* With fewer faults than attempts no heartbeat fails for good.
LEMMA HeartbeatsHold ==
    ASSUME Prompt, TypeOK, NEW o \in Owner, Sound(o), NEW t \in Beats
    PROVE  ~HeartbeatFails(o, t) /\ ~UnhandledRejection(o, t)
<1>1. Beat(o, t) /\ faults < Retries
  BY Numbers, SuiteLockingAssumption DEF Sound, Prompt
<1>. QED
  BY <1>1, Numbers, SuiteLockingAssumption
     DEF Beat, Idle, HeartbeatFails, UnhandledRejection, Fails

LEMMA GrantedWorks ==
    ASSUME Prompt, IInv, TypeOK', NEW o \in Owner, Working(o), Granted(o)
    PROVE  Working(o)'
<1>. USE DEF IInv
<1>. DEFINE c == call[o][Main]
            got == acquired[o] \cup c.ids
<1>1. /\ main[o] = "locking" /\ c.at = "ok" /\ StartJob(o, c.life)
      /\ acquired' = [acquired EXCEPT ![o] = got] /\ UNCHANGED <<holder, ttl, faults>>
      /\ \/ got = Wants[o] /\ main' = [main EXCEPT ![o] = "running"] /\ Return(o, Main)
         \/ main' = main /\ Attempt(o, Main, "acquire", {NextId(o, got)}, 1)
  BY DEF Granted, Succeeds, Invoke, storageVars
<1>2. /\ Got(o) = c.ids /\ c.life \in Leases
      /\ \A l \in c.ids : holder[l] = o /\ Fresh(l) /\ l \in LockId
  BY <1>1, MainIsThread
     DEF Working, JustGranted, Got, TypeOK, CallTypeOK, Call, CallState
<1>3. c.ids # {} /\ acquired[o] \subseteq LockId /\ acquired'[o] = got
  BY <1>1 DEF LocksInOrder, TypeOK, ClientTypeOK
<1>4. /\ \A t \in Beats : call'[o][t] = call[o][t]
      /\ call'[o][Main].at # "ok"
  BY <1>1, MainIsThread, BeatIsThread DEF Attempt, Return, TypeOK, CallTypeOK, Idle
<1>5. \A m \in net' : m.owner = o => m.op # "release"
  <2>1. CASE Return(o, Main)
    BY <2>1 DEF Return, Working, Sound
  <2>2. CASE Attempt(o, Main, "acquire", {NextId(o, got)}, 1)
    BY <2>2, MainIsThread, NoReleaseSent DEF Working
  <2>. QED  BY <1>1, <2>1, <2>2
<1>. HIDE DEF got, c
<1>6. /\ job'[o] = "on" /\ timer'[o] <= period'[o]
      /\ \E life \in Leases : period'[o] = HeartbeatFrequency(life)
      /\ acquired[o] # {} => period'[o] = period[o] /\ timer'[o] = timer[o]
  <2>1. CASE acquired[o] = {}
    <3>1. job[o] = "none"
      BY <2>1 DEF Working, Sound, Job
    <3>2. /\ job'[o] = "on" /\ period'[o] = HeartbeatFrequency(c.life)
          /\ timer'[o] = HeartbeatFrequency(c.life)
      BY <1>1, <3>1 DEF StartJob, TypeOK, ClientTypeOK
    <3>. QED  BY <1>2, <2>1, <3>2, LeaseLength
  <2>2. CASE acquired[o] # {}
    BY <1>1, <2>2 DEF StartJob, Working, Sound, Job
  <2>. QED  BY <2>1, <2>2
<1>7. acquired'[o] # {} /\ (main'[o] = "running" => acquired'[o] = Wants[o])
  BY <1>1, <1>3 DEF got, TypeOK, ClientTypeOK
<1>8. Sound(o)'
  <2>1. \A t \in Beats : Beat(o, t)'
    BY <1>1, <1>4 DEF Working, Sound, Beat
  <2>. QED  BY <1>5, <1>6, <1>7, <2>1 DEF Sound, Job
<1>9. JustGranted(o)'
  BY <1>4 DEF JustGranted, Got
<1>10. Backed(o)'
  <2>. SUFFICES ASSUME NEW l \in got PROVE holder'[l] = o /\ Covered(o, l)'
    BY <1>3 DEF Backed
  <2>1. CASE l \in acquired[o]
    <3>1. holder[l] = o /\ Covered(o, l)
      BY <2>1 DEF Working, Backed
    <3>. QED  BY <1>1, <1>4, <1>6, <2>1, <3>1 DEF Covered, Spare
  <2>2. CASE l \in c.ids
    <3>1. holder[l] = o /\ Fresh(l) /\ l \in LockId
      BY <1>2, <2>2
    <3>2. PICK life \in Leases : period'[o] = HeartbeatFrequency(life)
      BY <1>6
    <3>3. ttl'[l] >= period'[o] + MaxFaults /\ period'[o] >= 1
      BY <1>1, <3>1, <3>2, LeaseLength, Numbers, LockStorageAssumption, SuiteLockingAssumption
         DEF Fresh
    <3>. QED  BY <1>1, <1>6, <3>1, <3>3, FullCovers
  <2>. QED  BY <2>1, <2>2 DEF got
<1>. QED  BY <1>8, <1>9, <1>10 DEF Working

LEMMA ClientWorks ==
    ASSUME Prompt, IInv, TypeOK', NEW o \in Owner, AtWork(o), Working(o), Client(o),
           AtWork(o)'
    PROVE  Working(o)'
<1>. USE DEF IInv
<1>1. ~(AcquireFails(o) \/ TestEnds(o) \/ ReleaseReturns(o))
  BY DEF AtWork, AcquireFails, TestEnds, ReleaseReturns, TypeOK, ClientTypeOK
<1>2. \A t \in Beats : ~HeartbeatFails(o, t) /\ ~UnhandledRejection(o, t)
  BY HeartbeatsHold DEF Working
<1>. QED
  BY <1>1, <1>2, BeginWorks, GrantedWorks, RefusedWorks, SkippedWorks, BackoffWorks,
     RetryWorks, HeartbeatWorks, HeartbeatReturnsWorks DEF Client

\* The steps of a suite and the other suites.
LEMMA ClientFrame ==
    ASSUME TypeOK, NEW p \in Owner, Client(p) \/ Crash(p), NEW o \in Owner, o # p
    PROVE  /\ main'[o] = main[o] /\ acquired'[o] = acquired[o] /\ job'[o] = job[o]
           /\ period'[o] = period[o] /\ timer'[o] = timer[o]
           /\ \A t \in Thread : call'[o][t] = call[o][t]
           /\ \A m \in net' : m.owner = o => m \in net
           /\ faults' = faults \/ faults' = faults + 1
           /\ UNCHANGED storageVars
<1>. USE DEF TypeOK, ClientTypeOK, CallTypeOK
<1>1. ASSUME NEW t \in Thread, NEW op, NEW ids, NEW n, Attempt(p, t, op, ids, n)
      PROVE  /\ \A u \in Thread : call'[o][u] = call[o][u]
             /\ \A m \in net' : m.owner = o => m \in net
  BY <1>1 DEF Attempt
<1>2. ASSUME NEW t \in Thread, Return(p, t)
      PROVE  /\ \A u \in Thread : call'[o][u] = call[o][u]
             /\ \A m \in net' : m.owner = o => m \in net
  BY <1>2 DEF Return
<1>3. ASSUME ClearJob(p)
      PROVE  job'[o] = job[o] /\ period'[o] = period[o] /\ timer'[o] = timer[o]
  BY <1>3 DEF ClearJob
<1>4. ASSUME NEW how, Stop(p, how)
      PROVE  /\ main'[o] = main[o] /\ acquired'[o] = acquired[o] /\ job'[o] = job[o]
             /\ period'[o] = period[o] /\ timer'[o] = timer[o]
             /\ \A u \in Thread : call'[o][u] = call[o][u]
             /\ \A m \in net' : m.owner = o => m \in net
  <2>1. ClearJob(p)
    BY <1>4 DEF Stop
  <2>2. \A m \in net' : m.owner = o => m \in net
    BY <1>4, StopEffect
  <2>. QED  BY <1>3, <1>4, <2>1, <2>2 DEF Stop
<1>5. CASE Begin(p)
  BY <1>1, <1>5, MainIsThread DEF Begin, Invoke
<1>6. CASE Granted(p)
  <2>1. job'[o] = job[o] /\ period'[o] = period[o] /\ timer'[o] = timer[o]
    BY <1>6 DEF Granted, StartJob
  <2>2. Return(p, Main) \/ \E ids : Attempt(p, Main, "acquire", ids, 1)
    BY <1>6 DEF Granted, Invoke
  <2>. QED  BY <1>1, <1>2, <1>6, <2>1, <2>2, MainIsThread DEF Granted
<1>7. CASE Refused(p)
  BY <1>1, <1>7, MainIsThread DEF Refused, Invoke, clientVars
<1>8. CASE AcquireFails(p)
  <2>1. job'[o] = job[o] /\ period'[o] = period[o] /\ timer'[o] = timer[o]
    BY <1>3, <1>8 DEF AcquireFails
  <2>2. Return(p, Main) \/ \E ids : Attempt(p, Main, "release", ids, 1)
    BY <1>8 DEF AcquireFails, Invoke
  <2>. QED  BY <1>1, <1>2, <1>8, <2>1, <2>2, MainIsThread DEF AcquireFails
<1>9. CASE TestEnds(p)
  BY <1>1, <1>3, <1>9, MainIsThread DEF TestEnds, Invoke
<1>10. CASE ReleaseReturns(p)
  BY <1>2, <1>10, MainIsThread DEF ReleaseReturns
<1>11. CASE HeartbeatSkipped(p)
  BY <1>11 DEF HeartbeatSkipped
<1>12. ASSUME NEW t \in Thread, Backoff(p, t)
       PROVE  UNCHANGED <<clientVars, storageVars, net, faults>> /\ call'[o] = call[o]
  BY <1>12 DEF Backoff
<1>13. ASSUME NEW t \in Thread, Retry(p, t)
       PROVE  /\ UNCHANGED <<clientVars, storageVars, faults>>
              /\ \A u \in Thread : call'[o][u] = call[o][u]
              /\ \A m \in net' : m.owner = o => m \in net
  BY <1>1, <1>13 DEF Retry
<1>14. ASSUME NEW t \in Beats, Heartbeat(p, t) \/ HeartbeatFails(p, t)
       PROVE  /\ UNCHANGED <<main, acquired, storageVars, faults>>
              /\ job'[o] = job[o] /\ period'[o] = period[o] /\ timer'[o] = timer[o]
              /\ \A u \in Thread : call'[o][u] = call[o][u]
              /\ \A m \in net' : m.owner = o => m \in net
  <2>1. job'[o] = job[o] /\ period'[o] = period[o] /\ timer'[o] = timer[o]
    BY <1>3, <1>14 DEF Heartbeat, HeartbeatFails
  <2>2. \E op : Attempt(p, t, op, Wants[p], 1)
    BY <1>14 DEF Heartbeat, HeartbeatFails, Invoke
  <2>. QED  BY <1>1, <1>14, <2>1, <2>2, BeatIsThread DEF Heartbeat, HeartbeatFails
<1>15. ASSUME NEW t \in Beats, HeartbeatReturns(p, t)
       PROVE  /\ UNCHANGED <<clientVars, storageVars, faults>>
              /\ \A u \in Thread : call'[o][u] = call[o][u]
              /\ \A m \in net' : m.owner = o => m \in net
  BY <1>2, <1>15, BeatIsThread DEF HeartbeatReturns
<1>16. CASE Crash(p) \/ \E t \in Beats : UnhandledRejection(p, t)
  BY <1>4, <1>16 DEF Crash, UnhandledRejection, Fault
<1>. QED
  BY <1>5, <1>6, <1>7, <1>8, <1>9, <1>10, <1>11, <1>12, <1>13, <1>14, <1>15, <1>16
     DEF Client, clientVars

-----------------------------------------------------------------------------
(* The service *)

\* A request of another suite: a live lease is not granted again, and
\* keepAlive and release touch only the rows of their own suite.
LEMMA ForeignRows ==
    ASSUME Prompt, IInv, NEW m \in net, Serve(m), NEW o \in Owner, Working(o)
    PROVE  /\ \A l \in acquired[o] \cup Got(o) :
                 /\ m.op = "acquire" \/ m.owner # o =>
                       holder'[l] = holder[l] /\ ttl'[l] = ttl[l]
                 /\ m.op = "keepAlive" => holder'[l] = holder[l]
<1>. USE DEF IInv
<1>. SUFFICES ASSUME NEW l \in acquired[o] \cup Got(o)
             PROVE  /\ m.op = "acquire" \/ m.owner # o =>
                          holder'[l] = holder[l] /\ ttl'[l] = ttl[l]
                    /\ m.op = "keepAlive" => holder'[l] = holder[l]
  OBVIOUS
<1>1. /\ l \in LockId /\ holder[l] = o /\ ttl[l] >= 0 /\ ttl[l] \in Int
      /\ o # NoOwner
  BY CountsOn, Numbers, LockStorageAssumption
<1>2. CASE ServeAcquire(m)
  <2>1. PICK age \in 0 .. m.age, k \in m.ids : GrantRow(m.owner, k, age) \/ RefuseRow(k, age)
    BY <1>2 DEF ServeAcquire
  <2>2. CASE GrantRow(m.owner, k, age)
    <3>1. l # k
      BY <1>1, <2>2 DEF GrantRow, Grantable
    <3>. QED  BY <1>1, <1>2, <2>2, <3>1 DEF GrantRow, TypeOK, StorageTypeOK, ServeAcquire
  <2>. QED  BY <1>2, <2>1, <2>2 DEF RefuseRow, storageVars, ServeAcquire
<1>3. CASE ServeKeepAlive(m)
  BY <1>1, <1>3 DEF ServeKeepAlive, RenewRows, OwnRows
<1>4. CASE ServeRelease(m)
  BY <1>1, <1>4 DEF ServeRelease, DeleteRows, OwnRows
<1>. QED  BY <1>2, <1>3, <1>4 DEF Serve

LEMMA ServeOthers ==
    ASSUME Prompt, IInv, NEW m \in net, Serve(m), NEW o \in Owner, Working(o),
           \A t \in Thread : call'[o][t] = call[o][t], net' \subseteq net,
           m.op = "acquire" \/ m.owner # o
    PROVE  Working(o)'
<1>1. /\ main'[o] = main[o] /\ acquired'[o] = acquired[o] /\ job'[o] = job[o]
      /\ period'[o] = period[o] /\ timer'[o] = timer[o] /\ faults' = faults
  BY DEF Serve, clientVars
<1>2. \A l \in acquired[o] \cup Got(o) : holder'[l] = holder[l] /\ ttl'[l] = ttl[l]
  BY ForeignRows
<1>. QED  BY <1>1, <1>2, WorkFrame DEF IInv

\* Its own acquire.
LEMMA ServeAcquireWorks ==
    ASSUME Prompt, IInv, NEW m \in net, Serve(m), ServeAcquire(m), NEW o \in Owner, AtWork(o),
           Working(o), m.owner = o
    PROVE  Working(o)'
<1>. USE DEF IInv
<1>1. PICK age \in 0 .. m.age, l \in m.ids :
          \/ GrantRow(o, l, age) /\ Answer(m, "ok", Expiry - age)
          \/ RefuseRow(l, age) /\ Answer(m, "refused", 0)
  BY DEF ServeAcquire
<1>2. PICK how \in {"ok", "refused"}, life \in Int :
          /\ Answer(m, how, life)
          /\ how = "ok" => GrantRow(o, l, age) /\ life = Expiry - age
  BY <1>1, LockStorageAssumption
<1>3. /\ m.thread \in Thread /\ net' = net \ {m} /\ m.op = "acquire"
      /\ \A p \in Owner, u \in Thread : ~(p = o /\ u = m.thread) => call'[p][u] = call[p][u]
      /\ \/ m.live
         \/ call'[o][m.thread] = call[o][m.thread]
      /\ m.live => /\ call'[o][m.thread].ids = call[o][m.thread].ids
                   /\ call'[o][m.thread].at = how
                   /\ call'[o][m.thread].life = life
  BY <1>2, AnswerEffect DEF TypeOK, ServeAcquire
<1>4. CASE ~m.live
  BY <1>3, <1>4, ServeOthers
<1>5. CASE m.live
  <2>1. call[o][m.thread].op = "acquire" /\ call[o][m.thread].ids = m.ids
    BY <1>3, <1>5 DEF LiveRequests
  <2>2. m.thread = Main
    BY <1>3, <2>1 DEF Working, Sound, Beat, Idle, Thread
  <2>3. main[o] = "locking" /\ m.ids = {l}
    BY <1>1, <2>1, <2>2 DEF AtWork, LocksInOrder
  <2>4. /\ main'[o] = main[o] /\ acquired'[o] = acquired[o] /\ job'[o] = job[o]
        /\ period'[o] = period[o] /\ timer'[o] = timer[o] /\ faults' = faults
    BY DEF Serve, clientVars
  <2>5. \A k \in acquired[o] : holder'[k] = holder[k] /\ ttl'[k] = ttl[k]
    BY <1>3, ForeignRows
  <2>6. ASSUME call'[o][Main].at = "ok"  PROVE JustGranted(o)'
    <3>1. how = "ok" /\ call'[o][Main].life = Expiry - age /\ call'[o][Main].ids = {l}
      BY <1>2, <1>3, <1>5, <2>1, <2>2, <2>3, <2>6
    <3>2. age \in 0 .. DbDelay /\ l \in LockId
      BY <2>3, LockStorageAssumption DEF TypeOK, NetTypeOK, Request, Age
    <3>3. holder'[l] = o /\ ttl'[l] = Expiry - age
      BY <1>2, <3>1, <3>2 DEF GrantRow, TypeOK, StorageTypeOK
    <3>4. Fresh(l)' /\ Expiry - age \in Leases
      BY <3>2, <3>3, LockStorageAssumption DEF Fresh, Leases
    <3>. QED  BY <3>1, <3>3, <3>4 DEF JustGranted, Got
  <2>7. \A t \in Beats : call'[o][t] = call[o][t]
    BY <1>3, <2>2, BeatIsThread
  <2>8. \A n \in net' : n.owner = o => n.op # "release"
    BY <1>3 DEF Working, Sound
  <2>. QED  BY <2>4, <2>5, <2>6, <2>7, <2>8, MainFrame
<1>. QED  BY <1>4, <1>5

\* Its own keepAlive, awaited or given up.
LEMMA ServeKeepAliveWorks ==
    ASSUME Prompt, IInv, TypeOK', NEW m \in net, Serve(m), ServeKeepAlive(m), NEW o \in Owner,
           AtWork(o), Working(o), m.owner = o
    PROVE  Working(o)'
<1>. USE DEF IInv
<1>1. PICK age \in 0 .. m.age : RenewRows(o, m.ids, age)
  BY DEF ServeKeepAlive
<1>2. age \in 0 .. DbDelay
  BY LockStorageAssumption DEF TypeOK, NetTypeOK, Request, Age
<1>3. /\ main'[o] = main[o] /\ acquired'[o] = acquired[o] /\ job'[o] = job[o]
      /\ period'[o] = period[o] /\ timer'[o] = timer[o] /\ faults' = faults
  BY DEF Serve, clientVars
<1>4. /\ m.thread \in Thread /\ net' = net \ {m} /\ m.op = "keepAlive"
      /\ \A p \in Owner, u \in Thread : ~(p = o /\ u = m.thread) => call'[p][u] = call[p][u]
      /\ \/ m.live
         \/ call'[o][m.thread] = call[o][m.thread]
      /\ m.live =>
            /\ call'[o][m.thread].op = call[o][m.thread].op
            /\ call'[o][m.thread].ids = call[o][m.thread].ids
            /\ call'[o][m.thread].attempt = call[o][m.thread].attempt
            /\ call'[o][m.thread].at = Found(m)
  BY AnswerEffect DEF TypeOK, ServeKeepAlive
<1>5. \A n \in net' : n.owner = o => n.op # "release"
  BY <1>4 DEF Working, Sound
<1>6. \A l \in acquired[o] \cup Got(o) : l \in LockId /\ holder'[l] = holder[l] /\ holder[l] = o
  BY <1>4, ForeignRows, CountsOn
<1>7. \A l \in acquired[o] \cup Got(o) :
          ttl'[l] = IF l \in m.ids THEN RenewBy - age ELSE ttl[l]
  BY <1>1, <1>6 DEF RenewRows, OwnRows
<1>8. \A l \in Got(o) : Fresh(l)'
  BY <1>2, <1>6, <1>7, LockStorageAssumption DEF Fresh, Working, JustGranted
<1>9. ASSUME NEW l \in acquired[o], l \in m.ids  PROVE Covered(o, l)'
  <2>1. PICK life \in Leases : period[o] = HeartbeatFrequency(life)
    BY DEF Working, Sound, Job
  <2>2. timer[o] <= period[o]
    BY DEF Working, Sound, Job
  <2>3. ttl'[l] >= period[o] + MaxFaults /\ period[o] >= 1
    BY <1>2, <1>7, <1>9, <2>1, LeaseLength, Numbers, LockStorageAssumption,
       SuiteLockingAssumption
  <2>. QED  BY <1>3, <1>6, <2>2, <2>3, FullCovers
<1>10. CASE m.live
  <2>1. call[o][m.thread].op = "keepAlive" /\ call[o][m.thread].ids = m.ids
        /\ call[o][m.thread].at = "await"
    BY <1>4, <1>10 DEF LiveRequests
  <2>2. m.thread \in Beats
    BY <1>4, <2>1 DEF AtWork, LocksInOrder, Thread
  <2>3. Beat(o, m.thread) /\ call[o][m.thread] # Idle
    BY <2>1, <2>2 DEF Working, Sound, Idle
  <2>4. m.ids = Wants[o] /\ call[o][m.thread].attempt <= faults + 1
    BY <2>1, <2>3 DEF Beat
  <2>5. acquired[o] # {} /\ timer[o] <= period[o]
    BY <2>2, <2>3 DEF Working, Sound, Job
  <2>6. acquired[o] \subseteq m.ids
    BY <2>4 DEF LocksInOrder
  <2>7. Found(m) = "ok"
    BY <1>6, <2>5, <2>6 DEF Found, OwnRows
  <2>8. Beat(o, m.thread)'
    BY <1>3, <1>4, <1>10, <2>1, <2>4, <2>7 DEF Beat
  <2>9. \A u \in Thread : u # m.thread => call'[o][u] = call[o][u]
    BY <1>4
  <2>10. \A l \in acquired[o] : holder'[l] = holder[l] /\ Covered(o, l)'
    BY <1>6, <1>9, <2>6
  <2>11. \A l \in Got(o) : holder'[l] = holder[l] /\ Fresh(l)'
    BY <1>6, <1>8
  <2>. QED  BY <1>3, <1>5, <2>2, <2>5, <2>8, <2>9, <2>10, <2>11, BeatFrame
<1>11. CASE ~m.live
  <2>1. \A u \in Thread : call'[o][u] = call[o][u]
    BY <1>4, <1>11
  <2>2. JustGranted(o)'
    <3>1. Got(o)' = Got(o) /\ call'[o][Main] = call[o][Main]
      BY <1>3, <2>1, MainIsThread DEF Got
    <3>. QED  BY <1>3, <1>6, <1>8, <3>1 DEF Working, JustGranted
  <2>3. Backed(o)'
    <3>. SUFFICES ASSUME NEW l \in acquired[o] PROVE holder'[l] = o /\ Covered(o, l)'
      BY <1>3 DEF Backed
    <3>1. CASE l \in m.ids
      BY <1>6, <1>9, <3>1
    <3>2. CASE l \notin m.ids
      <4>1. Covered(o, l) /\ ttl'[l] = ttl[l]
        BY <1>7, <3>2 DEF Working, Backed
      <4>. QED  BY <1>3, <1>6, <2>1, <4>1, BeatIsThread DEF Covered, Spare
    <3>. QED  BY <3>1, <3>2
  <2>4. Sound(o)'
    <3>1. \A t \in Beats : call'[o][t] = call[o][t]
      BY <2>1, BeatIsThread
    <3>2. \A t \in Beats : Beat(o, t)'
      BY <1>3, <3>1 DEF Working, Sound, Beat
    <3>3. Job(o)'
      BY <1>3, <3>1 DEF Working, Sound, Job
    <3>. QED  BY <1>3, <1>5, <3>2, <3>3 DEF Working, Sound
  <2>. QED  BY <2>2, <2>3, <2>4 DEF Working
<1>. QED  BY <1>10, <1>11

LEMMA ServeWorks ==
    ASSUME Prompt, IInv, TypeOK', NEW m \in net, Serve(m), NEW o \in Owner, AtWork(o),
           Working(o)
    PROVE  Working(o)'
<1>. USE DEF IInv
<1>1. CASE m.owner # o
  <2>1. PICK how, life : Answer(m, how, life)
    BY DEF Serve, ServeAcquire, ServeKeepAlive, ServeRelease
  <2>2. net' \subseteq net /\ \A t \in Thread : call'[o][t] = call[o][t]
    <3>1. m.owner \in Owner
      BY DEF TypeOK, NetTypeOK, Request
    <3>. QED  BY <1>1, <2>1, <3>1 DEF Answer, TypeOK, CallTypeOK
  <2>. QED  BY <1>1, <2>2, ServeOthers
<1>2. CASE m.owner = o
  <2>1. ~ServeRelease(m)
    BY <1>2 DEF ServeRelease, Working, Sound
  <2>. QED  BY <1>2, <2>1, ServeAcquireWorks, ServeKeepAliveWorks DEF Serve
<1>. QED  BY <1>1, <1>2

-----------------------------------------------------------------------------
(* Faults *)

\* A call of the suite ends in an error.
LEMMA ErrorWorks ==
    ASSUME IInv, NEW o \in Owner, Working(o), NEW t \in Thread,
           call[o][t].at \in {"await", "ok", "refused"},
           call'[o][t].op = call[o][t].op, call'[o][t].ids = call[o][t].ids,
           call'[o][t].attempt = call[o][t].attempt, call'[o][t].at = "error",
           \A u \in Thread : u # t => call'[o][u] = call[o][u],
           UNCHANGED <<storageVars, clientVars>>, faults' = faults + 1, faults < MaxFaults,
           \A m \in net' : m.owner = o => \E n \in net : n.owner = o /\ n.op = m.op
    PROVE  Working(o)'
<1>. USE DEF IInv
<1>1. /\ UNCHANGED <<holder, ttl, main, acquired, job, period, timer>>
  BY DEF storageVars, clientVars
<1>2. \A m \in net' : m.owner = o => m.op # "release"
  BY DEF Working, Sound
<1>3. CASE t = Main
  BY <1>1, <1>2, <1>3, BeatIsThread, MainFrame
<1>4. CASE t \in Beats
  <2>1. Beat(o, t) /\ call[o][t] # Idle
    BY <1>4 DEF Working, Sound, Idle
  <2>2. /\ call[o][t].op = "keepAlive" /\ call[o][t].ids = Wants[o]
        /\ call[o][t].at \in {"await", "ok"} /\ call[o][t].attempt <= faults + 1
    BY <2>1 DEF Beat
  <2>3. Beat(o, t)'
    BY <2>2, Numbers DEF Beat
  <2>4. acquired[o] # {} /\ timer[o] <= period[o] /\ period[o] \in Nat /\ period[o] # 0
    <3>1. acquired[o] # {} /\ timer[o] <= period[o]
      BY <1>4, <2>1 DEF Working, Sound, Job
    <3>2. PICK life \in Leases : period[o] = HeartbeatFrequency(life)
      BY <3>1 DEF Working, Sound, Job
    <3>3. life \in Int
      BY LockStorageAssumption DEF Leases
    <3>4. period[o] # 0
      BY <3>2, <3>3, SuiteLockingAssumption DEF HeartbeatFrequency
    <3>. QED  BY <3>1, <3>4, Numbers
  <2>5. ASSUME NEW l \in acquired[o]  PROVE Covered(o, l)'
    <3>1. Covered(o, l) /\ ttl[l] \in Int
      BY Numbers DEF Working, Backed, TypeOK, ClientTypeOK
    <3>2. ttl[l] >= Spare
      BY <1>4, <2>2, <2>4, <3>1, Numbers DEF Covered
    <3>3. Spare' = Spare - 1 /\ Spare \in Nat
      BY Numbers DEF Spare
    <3>4. \A u \in Beats : u # t => call'[o][u] = call[o][u]
      BY BeatIsThread
    <3>. QED  BY <1>1, <1>4, <2>4, <3>1, <3>2, <3>3, <3>4 DEF Covered
  <2>6. \A l \in Got(o) : Fresh(l)'
    BY <1>1 DEF Working, JustGranted, Fresh
  <2>. QED  BY <1>1, <1>2, <1>4, <2>3, <2>4, <2>5, <2>6, BeatFrame
<1>. QED  BY <1>3, <1>4 DEF Thread

LEMMA NetworkWorks ==
    ASSUME IInv, Network, NEW o \in Owner, Working(o)
    PROVE  Working(o)'
<1>. USE DEF IInv
<1>1. faults' = faults + 1 /\ faults < MaxFaults /\ UNCHANGED <<storageVars, clientVars>>
  BY DEF Network, RequestLost, Abandoned, ReplyLost, Fault
<1>2. UNCHANGED <<holder, ttl, main, acquired, job, period, timer>>
  BY <1>1 DEF storageVars, clientVars
<1>3. ASSUME \A t \in Thread : call'[o][t] = call[o][t],
             \A m \in net' : m.owner = o => \E n \in net : n.owner = o /\ n.op = m.op
      PROVE  Working(o)'
  BY <1>1, <1>2, <1>3, WorkFrame
<1>4. ASSUME NEW m \in net, RequestLost(m)  PROVE Working(o)'
  <2>1. /\ m.owner \in Owner /\ m.thread \in Thread /\ net' = net \ {m} /\ m.live
        /\ \A p \in Owner, u \in Thread :
              ~(p = m.owner /\ u = m.thread) => call'[p][u] = call[p][u]
        /\ call'[m.owner][m.thread].op = call[m.owner][m.thread].op
        /\ call'[m.owner][m.thread].ids = call[m.owner][m.thread].ids
        /\ call'[m.owner][m.thread].attempt = call[m.owner][m.thread].attempt
        /\ call'[m.owner][m.thread].at = "error"
    <3>1. m.live /\ Answer(m, "error", 0)
      BY <1>4 DEF RequestLost
    <3>. QED  BY <3>1, AnswerEffect DEF TypeOK
  <2>2. \A n \in net' : n.owner = o => \E k \in net : k.owner = o /\ k.op = n.op
    BY <2>1
  <2>3. call[m.owner][m.thread].at = "await"
    BY <2>1 DEF LiveRequests
  <2>4. CASE m.owner = o
    BY <1>1, <2>1, <2>2, <2>3, <2>4, ErrorWorks
  <2>5. CASE m.owner # o
    BY <1>3, <2>1, <2>2, <2>5
  <2>. QED  BY <2>4, <2>5
<1>5. ASSUME NEW m \in net, Abandoned(m)  PROVE Working(o)'
  <2>1. /\ m.owner \in Owner /\ m.thread \in Thread /\ m.live /\ m \in Request
        /\ net' = (net \ {m}) \cup {[m EXCEPT !.live = FALSE]}
        /\ call' = [call EXCEPT ![m.owner][m.thread] = [@ EXCEPT !.at = "error"]]
    BY <1>5 DEF Abandoned, TypeOK, NetTypeOK, Request
  <2>2. call[m.owner][m.thread] \in Call /\ call[m.owner][m.thread].at = "await"
    BY <2>1 DEF TypeOK, CallTypeOK, LiveRequests
  <2>3. /\ \A p \in Owner, u \in Thread :
              ~(p = m.owner /\ u = m.thread) => call'[p][u] = call[p][u]
        /\ call'[m.owner][m.thread] = [call[m.owner][m.thread] EXCEPT !.at = "error"]
    BY <2>1 DEF TypeOK, CallTypeOK
  <2>4. /\ call'[m.owner][m.thread].op = call[m.owner][m.thread].op
        /\ call'[m.owner][m.thread].ids = call[m.owner][m.thread].ids
        /\ call'[m.owner][m.thread].attempt = call[m.owner][m.thread].attempt
        /\ call'[m.owner][m.thread].at = "error"
    BY <2>2, <2>3 DEF Call, CallState
  <2>5. \A n \in net' : n.owner = o => \E k \in net : k.owner = o /\ k.op = n.op
    BY <2>1 DEF Request
  <2>6. CASE m.owner = o
    BY <1>1, <2>1, <2>2, <2>3, <2>4, <2>5, <2>6, ErrorWorks
  <2>7. CASE m.owner # o
    BY <1>3, <2>3, <2>5, <2>7
  <2>. QED  BY <2>6, <2>7
<1>6. ASSUME NEW p \in Owner, NEW t \in Thread, ReplyLost(p, t)  PROVE Working(o)'
  <2>1. /\ call[p][t] \in Call /\ call[p][t].at \in {"ok", "refused"} /\ net' = net
        /\ call'[p][t] = [call[p][t] EXCEPT !.at = "error", !.life = 0]
        /\ \A q \in Owner, u \in Thread : ~(q = p /\ u = t) => call'[q][u] = call[q][u]
    BY <1>6 DEF ReplyLost, TypeOK, CallTypeOK
  <2>2. /\ call'[p][t].op = call[p][t].op /\ call'[p][t].ids = call[p][t].ids
        /\ call'[p][t].attempt = call[p][t].attempt /\ call'[p][t].at = "error"
    BY <2>1 DEF Call, CallState
  <2>3. CASE p = o
    <3>1. /\ call'[o][t].op = call[o][t].op /\ call'[o][t].ids = call[o][t].ids
          /\ call'[o][t].attempt = call[o][t].attempt /\ call'[o][t].at = "error"
          /\ call[o][t].at \in {"await", "ok", "refused"}
      BY <2>1, <2>2, <2>3
    <3>2. \A u \in Thread : u # t => call'[o][u] = call[o][u]
      BY <2>1, <2>3
    <3>3. \A m \in net' : m.owner = o => \E n \in net : n.owner = o /\ n.op = m.op
      BY <2>1
    <3>. QED  BY <1>1, <3>1, <3>2, <3>3, ErrorWorks
  <2>4. CASE p # o
    BY <1>3, <2>1, <2>4
  <2>. QED  BY <2>3, <2>4
<1>. QED  BY <1>4, <1>5, <1>6 DEF Network

-----------------------------------------------------------------------------
(* Time *)

LEMMA TickWorks ==
    ASSUME Prompt, IInv, Awaited, Tick, NEW o \in Owner, Working(o)
    PROVE  Working(o)'
<1>. USE DEF IInv
<1>1. ~Urgent
  BY DEF Tick, Prompt
<1>2. /\ \A t \in Thread : call'[o][t] = Later(call[o][t]) /\ call[o][t] \in Call
      /\ \A m \in net' : \E n \in net : m.owner = n.owner /\ m.op = n.op
      /\ main'[o] = main[o] /\ acquired'[o] = acquired[o] /\ job'[o] = job[o]
      /\ period'[o] = period[o] /\ faults' = faults /\ holder' = holder
  BY TickEffect DEF TypeOK, CallTypeOK
<1>3. /\ \A t \in Thread : call[o][t].at \notin {"ok", "error", "wake"}
      /\ ~Due(o)
  BY <1>1 DEF Urgent
<1>4. \A t \in Beats : call[o][t] = Idle \/ call[o][t].at = "sleep"
  <2>. SUFFICES ASSUME NEW t \in Beats, call[o][t] # Idle PROVE call[o][t].at = "sleep"
    OBVIOUS
  <2>1. Beat(o, t) /\ t \in Thread
    BY BeatIsThread DEF Working, Sound
  <2>2. call[o][t].op = "keepAlive" /\ call[o][t].at \in {"await", "sleep"}
    BY <1>3, <2>1 DEF Beat
  <2>3. ASSUME call[o][t].at = "await"  PROVE FALSE
    <3>1. PICK m \in net : m.live /\ m.owner = o /\ m.thread = t
      BY <2>1, <2>3 DEF Awaited
    <3>2. m.op = "keepAlive"
      BY <2>2, <3>1 DEF LiveRequests
    <3>. QED  BY <1>1, <3>1, <3>2 DEF Urgent
  <2>. QED  BY <2>2, <2>3
<1>5. \A t \in Thread : /\ call'[o][t].at = IF call[o][t].at = "sleep" THEN "wake"
                                            ELSE call[o][t].at
                        /\ call'[o][t].op = call[o][t].op
                        /\ call'[o][t].ids = call[o][t].ids
                        /\ call'[o][t].attempt = call[o][t].attempt
  BY <1>2, LaterAt
<1>6. \A t \in Beats : call[o][t] = Idle => call'[o][t] = Idle
  <2>1. Later(Idle) = Idle
    <3>1. Later(Idle) = [Idle EXCEPT !.at = "idle", !.life = 0]
      BY DEF Later, Idle
    <3>. QED  BY <3>1 DEF Idle
  <2>. QED  BY <1>2, <2>1, BeatIsThread
<1>7. timer'[o] = IF timer[o] > 0 THEN timer[o] - 1 ELSE 0
  BY DEF Tick
<1>8. Sound(o)'
  <2>1. \A t \in Beats : Beat(o, t)'
    <3>. SUFFICES ASSUME NEW t \in Beats, call[o][t] # Idle PROVE Beat(o, t)'
      BY <1>6 DEF Beat
    <3>1. Beat(o, t) /\ t \in Thread
      BY BeatIsThread DEF Working, Sound
    <3>. QED  BY <1>2, <1>4, <1>5, <3>1 DEF Beat
  <2>2. Job(o)'
    <3>1. acquired[o] # {} => timer'[o] <= period'[o]
      BY <1>2, <1>7, Numbers DEF Working, Sound, Job
    <3>. QED  BY <1>2, <1>6, <3>1 DEF Working, Sound, Job
  <2>. QED  BY <1>2, <2>1, <2>2 DEF Working, Sound
<1>9. JustGranted(o)'
  <2>1. call'[o][Main].at # "ok"
    BY <1>3, <1>5, MainIsThread
  <2>. QED  BY <2>1 DEF JustGranted, Got
<1>10. Backed(o)'
  <2>. SUFFICES ASSUME NEW l \in acquired[o] PROVE holder'[l] = o /\ Covered(o, l)'
    BY <1>2 DEF Backed
  <2>1. /\ holder[l] = o /\ Covered(o, l) /\ l \in LockId /\ ttl[l] \in Int
        /\ Spare \in Nat /\ timer[o] \in Nat
    BY Numbers DEF Working, Backed, TypeOK, ClientTypeOK
  <2>2. ttl[l] >= 0
    BY <2>1, CountsOn
  <2>3. ttl'[l] = ttl[l] - 1 /\ Spare' = Spare
    <3>1. o # NoOwner /\ ttl[l] > Oldest
      BY <2>1, <2>2, LockStorageAssumption DEF Oldest
    <3>. QED  BY <1>2, <2>1, <3>1 DEF Tick, AgeRows, Spare
  <2>4. \A t \in Beats : call'[o][t].at \in {"idle", "wake"}
    BY <1>4, <1>5, BeatIsThread DEF Idle
  <2>5. \A t \in Beats : call'[o][t].at = "wake" => ttl[l] >= Spare + 1
    BY <1>4, <1>5, <2>1, BeatIsThread DEF Covered, Idle
  <2>6. (\A t \in Beats : call'[o][t].at \in {"idle", "ok"}) => ttl[l] >= timer[o] + Spare
    <3>1. \A t \in Beats : call'[o][t].at = "idle" => call[o][t].at = "idle"
      BY <1>5, <2>4, BeatIsThread
    <3>. QED  BY <2>1, <2>4, <3>1 DEF Covered
  <2>7. timer[o] > 0
    BY <1>3, <2>1 DEF Due, Working, Sound, Job
  <2>. QED  BY <1>2, <1>7, <2>1, <2>3, <2>4, <2>5, <2>6, <2>7 DEF Covered
<1>. QED  BY <1>8, <1>9, <1>10 DEF Working

-----------------------------------------------------------------------------
\* A suite does not come back to work.
LEMMA WorkedBefore ==
    ASSUME TypeOK, [Next]_vars, NEW o \in Owner, AtWork(o)'
    PROVE  AtWork(o)
<1>. USE DEF AtWork
<1>1. ASSUME NEW p \in Owner, Client(p) \/ Crash(p)  PROVE AtWork(o)
  <2>1. CASE p # o
    BY <1>1, <2>1, ClientFrame
  <2>2. CASE p = o
    <3>1. ASSUME NEW how \in {"dead", "crashed"}, Stop(o, how)  PROVE FALSE
      BY <3>1 DEF Stop, TypeOK, ClientTypeOK
    <3>2. ~Crash(o) /\ \A t \in Beats : ~UnhandledRejection(o, t)
      BY <3>1 DEF Crash, UnhandledRejection
    <3>3. ~(AcquireFails(o) \/ TestEnds(o) \/ ReleaseReturns(o)) \/ AtWork(o)
      BY DEF AcquireFails, TestEnds, ReleaseReturns, TypeOK, ClientTypeOK
    <3>. QED  BY <1>1, <2>2, <3>2, <3>3
              DEF Client, Begin, Granted, Refused, HeartbeatSkipped, Backoff, Retry, Heartbeat,
                  HeartbeatReturns, HeartbeatFails, AcquireFails, TestEnds, ReleaseReturns,
                  clientVars
  <2>. QED  BY <2>1, <2>2
<1>2. CASE Tick \/ Service \/ Network \/ UNCHANGED vars
  BY <1>2 DEF Tick, Service, Serve, Network, RequestLost, Abandoned, ReplyLost, clientVars, vars
<1>. QED  BY <1>1, <1>2 DEF Next

LEMMA NextKept == ASSUME Prompt PROVE IInv /\ Awaited /\ Kept /\ [Next]_vars => Kept'
<1>. SUFFICES ASSUME IInv, Awaited, Kept, [Next]_vars, NEW o \in Owner, AtWork(o)'
             PROVE  Working(o)'
  BY DEF Kept
<1>. USE DEF IInv
<1>1. AtWork(o) /\ Working(o) /\ TypeOK'
  BY WorkedBefore, NextStep DEF Kept
<1>2. ASSUME NEW p \in Owner, Client(p) \/ Crash(p)  PROVE Working(o)'
  <2>1. CASE p = o
    <3>1. ~Crash(o)
      BY DEF Crash, Stop, AtWork, TypeOK, ClientTypeOK
    <3>. QED  BY <1>1, <1>2, <2>1, <3>1, ClientWorks
  <2>2. CASE p # o
    <3>1. /\ main'[o] = main[o] /\ acquired'[o] = acquired[o] /\ job'[o] = job[o]
          /\ period'[o] = period[o] /\ timer'[o] = timer[o]
          /\ \A t \in Thread : call'[o][t] = call[o][t]
          /\ \A m \in net' : m.owner = o => m \in net
          /\ faults' = faults \/ faults' = faults + 1
          /\ UNCHANGED storageVars
      BY <1>2, <2>2, ClientFrame
    <3>. QED  BY <1>1, <3>1, WorkFrame DEF storageVars
  <2>. QED  BY <2>1, <2>2
<1>3. CASE UNCHANGED vars
  BY <1>1, <1>3, WorkFrame DEF vars, storageVars, clientVars
<1>. QED
  BY <1>1, <1>2, <1>3, TickWorks, ServeWorks, NetworkWorks DEF Next, Service

LEMMA StartsKept == Init => Awaited /\ Kept
<1>. SUFFICES ASSUME Init, NEW o \in Owner PROVE Awaited /\ Working(o)
  BY DEF Init, Awaited, Kept, Idle
<1>1. /\ main[o] = "idle" /\ net = {} /\ acquired[o] = {} /\ job[o] = "none"
      /\ \A p \in Owner, t \in Thread : call[p][t] = Idle
  BY DEF Init
<1>2. \A t \in Beats : call[o][t] = Idle
  BY <1>1, BeatIsThread
<1>3. Awaited
  BY <1>1 DEF Awaited, Idle
<1>. QED  BY <1>1, <1>2, <1>3 DEF Working, Sound, Beat, Job, JustGranted, Got, Backed

LEMMA KeptInvariant == ASSUME Prompt PROVE Spec => [](IInv /\ Kept)
BY StartsKept, NextAwaited, NextKept, Invariance, PTL DEF Spec

\* In a prompt system a suite never believes in a lock that is not its own
\* or whose lease has lapsed: the heartbeat and its retries come in time.
THEOREM BeliefsAreBacked == ASSUME Prompt PROVE Spec => []BeliefBacked
<1>1. IInv /\ Kept => BeliefBacked
  <2>. SUFFICES ASSUME IInv, Kept, NEW o \in Owner, main[o] \in {"locking", "running"},
                      NEW l \in acquired[o]
               PROVE  holder[l] = o /\ ttl[l] >= 0
    BY DEF BeliefBacked
  <2>. QED  BY CountsOn DEF IInv, Kept, AtWork
<1>. QED  BY <1>1, KeptInvariant, PTL

\* In a prompt system suites that share a resource never run their tests at
\* the same time, however many suites there are and whatever fails.
THEOREM SuitesExclude == ASSUME Prompt PROVE Spec => []Exclusive
<1>1. IInv /\ Kept => Exclusive
  <2>. SUFFICES ASSUME IInv, Kept, NEW o \in Owner, NEW p \in Owner, o # p,
                      main[o] = "running", main[p] = "running",
                      NEW l \in Wants[o] \cap Wants[p]
               PROVE  FALSE
    BY DEF Exclusive
  <2>1. l \in acquired[o] /\ l \in acquired[p]
    BY DEF Kept, AtWork, Working, Sound
  <2>2. holder[l] = o /\ holder[l] = p
    BY <2>1, CountsOn DEF IInv, Kept, AtWork
  <2>. QED  BY <2>2
<1>. QED  BY <1>1, KeptInvariant, PTL
=============================================================================
