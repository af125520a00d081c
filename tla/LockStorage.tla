---------------------------- MODULE LockStorage ----------------------------
(***************************************************************************)
(* The lock-manager service and its table of locks                         *)
(* (lock-manager/src/lock-operations.ts, api-routes.ts, db/pg.ts).         *)
(*                                                                         *)
(* A row of the table is (lock_id, lockOwner, lockExpiry).  Expiry times   *)
(* are kept relative to the present: ttl[l] is the number of ticks until   *)
(* lockExpiry, negative once the lease has lapsed.  A handler reads its    *)
(* clock before it waits for a database connection and runs its one        *)
(* statement: `age' is the number of ticks between the two.  All instances *)
(* of the service share the table, and each statement is one transaction.  *)
(***************************************************************************)
EXTENDS Integers

CONSTANTS Owner,     \* values of the lockOwner field
          NumLocks,  \* how many lockable resources there are
          NoOwner,   \* marks a lock without a row
          Expiry,    \* lease of an acquired lock when the request names none
          RenewBy,   \* RENEW_BY_IN_SEC
          DbDelay    \* bound on age

ASSUME LockStorageAssumption ==
    /\ NumLocks \in Nat \ {0}
    /\ NoOwner \notin Owner
    /\ Expiry \in Nat /\ RenewBy \in Nat /\ DbDelay \in Nat

\* Lock ids, numbered in the order of Array.sort().
LockId == 1 .. NumLocks

VARIABLES holder,    \* lockOwner of the row of each lock, or NoOwner
          ttl        \* ticks until its lockExpiry

storageVars == <<holder, ttl>>

Oldest == -(DbDelay + 1)          \* ttl saturates here: no handler's clock reads older
Ttl == Oldest .. (Expiry + RenewBy)
Age == 0 .. DbDelay

StorageTypeOK ==
    /\ holder \in [LockId -> Owner \cup {NoOwner}]
    /\ ttl \in [LockId -> Ttl]

StorageInit ==
    /\ holder = [l \in LockId |-> NoOwner]
    /\ ttl = [l \in LockId |-> 0]

-----------------------------------------------------------------------------
(* acquire: INSERT ... ON CONFLICT DO UPDATE ... WHERE lockExpiry < now *)

\* Mutants: ON CONFLICT DO UPDATE without its WHERE; lockExpiry <= now;
\* INSERT without ON CONFLICT.
GrantableAlways(l, age) == l \in LockId
GrantableAtExpiry(l, age) == holder[l] = NoOwner \/ ttl[l] <= -age
GrantableWhenFree(l, age) == holder[l] = NoOwner

Grantable(l, age) == holder[l] = NoOwner \/ ttl[l] < -age

GrantRow(o, l, age) ==
    /\ Grantable(l, age)
    /\ holder' = [holder EXCEPT ![l] = o]
    /\ ttl' = [ttl EXCEPT ![l] = Expiry - age]

RefuseRow(l, age) ==
    /\ ~Grantable(l, age)
    /\ UNCHANGED storageVars

-----------------------------------------------------------------------------
(* keepAlive and release: rows of the request whose lockOwner is the owner *)

\* Mutant: the statement does not compare lockOwner.
OwnRowsOfAnyone(o, ids) == {l \in ids : holder[l] # NoOwner}

OwnRows(o, ids) == {l \in ids : holder[l] = o}

RenewRows(o, ids, age) ==
    /\ ttl' = [l \in LockId |-> IF l \in OwnRows(o, ids) THEN RenewBy - age ELSE ttl[l]]
    /\ UNCHANGED holder

\* Mutant: only leases that have not lapsed are released.
DeleteLiveRows(o, ids) ==
    LET live == {l \in OwnRows(o, ids) : ttl[l] >= 0}
    IN  /\ holder' = [l \in LockId |-> IF l \in live THEN NoOwner ELSE holder[l]]
        /\ ttl' = [l \in LockId |-> IF l \in live THEN 0 ELSE ttl[l]]

DeleteRows(o, ids) ==
    /\ holder' = [l \in LockId |-> IF l \in OwnRows(o, ids) THEN NoOwner ELSE holder[l]]
    /\ ttl' = [l \in LockId |-> IF l \in OwnRows(o, ids) THEN 0 ELSE ttl[l]]

-----------------------------------------------------------------------------
\* One tick of time for every row of the table.
AgeRows ==
    /\ ttl' = [l \in LockId |->
                 IF holder[l] # NoOwner /\ ttl[l] > Oldest THEN ttl[l] - 1 ELSE ttl[l]]
    /\ UNCHANGED holder

\* The table as the abstract promise sees it.
Lapsed == {l \in LockId : holder[l] # NoOwner /\ ttl[l] < 0}
Lease == INSTANCE ResourceLease WITH lapsed <- Lapsed
LeasePromise == Lease!Spec
=============================================================================
