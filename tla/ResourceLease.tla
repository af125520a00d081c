--------------------------- MODULE ResourceLease ---------------------------
(***************************************************************************)
(* What the lock table promises to the test suites that share it: every    *)
(* lock is free or leased to one owner; a lease ends because its holder    *)
(* gives it back, or because it lapsed and somebody else took it.  Nothing *)
(* is said here of clocks, requests or rows; LockStorage implements it.    *)
(***************************************************************************)
CONSTANTS Owner,    \* lock owners: one per run of a test suite
          LockId,   \* ids of lockable resources
          NoOwner   \* the holder of a free lock

VARIABLES holder,   \* holder[l]: who has the lease on l, or NoOwner
          lapsed    \* the leased locks whose lease has run out

leaseVars == <<holder, lapsed>>

Init == holder = [l \in LockId |-> NoOwner] /\ lapsed = {}

Available(l) == holder[l] = NoOwner \/ l \in lapsed

\* A lease is granted on a lock that is free or whose lease lapsed.  It may
\* be granted already lapsed: the server's clock is read before the write.
Grant(o, l) ==
    /\ Available(l)
    /\ holder' = [holder EXCEPT ![l] = o]
    /\ lapsed' \in {lapsed \ {l}, lapsed \cup {l}}

\* The holder extends leases of its own, lapsed ones included; nobody else's.
Renew(o) ==
    \E S \in SUBSET LockId :
        /\ \A l \in S : holder[l] = o
        /\ lapsed' \in {lapsed \ S, lapsed \cup S}
        /\ UNCHANGED holder

\* The holder gives leases of its own back.
GiveBack(o) ==
    \E S \in SUBSET LockId :
        /\ \A l \in S : holder[l] = o
        /\ holder' = [l \in LockId |-> IF l \in S THEN NoOwner ELSE holder[l]]
        /\ lapsed' = lapsed \ S

\* Time runs out on some leases.
Lapse ==
    /\ lapsed' \in SUBSET {l \in LockId : holder[l] # NoOwner}
    /\ lapsed \subseteq lapsed'
    /\ UNCHANGED holder

Next == Lapse \/ \E o \in Owner : Renew(o) \/ GiveBack(o) \/ \E l \in LockId : Grant(o, l)

Spec == Init /\ [][Next]_leaseVars
=============================================================================
