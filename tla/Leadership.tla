----------------------------- MODULE Leadership -----------------------------
(***************************************************************************)
(* What leader election promises the scans: at any time at most one        *)
(* replica is in charge, it is put in charge only while nobody is, and     *)
(* there is always a replica in charge again. How a lease brings that      *)
(* about, and for how long a replica may act without being in charge, is   *)
(* the subject of LeaderElection.                                          *)
(***************************************************************************)
CONSTANT Replica

VARIABLE charged    \* the replicas in charge

Init == charged = {}

\* OnStartedLeading: p is told to scan.
Take(p) == /\ charged = {}
           /\ charged' = {p}

\* The replica in charge stops, dies, or loses touch with the lease.
Yield(p) == /\ charged = {p}
            /\ charged' = {}

Next == \E p \in Replica : Take(p) \/ Yield(p)

Spec == Init /\ [][Next]_charged

\* Nobody stays out of charge for ever.
Filled == []<>(charged # {})
=============================================================================
