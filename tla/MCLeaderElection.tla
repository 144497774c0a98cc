-------------------------- MODULE MCLeaderElection --------------------------
(***************************************************************************)
(* Two replicas, of which one may take over from the other and back, and   *)
(* one namespace whose workloads come and go. Two faults of any kind, at   *)
(* any time, in either replica.                                            *)
(***************************************************************************)
EXTENDS LeaderElection

CONSTANTS r1, r2, n1

MCReplica == {r1, r2}
MCNamespace == {n1}
MCOnceSettings == {FALSE, TRUE}
OnlyOnce == {TRUE}
=============================================================================
