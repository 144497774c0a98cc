--------------------------- MODULE LeaderElection ---------------------------
(***************************************************************************)
(* The life of a downscaler process that runs with --leader-election:      *)
(* main, runWithLeaderElection and the loop of startScanning, with the     *)
(* gauges that a cycle publishes. What happens to a workload within a      *)
(* cycle is the subject of Downscaler; here a cycle is something that runs *)
(* for a while under the context that the election hands out.              *)
(*                                                                         *)
(* The elector of client-go and the API server's Lease are modelled from   *)
(* how runWithLeaderElection configures and uses them. Time advances in    *)
(* units of RetryPeriod, in which every candidate and every leader makes   *)
(* one attempt to acquire or renew the lease. Instead of the time of day,  *)
(* every replica has a stopwatch: a candidate's counts since the record    *)
(* that it observed changed, a leader's since its last renewal.            *)
(***************************************************************************)
EXTENDS Integers, FiniteSets

CONSTANTS
  Replica,           \* the processes, each known by the hostname of its pod
  NoHolder,          \* the lease does not exist, or was released
  Namespace,         \* the namespaces that workloads may be found in
  OnceSettings,      \* the settings of --once to consider
  MaxFaults          \* bound on the crashes, stalls, outages and signals

ASSUME LeaderElectionAssumption ==
  /\ Replica # {} /\ NoHolder \notin Replica
  /\ OnceSettings \subseteq BOOLEAN
  /\ MaxFaults \in Nat

VARIABLES
  once,       \* --once
  lease,      \* the identity in the Lease object
  phase,      \* how far runWithLeaderElection has come
  scan,       \* how far startScanning has come
  watch,      \* the replica's stopwatch
  seen,       \* the replica has observed the current record of the lease
  due,        \* the replica has to make an attempt in this unit of time
  pace,       \* whether the process runs, see Stall
  outage,     \* the replica's requests may fail
  current,    \* currentNamespaceToMetrics, the namespaces of this cycle
  previous,   \* previousNamespacesToMetrics, those of the last one
  gauges,     \* the namespaces with gauges in the process' registry
  faults      \* crashes, stalls, outages and signals so far

election == <<lease, phase, watch, seen, due, pace, outage>>
scanning == <<scan, current, previous, gauges>>
vars == <<once, election, scanning, faults>>

-----------------------------------------------------------------------------
(* The configuration of the election, in units of 5 seconds. *)

LeaseDuration == 6

\* Mutant: a leader tries for as long as the lease lasts.
LongRenewDeadline == 6

RenewDeadline == 4

RetryPeriod == 1

(* A leader gives up when it has not renewed the lease for a RetryPeriod,  *)
(* after which it starts to try, and a RenewDeadline, for which it tries.  *)
GiveUpAfter == RetryPeriod + RenewDeadline

Least(m, n) == IF m < n THEN m ELSE n

(* A process that is down is restarted by the kubelet; one that is lost    *)
(* went with its node.                                                     *)
Phase == {"down", "lost", "candidate", "leader", "givingUp", "cancelled"}

(* The identity in the record is the replica's own, see CreateLease: that  *)
(* of the container before a restart counts as its own.                    *)
IsLeader(p) == lease = p

\* Mutant: a candidate trusts its stopwatch for a record that it has not seen.
ExpiredUnseen(p) == watch[p] >= LeaseDuration

(* A candidate takes the lease for expired when it has not seen it change  *)
(* for LeaseDuration, whatever the times in the record say.                *)
Expired(p) == seen[p] /\ watch[p] >= LeaseDuration

MayAcquire(p) == lease = NoHolder \/ IsLeader(p) \/ Expired(p)

(* The context of OnStartedLeading has not been cancelled: what the scan   *)
(* asks of the API server is carried out.                                  *)
ContextLives(p) == phase[p] \in {"leader", "givingUp"}

(* p is the leader, and has been running since it last renewed the lease.  *)
InCharge(p) == phase[p] = "leader" /\ pace[p] = "steady"

Init ==
  /\ once \in OnceSettings
  /\ lease = NoHolder
  /\ phase = [p \in Replica |-> "down"]
  /\ scan = [p \in Replica |-> "none"]
  /\ watch = [p \in Replica |-> 0]
  /\ seen = [p \in Replica |-> FALSE]
  /\ due = [p \in Replica |-> FALSE]
  /\ pace = [p \in Replica |-> "steady"]
  /\ outage = [p \in Replica |-> FALSE]
  /\ current = [p \in Replica |-> {}]
  /\ previous = [p \in Replica |-> {}]
  /\ gauges = [p \in Replica |-> {}]
  /\ faults = 0

-----------------------------------------------------------------------------
(* The process. *)

(* main and CreateLease: the process starts to run for the lease. *)
Start(p) ==
  /\ phase[p] = "down"
  /\ phase' = [phase EXCEPT ![p] = "candidate"]
  /\ due' = [due EXCEPT ![p] = TRUE]
  /\ UNCHANGED <<once, lease, scanning, watch, seen, pace, outage, faults>>

(* The process is gone, with its registry. *)
Gone(p, how) ==
  /\ phase' = [phase EXCEPT ![p] = how]
  /\ scan' = [scan EXCEPT ![p] = "none"]
  /\ watch' = [watch EXCEPT ![p] = 0]
  /\ due' = [due EXCEPT ![p] = FALSE]
  /\ pace' = [pace EXCEPT ![p] = "steady"]
  /\ current' = [current EXCEPT ![p] = {}]
  /\ previous' = [previous EXCEPT ![p] = {}]
  /\ gauges' = [gauges EXCEPT ![p] = {}]

(* cancel(): a candidate leaves the election and main returns; a leader's  *)
(* scan finds its context cancelled and its renewals end.                  *)
Cancel(p) ==
  \/ /\ phase[p] = "candidate"
     /\ Gone(p, "down")
     /\ seen' = [seen EXCEPT ![p] = FALSE]
  \/ /\ phase[p] \in {"leader", "givingUp"}
     /\ phase' = [phase EXCEPT ![p] = "cancelled"]
     /\ due' = [due EXCEPT ![p] = FALSE]
     /\ UNCHANGED <<scanning, watch, seen, pace>>

-----------------------------------------------------------------------------
(* The election. *)

(* The lease is written: its record is one that nobody but the observers   *)
(* has observed.                                                           *)
WriteLease(holder, observers) ==
  /\ lease' = holder
  /\ seen' = [q \in Replica |-> q \in observers]

(* tryAcquireOrRenew succeeds. The first time, OnStartedLeading starts the *)
(* scan in a goroutine of its own.                                         *)
Acquire(p) ==
  /\ MayAcquire(p)
  /\ WriteLease(p, {p})
  /\ phase' = [phase EXCEPT ![p] = "leader"]
  /\ scan' = IF phase[p] = "leader" THEN scan ELSE [scan EXCEPT ![p] = "idle"]
  /\ watch' = [watch EXCEPT ![p] = 0]
  /\ pace' = [pace EXCEPT ![p] = "steady"]

\* Mutant: whoever reads the lease starts to count anew.
ReadCountsAsRenewal(p) ==
  /\ ~MayAcquire(p)
  /\ seen' = [seen EXCEPT ![p] = TRUE]
  /\ watch' = [watch EXCEPT ![p] = 0]
  /\ UNCHANGED <<lease, phase, scan, pace>>

(* tryAcquireOrRenew finds the lease with somebody else. A candidate that  *)
(* sees a new record starts to count from now.                             *)
Decline(p) ==
  /\ ~MayAcquire(p)
  /\ seen' = [seen EXCEPT ![p] = TRUE]
  /\ watch' = IF phase[p] = "candidate" /\ ~seen[p]
              THEN [watch EXCEPT ![p] = 0]
              ELSE watch
  /\ UNCHANGED <<lease, phase, scan, pace>>

(* A request fails: nothing is done, or it is done and p does not hear of  *)
(* it, in which case the record is a new one for p as well.                *)
FailAttempt(p) ==
  /\ outage[p]
  /\ \/ UNCHANGED <<lease, seen>>
     \/ MayAcquire(p) /\ WriteLease(p, {})
  /\ UNCHANGED <<phase, scan, watch, pace>>

Attempt(p) ==
  /\ phase[p] \in {"candidate", "leader"} /\ pace[p] # "stalled" /\ due[p]
  /\ Acquire(p) \/ Decline(p) \/ FailAttempt(p)
  /\ due' = [due EXCEPT ![p] = FALSE]
  /\ UNCHANGED <<once, outage, current, previous, gauges, faults>>

\* Mutant: a leader that has lost the lease tries on.
GiveUpHolding(p) ==
  /\ phase[p] = "leader" /\ pace[p] # "stalled" /\ IsLeader(p)
  /\ watch[p] >= GiveUpAfter
  /\ phase' = [phase EXCEPT ![p] = "givingUp"]
  /\ due' = [due EXCEPT ![p] = FALSE]
  /\ UNCHANGED <<once, lease, scanning, watch, seen, pace, outage, faults>>

(* The RenewDeadline has passed: the renewals end. The context of the scan *)
(* lives on until the lease has been released.                             *)
GiveUp(p) ==
  /\ phase[p] = "leader" /\ pace[p] # "stalled"
  /\ watch[p] >= GiveUpAfter
  /\ phase' = [phase EXCEPT ![p] = "givingUp"]
  /\ due' = [due EXCEPT ![p] = FALSE]
  /\ UNCHANGED <<once, lease, scanning, watch, seen, pace, outage, faults>>

\* Mutant: RunOrDie is called again, for a process whose scan goes on.
ReleaseAndRunAgain(p) ==
  /\ phase[p] \in {"givingUp", "cancelled"} /\ pace[p] # "stalled"
  /\ \/ IsLeader(p) /\ WriteLease(NoHolder, {})
     \/ /\ ~IsLeader(p) \/ outage[p]
        /\ seen' = [seen EXCEPT ![p] = FALSE]
        /\ UNCHANGED lease
  /\ phase' = [phase EXCEPT ![p] = "candidate"]
  /\ UNCHANGED <<once, scanning, watch, due, pace, outage, faults>>

(* ReleaseOnCancel: the lease is given back if it is still p's, unless the *)
(* request fails. Then OnStoppedLeading cancels the context, RunOrDie and  *)
(* main return, and the process ends.                                      *)
Release(p) ==
  /\ phase[p] \in {"givingUp", "cancelled"} /\ pace[p] # "stalled"
  /\ \/ IsLeader(p) /\ WriteLease(NoHolder, {})
     \/ /\ ~IsLeader(p) \/ outage[p]
        /\ seen' = [seen EXCEPT ![p] = FALSE]
        /\ UNCHANGED lease
  /\ Gone(p, "down")
  /\ UNCHANGED <<once, outage, faults>>

-----------------------------------------------------------------------------
(* The scans. *)

Running(p) == phase[p] \in {"leader", "givingUp", "cancelled"} /\ pace[p] # "stalled"

(* A cycle starts, after the interval: GetWorkloads lists the workloads,   *)
(* and FilterExcluded gives a record to every namespace it meets. An error *)
(* ends the scan and cancels the process' context.                         *)
BeginCycle(p) ==
  /\ Running(p) /\ scan[p] = "idle"
  /\ \/ /\ ContextLives(p)
        /\ scan' = [scan EXCEPT ![p] = "scanning"]
        /\ \E listed \in SUBSET Namespace : current' = [current EXCEPT ![p] = listed]
        /\ UNCHANGED <<once, election, previous, gauges, faults>>
     \/ /\ ContextLives(p) /\ outage[p]
        /\ phase' = [phase EXCEPT ![p] = "cancelled"]
        /\ scan' = [scan EXCEPT ![p] = "returned"]
        /\ due' = [due EXCEPT ![p] = FALSE]
        /\ UNCHANGED <<once, lease, watch, seen, pace, outage, current, previous,
                       gauges, faults>>
     \/ /\ ~ContextLives(p)
        /\ scan' = [scan EXCEPT ![p] = "returned"]
        /\ UNCHANGED <<once, election, current, previous, gauges, faults>>

\* Mutant: the gauges of namespaces that are gone stay.
KeepGoneNamespaces(exposed, now, before) == exposed \cup now

(* UpdateMetrics: the gauges of namespaces that the last cycle met and     *)
(* this one did not are deleted, those of this cycle are set.              *)
UpdateMetrics(exposed, now, before) == (exposed \ (before \ now)) \cup now

(* All goroutines of the cycle are done: its metrics are published, and    *)
(* the loop ends with --once, or sleeps for the interval.                  *)
FinishCycle(p) ==
  /\ Running(p) /\ scan[p] = "scanning"
  /\ gauges' = [gauges EXCEPT ![p] = UpdateMetrics(gauges[p], current[p], previous[p])]
  /\ previous' = [previous EXCEPT ![p] = current[p]]
  /\ current' = [current EXCEPT ![p] = {}]
  /\ scan' = [scan EXCEPT ![p] = IF once THEN "returned" ELSE "idle"]
  /\ UNCHANGED <<once, election, faults>>

-----------------------------------------------------------------------------
(* Time and faults. *)

(* A leader that has renewed the lease and waits for the next RetryPeriod. *)
Waits(p) == watch[p] < RetryPeriod \/ (watch[p] = RetryPeriod /\ due[p])

(* The stopwatch a RetryPeriod later. The RenewDeadline counts from the    *)
(* start of the tries, so that a process that stalls before them finds all *)
(* of it left when it runs again.                                          *)
Elapsed(p) ==
  CASE phase[p] \in {"down", "lost"} -> 0
    [] phase[p] = "candidate" -> Least(watch[p] + 1, LeaseDuration)
    [] pace[p] = "stalled" /\ Waits(p) -> RetryPeriod
    [] OTHER -> Least(watch[p] + 1, GiveUpAfter)

(* A RetryPeriod passes, in which everybody who runs had its turn. *)
Tick ==
  /\ \A p \in Replica : pace[p] # "stalled" =>
       ~due[p] /\ (phase[p] = "leader" => watch[p] < GiveUpAfter)
  /\ \E p \in Replica : phase[p] \notin {"down", "lost"}
  /\ watch' = [p \in Replica |-> Elapsed(p)]
  /\ due' = [p \in Replica |-> phase[p] \in {"candidate", "leader"}]
  /\ UNCHANGED <<once, lease, scanning, phase, seen, pace, outage, faults>>

Fault == faults < MaxFaults /\ faults' = faults + 1

(* The container dies, or its node, as long as another replica is left. *)
Crash(p) ==
  /\ Fault
  /\ phase[p] \notin {"down", "lost"}
  /\ \/ Gone(p, "down")
     \/ /\ \E q \in Replica \ {p} : phase[q] # "lost"
        /\ Gone(p, "lost")
  /\ seen' = [seen EXCEPT ![p] = FALSE]
  /\ UNCHANGED <<once, lease, outage>>

(* SIGINT or SIGTERM. *)
Signal(p) ==
  /\ Fault
  /\ pace[p] # "stalled"
  /\ Cancel(p)
  /\ UNCHANGED <<once, lease, outage>>

(* A leader's process gets no processor time: throttling, a paused node.   *)
(* Until it renews the lease again it is late.                             *)
Stall(p) ==
  /\ Fault
  /\ phase[p] = "leader" /\ pace[p] # "stalled"
  /\ pace' = [pace EXCEPT ![p] = "stalled"]
  /\ UNCHANGED <<once, lease, scanning, phase, watch, seen, due, outage>>

Resume(p) ==
  /\ pace[p] = "stalled"
  /\ pace' = [pace EXCEPT ![p] = "late"]
  /\ UNCHANGED <<once, lease, scanning, phase, watch, seen, due, outage, faults>>

Outage(p) ==
  /\ Fault
  /\ ~outage[p]
  /\ outage' = [outage EXCEPT ![p] = TRUE]
  /\ UNCHANGED <<once, lease, scanning, phase, watch, seen, due, pace>>

Recover(p) ==
  /\ outage[p]
  /\ outage' = [outage EXCEPT ![p] = FALSE]
  /\ UNCHANGED <<once, lease, scanning, phase, watch, seen, due, pace, faults>>

-----------------------------------------------------------------------------
Next ==
  \/ Tick
  \/ \E p \in Replica :
       \/ Start(p) \/ Attempt(p) \/ GiveUp(p) \/ Release(p)
       \/ BeginCycle(p) \/ FinishCycle(p)
       \/ Crash(p) \/ Signal(p) \/ Stall(p) \/ Resume(p) \/ Outage(p) \/ Recover(p)

(* Time passes; a goroutine that can go on does; the kubelet restarts      *)
(* containers; stalls and outages end. No fault is fair.                   *)
Fairness ==
  /\ WF_vars(Tick)
  /\ \A p \in Replica :
       /\ WF_vars(Start(p)) /\ WF_vars(Attempt(p)) /\ WF_vars(GiveUp(p))
       /\ WF_vars(Release(p)) /\ WF_vars(BeginCycle(p)) /\ WF_vars(FinishCycle(p))
       /\ WF_vars(Resume(p)) /\ WF_vars(Recover(p))

Spec == Init /\ [][Next]_vars /\ Fairness
-----------------------------------------------------------------------------
(* Properties. *)

(* Every register has its type, and only a process that was elected, and   *)
(* has not ended since, has a scan: a candidate never inherits one.        *)
TypeOK ==
  /\ once \in BOOLEAN
  /\ lease \in Replica \cup {NoHolder}
  /\ phase \in [Replica -> Phase]
  /\ scan \in [Replica -> {"none", "idle", "scanning", "returned"}]
  /\ \A p \in Replica : scan[p] = "none" <=> phase[p] \in {"down", "lost", "candidate"}
  /\ watch \in [Replica -> 0..LeaseDuration]
  /\ seen \in [Replica -> BOOLEAN] /\ due \in [Replica -> BOOLEAN]
  /\ pace \in [Replica -> {"steady", "stalled", "late"}]
  /\ outage \in [Replica -> BOOLEAN]
  /\ current \in [Replica -> SUBSET Namespace]
  /\ previous \in [Replica -> SUBSET Namespace]
  /\ gauges \in [Replica -> SUBSET Namespace]
  /\ faults \in 0..MaxFaults

(* As long as a leader's process runs, whatever becomes of its requests,   *)
(* the lease is its own until it gives up, and nobody takes the lease for  *)
(* expired: the durations that runWithLeaderElection chooses leave room    *)
(* for the tries of the leader and the wait of the candidates.             *)
LeaseProtects ==
  \A p \in Replica : InCharge(p) =>
    lease = p /\ \A q \in Replica \ {p} : ~Expired(q)

(* The election implements Leadership: among the leaders that have kept up *)
(* with their renewals there is never a second one, and one takes over     *)
(* only after the other has let go.                                        *)
L == INSTANCE Leadership WITH charged <- {p \in Replica : InCharge(p)}

ImplementsLeadership == L!Spec

(* Crashes with the lease held, lost replies, stalls and outages do not    *)
(* leave the cluster without a leader: the lease expires, or the restarted *)
(* container finds its own name in it.                                     *)
HandsOver == L!Filled

(* A leader that was deposed while it stalled stops, or is elected again.  *)
DeposedStops ==
  \A p \in Replica :
    phase[p] = "leader" /\ ~IsLeader(p) ~> phase[p] # "leader" \/ IsLeader(p)

(* What a process exposes is what its last finished cycle met: no gauges   *)
(* of a namespace whose workloads are gone, nor those of another reign.    *)
GaugesAreCurrent ==
  \A p \in Replica : gauges[p] = previous[p]

(* With --once a process that has scanned ends. *)
OnceExits == \A p \in Replica : once /\ scan[p] = "returned" ~> phase[p] = "down"
=============================================================================
