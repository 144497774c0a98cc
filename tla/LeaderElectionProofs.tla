------------------------ MODULE LeaderElectionProofs ------------------------
(***************************************************************************)
(* For any number of replicas, namespaces and faults: the lease protects   *)
(* the leader that keeps up with its renewals, the election implements     *)
(* Leadership, and the gauges of a process are those of its last cycle.    *)
(***************************************************************************)
EXTENDS LeaderElection, TLAPS

USE LeaderElectionAssumption
USE DEF Phase, LeaseDuration, RenewDeadline, RetryPeriod, GiveUpAfter, Least

\* One step of one replica.
ReplicaStep(p) ==
  \/ Start(p) \/ Attempt(p) \/ GiveUp(p) \/ Release(p)
  \/ BeginCycle(p) \/ FinishCycle(p)
  \/ Crash(p) \/ Signal(p) \/ Stall(p) \/ Resume(p) \/ Outage(p) \/ Recover(p)

-----------------------------------------------------------------------------
(* Type correctness.                                                       *)

\* A write leaves a holder in the lease, and every replica either among its
\* observers or not.
LEMMA WriteLeaseType ==
  ASSUME NEW holder \in Replica \cup {NoHolder}, NEW observers,
         WriteLease(holder, observers)
  PROVE  lease' \in Replica \cup {NoHolder} /\ seen' \in [Replica -> BOOLEAN]
<1>1. \A q \in Replica : (q \in observers) \in BOOLEAN
  OBVIOUS
<1>2. [q \in Replica |-> q \in observers] \in [Replica -> BOOLEAN]
  BY <1>1, Zenon
<1> QED
  BY <1>2 DEF WriteLease

\* What is left of a process that is gone has its types.
LEMMA GoneType ==
  ASSUME TypeOK, NEW p \in Replica, NEW how \in {"down", "lost"}, Gone(p, how)
  PROVE  /\ phase' \in [Replica -> Phase]
         /\ scan' \in [Replica -> {"none", "idle", "scanning", "returned"}]
         /\ watch' \in [Replica -> 0..LeaseDuration]
         /\ due' \in [Replica -> BOOLEAN]
         /\ pace' \in [Replica -> {"steady", "stalled", "late"}]
         /\ current' \in [Replica -> SUBSET Namespace]
         /\ previous' \in [Replica -> SUBSET Namespace]
         /\ gauges' \in [Replica -> SUBSET Namespace]
         /\ \A q \in Replica :
              scan'[q] = "none" <=> phase'[q] \in {"down", "lost", "candidate"}
BY DEF TypeOK, Gone, Phase

\* Every step of the election, of the scans, of time and of the faults keeps
\* the types; no stopwatch runs beyond the LeaseDuration, and no candidate is left
\* with the scan of an earlier reign.
THEOREM TypeCorrect == Spec => []TypeOK
<1>1. Init => TypeOK
  BY DEF Init, TypeOK
<1>2. TypeOK /\ [Next]_vars => TypeOK'
  <2> SUFFICES ASSUME TypeOK, [Next]_vars PROVE TypeOK'
    OBVIOUS
  <2> USE DEF TypeOK
  <2>1. CASE UNCHANGED vars
    BY <2>1 DEF vars, election, scanning
  <2>2. CASE Tick
    <3>1. \A p \in Replica : Elapsed(p) \in 0..LeaseDuration
      BY DEF Elapsed
    <3> QED
      BY <2>2, <3>1 DEF Tick, scanning
  <2>3. ASSUME NEW p \in Replica, ReplicaStep(p) PROVE TypeOK'
    <3>0. Fault => faults' \in 0..MaxFaults
      BY DEF Fault
    <3>1. CASE Start(p)
      BY <3>1 DEF Start, scanning
    <3>2. CASE Attempt(p)
      <4>1. /\ UNCHANGED <<once, outage, current, previous, gauges, faults>>
            /\ due' \in [Replica -> BOOLEAN]
        BY <3>2 DEF Attempt
      <4>2. CASE Acquire(p)
        BY <4>1, <4>2, WriteLeaseType DEF Acquire
      <4>3. CASE Decline(p)
        BY <4>1, <4>3 DEF Decline
      <4>4. CASE FailAttempt(p)
        BY <4>1, <4>4, WriteLeaseType DEF FailAttempt
      <4> QED
        BY <3>2, <4>2, <4>3, <4>4 DEF Attempt
    <3>3. CASE GiveUp(p)
      BY <3>3 DEF GiveUp, scanning
    <3>4. CASE Release(p)
      <4>1. seen' \in [Replica -> BOOLEAN] /\ lease' \in Replica \cup {NoHolder}
        BY <3>4, WriteLeaseType DEF Release
      <4>2. Gone(p, "down") /\ UNCHANGED <<once, outage, faults>>
        BY <3>4 DEF Release
      <4> QED
        BY <4>1, <4>2, GoneType
    <3>5. CASE BeginCycle(p)
      <4>1. UNCHANGED <<once, lease, watch, seen, pace, outage, previous, gauges, faults>>
        BY <3>5 DEF BeginCycle, election
      <4>2. phase' \in [Replica -> Phase] /\ due' \in [Replica -> BOOLEAN]
        BY <3>5 DEF BeginCycle, election
      <4>3. scan' \in [Replica -> {"none", "idle", "scanning", "returned"}]
        BY <3>5 DEF BeginCycle
      <4>4. current' \in [Replica -> SUBSET Namespace]
        BY <3>5 DEF BeginCycle
      <4>5. scan[p] # "none" /\ scan'[p] # "none"
        BY <3>5 DEF BeginCycle
      <4>6. phase'[p] \notin {"down", "lost", "candidate"}
        BY <3>5 DEF BeginCycle, election, Running
      <4>7. \A q \in Replica \ {p} : scan'[q] = scan[q] /\ phase'[q] = phase[q]
        BY <3>5 DEF BeginCycle, election
      <4> QED
        BY <4>1, <4>2, <4>3, <4>4, <4>5, <4>6, <4>7
    <3>6. CASE FinishCycle(p)
      BY <3>6 DEF FinishCycle, UpdateMetrics, election
    <3>7. CASE Crash(p)
      <4>1. \E how \in {"down", "lost"} : Gone(p, how)
        BY <3>7 DEF Crash
      <4> QED
        BY <3>0, <3>7, <4>1, GoneType DEF Crash
    <3>8. CASE Signal(p)
      <4>1. CASE phase[p] = "candidate"
        <5>1. /\ Gone(p, "down") /\ seen' = [seen EXCEPT ![p] = FALSE]
              /\ faults' \in 0..MaxFaults /\ UNCHANGED <<once, lease, outage>>
          BY <3>0, <3>8, <4>1 DEF Signal, Cancel
        <5> QED
          BY <5>1, GoneType
      <4>2. CASE phase[p] # "candidate"
        BY <3>0, <3>8, <4>2 DEF Signal, Cancel, scanning
      <4> QED
        BY <4>1, <4>2
    <3>9. CASE Stall(p)
      BY <3>0, <3>9 DEF Stall, scanning
    <3>10. CASE Resume(p)
      BY <3>10 DEF Resume, scanning
    <3>11. CASE Outage(p)
      BY <3>0, <3>11 DEF Outage, scanning
    <3>12. CASE Recover(p)
      BY <3>12 DEF Recover, scanning
    <3> QED
      BY <2>3, <3>1, <3>2, <3>3, <3>4, <3>5, <3>6, <3>7, <3>8, <3>9,
         <3>10, <3>11, <3>12 DEF ReplicaStep
  <2> QED
    BY <2>1, <2>2, <2>3 DEF Next, ReplicaStep
<1> QED
  BY <1>1, <1>2, PTL DEF Spec

-----------------------------------------------------------------------------
(* The lease.                                                              *)

(* The inductive invariant. A leader in charge is named in the lease, and  *)
(* the candidates that have seen its record started to count no earlier    *)
(* than the leader did. A leader's stopwatch stops at GiveUpAfter, so that *)
(* no candidate's can reach LeaseDuration while the leader is in charge.   *)
(* A process that starts has not seen any record.                          *)
ElectionInv ==
  /\ \A p \in Replica : InCharge(p) => lease = p
  /\ \A q \in Replica : phase[q] # "candidate" => watch[q] <= GiveUpAfter
  /\ \A q \in Replica : phase[q] \in {"down", "lost"} => ~seen[q]
  /\ \A p, q \in Replica :
       InCharge(p) /\ phase[q] = "candidate" /\ seen[q] => watch[q] <= watch[p]

\* While a leader is in charge, nobody else may acquire the lease.
LEMMA OthersMayNot ==
  ASSUME TypeOK, ElectionInv, NEW p \in Replica, InCharge(p),
         NEW q \in Replica \ {p}
  PROVE  ~MayAcquire(q) /\ ~Expired(q)
<1>1. watch[p] <= GiveUpAfter
  BY DEF ElectionInv, InCharge
<1>2. ~Expired(q)
  <2>1. CASE phase[q] = "candidate"
    BY <1>1, <2>1 DEF Expired, ElectionInv, TypeOK
  <2>2. CASE phase[q] # "candidate"
    BY <2>2 DEF Expired, ElectionInv, TypeOK
  <2> QED
    BY <2>1, <2>2
<1> QED
  BY <1>2 DEF ElectionInv, MayAcquire, IsLeader

\* The steps of the election, of time and of the faults keep the invariant.
LEMMA ElectionInvStep ==
  ASSUME TypeOK, TypeOK', ElectionInv, [Next]_vars
  PROVE  ElectionInv'
<1> USE DEF InCharge
<1>1. CASE UNCHANGED vars
  BY <1>1 DEF ElectionInv, vars, election, scanning
<1>2. CASE Tick
  <2>1. /\ UNCHANGED <<lease, phase, seen, pace>>
        /\ \A p \in Replica : watch'[p] = Elapsed(p)
        /\ \A p \in Replica : InCharge(p) => watch[p] < GiveUpAfter
    BY <1>2 DEF Tick, scanning
  <2>2. \A p \in Replica : InCharge(p) => watch'[p] = watch[p] + 1
    BY <2>1 DEF Elapsed, TypeOK
  <2>3. \A q \in Replica : phase[q] = "candidate" => watch'[q] <= watch[q] + 1
    BY <2>1 DEF Elapsed, TypeOK
  <2>4. \A q \in Replica : phase[q] # "candidate" => watch'[q] <= GiveUpAfter
    BY <2>1 DEF Elapsed, TypeOK
  <2>5. ASSUME NEW p \in Replica, NEW q \in Replica, InCharge(p),
               phase[q] = "candidate", seen[q]
        PROVE  watch'[q] <= watch'[p]
    <3>1. watch[q] <= watch[p]
      BY <2>5 DEF ElectionInv
    <3> QED
      BY <2>2, <2>3, <2>5, <3>1 DEF TypeOK
  <2> QED
    BY <2>1, <2>4, <2>5 DEF ElectionInv
<1>3. ASSUME NEW p \in Replica, ReplicaStep(p) PROVE ElectionInv'
  <2>1. CASE Start(p)
    BY <2>1 DEF Start, ElectionInv, TypeOK
  <2>2. CASE Attempt(p)
    <3>0. phase[p] \in {"candidate", "leader"}
      BY <2>2 DEF Attempt
    <3>1. CASE Acquire(p)
      <4>1. /\ lease' = p /\ MayAcquire(p)
            /\ \A q \in Replica : seen'[q] <=> q = p
            /\ phase' = [phase EXCEPT ![p] = "leader"]
            /\ watch' = [watch EXCEPT ![p] = 0]
            /\ pace' = [pace EXCEPT ![p] = "steady"]
        BY <3>1 DEF Acquire, WriteLease
      <4>2. \A q \in Replica \ {p} : ~InCharge(q)
        BY <4>1, OthersMayNot
      <4> QED
        BY <3>0, <4>1, <4>2 DEF ElectionInv, TypeOK
    <3>2. CASE Decline(p)
      BY <3>0, <3>2 DEF Decline, MayAcquire, IsLeader, ElectionInv, TypeOK
    <3>3. CASE FailAttempt(p)
      <4>1. UNCHANGED <<phase, watch, pace>>
        BY <3>3 DEF FailAttempt
      <4>2. CASE UNCHANGED <<lease, seen>>
        BY <4>1, <4>2 DEF ElectionInv
      <4>3. CASE MayAcquire(p) /\ WriteLease(p, {})
        <5>1. lease' = p /\ \A q \in Replica : ~seen'[q]
          BY <4>3 DEF WriteLease
        <5>2. \A q \in Replica \ {p} : ~InCharge(q)
          BY <4>3, OthersMayNot
        <5> QED
          BY <4>1, <5>1, <5>2 DEF ElectionInv
      <4> QED
        BY <3>3, <4>2, <4>3 DEF FailAttempt
    <3> QED
      BY <2>2, <3>1, <3>2, <3>3 DEF Attempt
  <2>3. CASE GiveUp(p)
    BY <2>3 DEF GiveUp, ElectionInv, TypeOK
  <2>4. CASE Release(p)
    <3>1. /\ phase' = [phase EXCEPT ![p] = "down"]
          /\ watch' = [watch EXCEPT ![p] = 0]
          /\ pace' = [pace EXCEPT ![p] = "steady"]
          /\ phase[p] \in {"givingUp", "cancelled"}
      BY <2>4 DEF Release, Gone
    <3>2. \A q \in Replica : InCharge(q) => lease' = lease
      BY <2>4 DEF Release, IsLeader, ElectionInv
    <3>3. ~seen'[p] /\ \A q \in Replica : seen'[q] => seen[q]
      BY <2>4 DEF Release, WriteLease, TypeOK
    <3> QED
      BY <3>1, <3>2, <3>3 DEF ElectionInv, TypeOK
  <2>5. CASE BeginCycle(p)
    <3>1. /\ UNCHANGED <<lease, watch, seen, pace>>
          /\ phase' = phase \/ phase' = [phase EXCEPT ![p] = "cancelled"]
          /\ phase[p] \in {"leader", "givingUp", "cancelled"}
      BY <2>5 DEF BeginCycle, Running, election
    <3> QED
      BY <3>1 DEF ElectionInv, TypeOK
  <2>6. CASE FinishCycle(p)
    BY <2>6 DEF FinishCycle, ElectionInv, election
  <2>7. ASSUME NEW how \in {"down", "lost"}, Gone(p, how),
               seen' = [seen EXCEPT ![p] = FALSE], UNCHANGED lease
        PROVE  ElectionInv'
    BY <2>7 DEF Gone, ElectionInv, TypeOK
  <2>8. CASE Crash(p)
    BY <2>7, <2>8 DEF Crash
  <2>9. CASE Signal(p)
    <3>1. CASE phase[p] = "candidate"
      BY <2>7, <2>9, <3>1 DEF Signal, Cancel
    <3>2. CASE phase[p] # "candidate"
      BY <2>9, <3>2 DEF Signal, Cancel, ElectionInv, TypeOK
    <3> QED
      BY <3>1, <3>2
  <2>10. CASE Stall(p) \/ Resume(p)
    BY <2>10 DEF Stall, Resume, ElectionInv, TypeOK
  <2>11. CASE Outage(p) \/ Recover(p)
    BY <2>11 DEF Outage, Recover, ElectionInv
  <2> QED
    BY <1>3, <2>1, <2>2, <2>3, <2>4, <2>5, <2>6, <2>8, <2>9, <2>10, <2>11
    DEF ReplicaStep
<1> QED
  BY <1>1, <1>2, <1>3 DEF Next, ReplicaStep

\* The invariant holds throughout the life of the replicas.
LEMMA ElectionInvariant == Spec => []ElectionInv
<1>1. Init => ElectionInv
  BY DEF Init, ElectionInv, InCharge
<1>2. TypeOK /\ TypeOK' /\ ElectionInv /\ [Next]_vars => ElectionInv'
  BY ElectionInvStep
<1> QED
  BY <1>1, <1>2, TypeCorrect, PTL DEF Spec

\* As long as a leader keeps up with its renewals, the lease is its own and
\* nobody takes it for expired, whatever becomes of its requests and of the
\* other replicas.
THEOREM LeaseIsSafe == Spec => []LeaseProtects
<1>1. TypeOK /\ ElectionInv => LeaseProtects
  BY OthersMayNot DEF LeaseProtects, ElectionInv
<1> QED
  BY <1>1, TypeCorrect, ElectionInvariant, PTL

-----------------------------------------------------------------------------
(* The refinement.                                                         *)

\* A step puts at most one replica in charge or out of charge.
LEMMA OneReplicaChanges ==
  ASSUME TypeOK, [Next]_vars
  PROVE  \/ \A q \in Replica : InCharge(q)' <=> InCharge(q)
         \/ \E p \in Replica : \A q \in Replica \ {p} : InCharge(q)' <=> InCharge(q)
<1> USE DEF InCharge
<1>1. CASE UNCHANGED vars \/ Tick
  BY <1>1 DEF vars, election, Tick
<1>2. ASSUME NEW p \in Replica, ReplicaStep(p)
      PROVE  \A q \in Replica \ {p} : InCharge(q)' <=> InCharge(q)
  <2>1. /\ phase' = phase \/ \E x \in Phase : phase' = [phase EXCEPT ![p] = x]
        /\ pace' = pace \/ \E x \in {"steady", "late", "stalled"} :
                             pace' = [pace EXCEPT ![p] = x]
    <3>1. CASE Start(p) \/ GiveUp(p)
      BY <3>1 DEF Start, GiveUp
    <3>2. CASE Attempt(p)
      BY <3>2 DEF Attempt, Acquire, Decline, FailAttempt
    <3>3. CASE Release(p) \/ Crash(p)
      BY <3>3 DEF Release, Crash, Gone
    <3>4. CASE BeginCycle(p)
      BY <3>4 DEF BeginCycle, election
    <3>5. CASE FinishCycle(p)
      BY <3>5 DEF FinishCycle, election
    <3>6. CASE Signal(p)
      BY <3>6 DEF Signal, Cancel, Gone
    <3>7. CASE Stall(p) \/ Resume(p) \/ Outage(p) \/ Recover(p)
      BY <3>7 DEF Stall, Resume, Outage, Recover
    <3> QED
      BY <1>2, <3>1, <3>2, <3>3, <3>4, <3>5, <3>6, <3>7 DEF ReplicaStep
  <2> QED
    BY <2>1 DEF TypeOK
<1> QED
  BY <1>1, <1>2 DEF Next, ReplicaStep

\* The election implements Leadership: never a second leader among those that
\* keep up with their renewals, and none takes over before the other let go.
THEOREM ElectionRefinesLeadership == Spec => ImplementsLeadership
<1> DEFINE charged == {p \in Replica : InCharge(p)}
<1>1. Init => L!Init
  BY DEF Init, L!Init, InCharge
<1>2. ASSUME TypeOK, ElectionInv, ElectionInv', [Next]_vars
      PROVE  [L!Next]_charged
  <2>0. \A q, r \in Replica : InCharge(q) /\ InCharge(r) => q = r
    BY <1>2 DEF ElectionInv
  <2>1. \A q, r \in Replica : InCharge(q)' /\ InCharge(r)' => q = r
    BY <1>2 DEF ElectionInv
  <2>2. CASE \A q \in Replica : InCharge(q)' <=> InCharge(q)
    BY <2>2
  <2>3. ASSUME NEW p \in Replica,
               \A q \in Replica \ {p} : InCharge(q)' <=> InCharge(q),
               ~(InCharge(p)' <=> InCharge(p))
        PROVE  L!Take(p) \/ L!Yield(p)
    <3>1. CASE InCharge(p)
      <4>1. \A q \in Replica : InCharge(q) <=> q = p
        BY <2>0, <3>1, Zenon DEF InCharge
      <4>2. \A q \in Replica : ~InCharge(q)'
        BY <2>3, <3>1, <4>1
      <4> QED
        BY <4>1, <4>2 DEF L!Yield
    <3>2. CASE ~InCharge(p)
      <4>1. charged = {} /\ charged' = {p}
        BY <2>1, <2>3, <3>2
      <4> QED
        BY <4>1 DEF L!Take
    <3> QED
      BY <3>1, <3>2
  <2> QED
    BY <1>2, <2>2, <2>3, OneReplicaChanges DEF L!Next
<1> QED
  BY <1>1, <1>2, TypeCorrect, ElectionInvariant, PTL
  DEF Spec, ImplementsLeadership, L!Spec

-----------------------------------------------------------------------------
(* The gauges.                                                             *)

\* What a process exposes is what its last finished cycle met, through any
\* number of cycles, reigns and restarts.
THEOREM GaugesStayCurrent == Spec => []GaugesAreCurrent
<1>1. Init => GaugesAreCurrent
  BY DEF Init, GaugesAreCurrent
<1>2. TypeOK /\ GaugesAreCurrent /\ [Next]_vars => GaugesAreCurrent'
  <2> SUFFICES ASSUME TypeOK, GaugesAreCurrent, [Next]_vars PROVE GaugesAreCurrent'
    OBVIOUS
  <2> USE DEF GaugesAreCurrent
  <2>1. CASE UNCHANGED vars \/ Tick
    BY <2>1 DEF vars, scanning, Tick
  <2>2. ASSUME NEW p \in Replica, ReplicaStep(p) PROVE GaugesAreCurrent'
    <3>1. CASE UNCHANGED <<previous, gauges>>
      BY <3>1
    <3>2. CASE \E how \in Phase : Gone(p, how)
      BY <3>2 DEF Gone, TypeOK
    <3>3. CASE FinishCycle(p)
      <4>1. gauges[p] = previous[p]
        OBVIOUS
      <4>2. UpdateMetrics(gauges[p], current[p], previous[p]) = current[p]
        BY <4>1 DEF UpdateMetrics
      <4> QED
        BY <3>3, <4>2 DEF FinishCycle, TypeOK
    <3>4. Start(p) \/ Attempt(p) \/ GiveUp(p) \/ BeginCycle(p)
            => UNCHANGED <<previous, gauges>>
      BY DEF Start, Attempt, GiveUp, BeginCycle, scanning
    <3>5. Stall(p) \/ Resume(p) \/ Outage(p) \/ Recover(p)
            => UNCHANGED <<previous, gauges>>
      BY DEF Stall, Resume, Outage, Recover, scanning
    <3>6. Release(p) \/ Crash(p) => \E how \in Phase : Gone(p, how)
      BY DEF Release, Crash
    <3>7. Signal(p) => \/ UNCHANGED <<previous, gauges>>
                       \/ \E how \in Phase : Gone(p, how)
      BY DEF Signal, Cancel, scanning
    <3> QED
      BY <2>2, <3>1, <3>2, <3>3, <3>4, <3>5, <3>6, <3>7 DEF ReplicaStep
  <2> QED
    BY <2>1, <2>2 DEF Next, ReplicaStep
<1> QED
  BY <1>1, <1>2, TypeCorrect, PTL DEF Spec
=============================================================================
