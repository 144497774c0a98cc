------------------------ MODULE WebhookServerProofs ------------------------
(***************************************************************************)
(* Proofs about the processes of the webhook, for any number of replicas   *)
(* and namespaces: type correctness, that a process that does not serve    *)
(* handles nothing, and that no series in a replica's registry escapes the *)
(* comparison that cleanDeletedNamespaceMetrics makes.                     *)
(***************************************************************************)
EXTENDS WebhookServer, TLAPS

\* The types, with the six registers written out.
ServerTypes ==
  /\ config \in Configurations
  /\ namespaces \subseteq Namespace
  /\ secret \in {"absent", "empty", "filled"}
  /\ phase \in [Replica -> Phase]
  /\ cleaner \in [Replica -> {"none", "first", "idle", "listed"}]
  /\ previous \in [Replica -> SUBSET Namespace]
  /\ current \in [Replica -> SUBSET Namespace]
  /\ left \in [Replica -> SUBSET Namespace]
  /\ calls \in [Replica -> SUBSET Namespace]
  /\ series \in [Replica -> SUBSET Namespace]
  /\ unlisted \in [Replica -> SUBSET Namespace]
  /\ changes \in 0..MaxChanges /\ faults \in 0..MaxFaults

\* A process that does not serve has no cleanup, no requests and no counters:
\* whatever ends it takes them along.
IdleKeepsNothing ==
  \A r \in Replica : phase[r] # "serving" =>
    cleaner[r] = "none" /\ calls[r] = {} /\ series[r] = {}

\* SeriesAreAccounted, within a cleanup as well: there, the new listing or the
\* rest of the loop accounts for a series. Outside, the loop has nothing left.
Accounted ==
  \A r \in Replica :
    /\ cleaner[r] = "idle" => series[r] \subseteq previous[r] \cup unlisted[r]
    /\ cleaner[r] = "listed" => series[r] \subseteq current[r] \cup left[r] \cup unlisted[r]
    /\ cleaner[r] # "listed" => left[r] = {}

\* The inductive invariant.
ServerInv == ServerTypes /\ IdleKeepsNothing /\ Accounted

-----------------------------------------------------------------------------
\* A process that ends (Exit) leaves the invariant: the registers of the others
\* are not touched, its own are empty.
LEMMA ExitKeeps ==
  ASSUME ServerInv, NEW r \in Replica, Exit(r), UNCHANGED cluster,
         secret' \in {"absent", "empty", "filled"}, faults' \in 0..MaxFaults
  PROVE  ServerInv'
<1>1. ServerTypes'
  BY DEF ServerInv, ServerTypes, Exit, cluster, Phase
<1>2. IdleKeepsNothing'
  BY DEF ServerInv, ServerTypes, IdleKeepsNothing, Exit
<1>3. Accounted'
  BY DEF ServerInv, ServerTypes, Accounted, Exit
<1> QED  BY <1>1, <1>2, <1>3 DEF ServerInv

\* A process that comes to serve (Serve) starts with an empty registry.
LEMMA ServeKeeps ==
  ASSUME ServerInv, NEW r \in Replica, phase[r] # "serving", Serve(r),
         UNCHANGED <<cluster, secret, faults>>
  PROVE  ServerInv'
<1>1. ServerTypes'
  BY DEF ServerInv, ServerTypes, Serve, cluster, counters, Phase
<1>2. IdleKeepsNothing'
  BY DEF ServerInv, ServerTypes, IdleKeepsNothing, Serve, counters
<1>3. Accounted'
  <2>1. left[r] = {}
    BY DEF ServerInv, IdleKeepsNothing, Accounted
  <2> QED  BY <2>1 DEF ServerInv, ServerTypes, Accounted, Serve, counters
<1> QED  BY <1>1, <1>2, <1>3 DEF ServerInv

\* A fault that may happen leaves the count of faults within its bound.
LEMMA FaultBound ==
  ASSUME ServerInv, Fault
  PROVE  faults' \in 0..MaxFaults
BY WebhookServerAssumption DEF ServerInv, ServerTypes, Fault

\* Every step of main and of the rotator keeps the invariant.
LEMMA StartupKeeps ==
  ASSUME ServerInv, NEW r \in Replica,
         Start(r) \/ GetSecret(r) \/ CreateSecret(r) \/ Rotate(r)
  PROVE  ServerInv'
<1>1. CASE Start(r)
  <2>1. CASE config.EnableCertRotation
    <3>1. phase' = [phase EXCEPT ![r] = "checking"] /\ phase[r] = "down"
          /\ UNCHANGED <<cleanup, counters, cluster, secret, faults>>
      BY <1>1, <2>1 DEF Start
    <3> QED  BY <3>1 DEF ServerInv, ServerTypes, IdleKeepsNothing, Accounted, Phase,
                         cleanup, counters, cluster
  <2>2. CASE ~config.EnableCertRotation
    BY <1>1, <2>2, ServeKeeps DEF Start
  <2> QED  BY <2>1, <2>2
<1>2. CASE GetSecret(r)
  <2>1. CASE phase' = [phase EXCEPT ![r] = IF secret = "absent" THEN "creating" ELSE "waiting"]
             /\ UNCHANGED <<cleanup, counters, faults>>
    BY <1>2, <2>1 DEF GetSecret, ServerInv, ServerTypes, IdleKeepsNothing, Accounted, Phase,
                      cleanup, counters, cluster
  <2>2. CASE Fault /\ Exit(r)
    BY <1>2, <2>2, FaultBound, ExitKeeps DEF GetSecret, ServerInv, ServerTypes
  <2> QED  BY <1>2, <2>1, <2>2 DEF GetSecret
<1>3. CASE CreateSecret(r)
  <2>1. CASE /\ secret' = "empty"
             /\ phase' = [phase EXCEPT ![r] = "waiting"]
             /\ UNCHANGED <<cleanup, counters, faults>>
    BY <1>3, <2>1 DEF CreateSecret, ServerInv, ServerTypes, IdleKeepsNothing, Accounted, Phase,
                      cleanup, counters, cluster
  <2>2. CASE Exit(r) /\ UNCHANGED <<secret, faults>>
    BY <1>3, <2>2, ExitKeeps DEF CreateSecret, ServerInv, ServerTypes
  <2>3. CASE Fault /\ Exit(r) /\ UNCHANGED secret
    BY <1>3, <2>3, FaultBound, ExitKeeps DEF CreateSecret, ServerInv, ServerTypes
  <2> QED  BY <1>3, <2>1, <2>2, <2>3 DEF CreateSecret
<1>4. CASE Rotate(r)
  <2>1. CASE secret' = "filled" /\ Exit(r)
    BY <1>4, <2>1, ExitKeeps DEF Rotate, ServerInv, ServerTypes
  <2>2. CASE phase[r] = "waiting" /\ Serve(r) /\ UNCHANGED secret
    BY <1>4, <2>2, ServeKeeps DEF Rotate
  <2>3. CASE Exit(r) /\ UNCHANGED secret
    BY <1>4, <2>3, ExitKeeps DEF Rotate, ServerInv, ServerTypes
  <2> QED  BY <1>4, <2>1, <2>2, <2>3 DEF Rotate
<1> QED  BY <1>1, <1>2, <1>3, <1>4

\* So does whatever ends a process, or stops it while it waits for certificates.
LEMMA EndingKeeps ==
  ASSUME ServerInv, NEW r \in Replica, Crash(r) \/ Signal(r) \/ Kill(r)
  PROVE  ServerInv'
<1>1. CASE Crash(r)
  BY <1>1, FaultBound, ExitKeeps DEF Crash, ServerInv, ServerTypes
<1>2. CASE Signal(r)
  <2>1. CASE Exit(r)
    BY <1>2, <2>1, FaultBound, ExitKeeps DEF Signal, ServerInv, ServerTypes
  <2>2. CASE /\ phase[r] = "waiting" /\ phase' = [phase EXCEPT ![r] = "stopped"]
             /\ UNCHANGED <<cleanup, counters>>
    <3>1. faults' \in 0..MaxFaults /\ UNCHANGED <<cluster, secret>>
      BY <1>2, FaultBound DEF Signal
    <3> QED
      BY <2>2, <3>1 DEF ServerInv, ServerTypes, IdleKeepsNothing, Accounted, Phase,
                        cleanup, counters, cluster
  <2> QED  BY <1>2, <2>1, <2>2 DEF Signal
<1>3. CASE Kill(r)
  BY <1>3, ExitKeeps DEF Kill, ServerInv, ServerTypes
<1> QED  BY <1>1, <1>2, <1>3

\* A request counts its namespace in the registry, and among the unlisted if
\* the last listing did not have it; it only runs in a process that serves.
LEMMA RequestsKeep ==
  ASSUME ServerInv, NEW r \in Replica, NEW n \in Namespace, Receive(r, n) \/ Answer(r, n)
  PROVE  ServerInv'
<1>1. CASE Receive(r, n)
  BY <1>1 DEF Receive, ServerInv, ServerTypes, IdleKeepsNothing, Accounted,
              cleanup, counters, cluster
<1>2. CASE Answer(r, n)
  <2>1. /\ calls' = [calls EXCEPT ![r] = @ \ {n}] /\ n \in calls[r]
        /\ UNCHANGED <<cluster, secret, phase, cleanup, faults>>
    BY <1>2 DEF Answer
  <2>2. phase[r] = "serving"
    BY <2>1 DEF ServerInv, IdleKeepsNothing
  <2>3. CASE UNCHANGED <<series, unlisted>>
    BY <2>1, <2>2, <2>3 DEF ServerInv, ServerTypes, IdleKeepsNothing, Accounted, cleanup, cluster
  <2>4. CASE /\ series' = [series EXCEPT ![r] = @ \cup {n}]
             /\ unlisted' = IF n \in LastListing(r) THEN unlisted
                            ELSE [unlisted EXCEPT ![r] = @ \cup {n}]
    <3>0. series'[r] \subseteq LastListing(r) \cup left[r] \cup unlisted'[r]
          \/ cleaner[r] \notin {"idle", "listed"}
      BY <2>4 DEF ServerInv, ServerTypes, Accounted, LastListing
    <3>1. ServerTypes'
      BY <2>1, <2>4 DEF ServerInv, ServerTypes, cleanup, cluster
    <3>2. IdleKeepsNothing'
      BY <2>1, <2>2, <2>4 DEF ServerInv, ServerTypes, IdleKeepsNothing, cleanup
    <3>3. Accounted'
      BY <2>1, <2>4, <3>0 DEF ServerInv, ServerTypes, Accounted, cleanup, LastListing
    <3> QED  BY <3>1, <3>2, <3>3 DEF ServerInv
  <2> QED  BY <1>2, <2>3, <2>4 DEF Answer
<1> QED  BY <1>1, <1>2

\* The first listing takes stock of the registry; the later ones only note what
\* they found.
LEMMA ListingKeeps ==
  ASSUME ServerInv, NEW r \in Replica, ListNamespaces(r)
  PROVE  ServerInv'
<1>0. UNCHANGED <<cluster, secret>> /\ cleaner[r] \in {"first", "idle"}
  BY DEF ListNamespaces
<1>1. phase[r] = "serving"
  BY <1>0 DEF ServerInv, IdleKeepsNothing
<1>2. CASE /\ previous' = [previous EXCEPT ![r] = namespaces]
           /\ unlisted' = [unlisted EXCEPT ![r] = series[r] \ namespaces]
           /\ cleaner' = [cleaner EXCEPT ![r] = "idle"]
           /\ cleaner[r] = "first" /\ UNCHANGED <<phase, current, left, calls, series, faults>>
  <2>1. ServerTypes'
    BY <1>0, <1>2 DEF ServerInv, ServerTypes, cluster
  <2>2. IdleKeepsNothing'
    BY <1>1, <1>2 DEF ServerInv, ServerTypes, IdleKeepsNothing
  <2>3. Accounted'
    BY <1>2 DEF ServerInv, ServerTypes, Accounted
  <2> QED  BY <2>1, <2>2, <2>3 DEF ServerInv
<1>3. CASE /\ cleaner[r] = "idle"
           /\ current' = [current EXCEPT ![r] = namespaces]
           /\ left' = [left EXCEPT ![r] = GoneNamespaces(previous[r], namespaces)]
           /\ cleaner' = [cleaner EXCEPT ![r] = "listed"]
           /\ UNCHANGED <<phase, previous, counters, faults>>
  <2>1. ServerTypes'
    BY <1>0, <1>3 DEF ServerInv, ServerTypes, cluster, counters, GoneNamespaces
  <2>2. IdleKeepsNothing'
    BY <1>1, <1>3 DEF ServerInv, ServerTypes, IdleKeepsNothing, counters
  <2>3. Accounted'
    BY <1>3 DEF ServerInv, ServerTypes, Accounted, counters, GoneNamespaces
  <2> QED  BY <2>1, <2>2, <2>3 DEF ServerInv
<1>4. CASE Fault /\ Exit(r)
  BY <1>0, <1>4, FaultBound, ExitKeeps DEF ServerInv, ServerTypes
<1> QED  BY <1>2, <1>3, <1>4 DEF ListNamespaces

\* The deletion of the counters of one namespace.
LEMMA DeletionKeeps ==
  ASSUME ServerInv, NEW r \in Replica, NEW n \in Namespace, DeleteNamespaceMetrics(r, n)
  PROVE  ServerInv'
<1>0. /\ n \in left[r]
      /\ left' = [left EXCEPT ![r] = @ \ {n}]
      /\ series' = [series EXCEPT ![r] = @ \ {n}]
      /\ unlisted' = [unlisted EXCEPT ![r] = @ \ {n}]
      /\ UNCHANGED <<cluster, secret, phase, cleaner, previous, current, calls, faults>>
  BY DEF DeleteNamespaceMetrics
<1>1. cleaner[r] = "listed"
  BY <1>0 DEF ServerInv, Accounted
<1>2. ServerTypes'
  BY <1>0 DEF ServerInv, ServerTypes, cluster
<1>3. IdleKeepsNothing'
  BY <1>0 DEF ServerInv, ServerTypes, IdleKeepsNothing
<1>4. series'[r] \subseteq current[r] \cup left'[r] \cup unlisted'[r]
  BY <1>0, <1>1 DEF ServerInv, ServerTypes, Accounted
<1>5. Accounted'
  BY <1>0, <1>1, <1>4 DEF ServerInv, ServerTypes, Accounted
<1> QED  BY <1>2, <1>3, <1>5 DEF ServerInv

\* The end of the loop: a series that is left is of a namespace that the new
\* listing has, or was counted when it did not.
LEMMA EndCleanupKeeps ==
  ASSUME ServerInv, NEW r \in Replica, EndCleanup(r)
  PROVE  ServerInv'
<1>0. /\ cleaner[r] = "listed" /\ left[r] = {}
      /\ previous' = [previous EXCEPT ![r] = current[r]]
      /\ unlisted' = [unlisted EXCEPT ![r] = @ \ current[r]]
      /\ current' = [current EXCEPT ![r] = {}]
      /\ cleaner' = [cleaner EXCEPT ![r] = "idle"]
      /\ UNCHANGED <<cluster, secret, phase, left, calls, series, faults>>
  BY DEF EndCleanup
<1>1. phase[r] = "serving"
  BY <1>0 DEF ServerInv, IdleKeepsNothing
<1>2. ServerTypes'
  BY <1>0 DEF ServerInv, ServerTypes, cluster
<1>3. IdleKeepsNothing'
  BY <1>0, <1>1 DEF ServerInv, ServerTypes, IdleKeepsNothing
<1>4. series[r] \subseteq current[r] \cup unlisted[r]
  BY <1>0 DEF ServerInv, Accounted
<1>5. series'[r] \subseteq previous'[r] \cup unlisted'[r]
  BY <1>0, <1>4 DEF ServerInv, ServerTypes
<1>6. Accounted'
  BY <1>0, <1>5 DEF ServerInv, ServerTypes, Accounted
<1> QED  BY <1>2, <1>3, <1>6 DEF ServerInv

\* What happens in the cluster leaves the processes alone.
LEMMA ClusterKeeps ==
  ASSUME ServerInv,
         \/ \E n \in Namespace : CreateNamespace(n) \/ DeleteNamespace(n)
         \/ LoseCertificates
  PROVE  ServerInv'
<1>1. CASE \E n \in Namespace : CreateNamespace(n) \/ DeleteNamespace(n)
  <2>1. UNCHANGED <<config, secret, phase, cleanup, counters, faults>>
        /\ namespaces' \subseteq Namespace /\ changes' \in 0..MaxChanges
    BY <1>1, WebhookServerAssumption DEF CreateNamespace, DeleteNamespace, ServerInv, ServerTypes
  <2> QED  BY <2>1 DEF ServerInv, ServerTypes, IdleKeepsNothing, Accounted, cleanup, counters
<1>2. CASE LoseCertificates
  <2>1. UNCHANGED <<cluster, phase, cleanup, counters>>
        /\ secret' \in {"absent", "empty", "filled"} /\ faults' \in 0..MaxFaults
    BY <1>2, FaultBound DEF LoseCertificates
  <2> QED  BY <2>1 DEF ServerInv, ServerTypes, IdleKeepsNothing, Accounted,
                       cleanup, counters, cluster
<1> QED  BY <1>1, <1>2

\* The invariant holds in every state, whatever the replicas, the rotator and
\* the cluster do in whichever order.
LEMMA ServerInvariant == Spec => []ServerInv
<1>1. Init => ServerInv
  BY WebhookServerAssumption
     DEF Init, ServerInv, ServerTypes, IdleKeepsNothing, Accounted, Phase
<1>2. ServerInv /\ [Next]_vars => ServerInv'
  <2> SUFFICES ASSUME ServerInv, [Next]_vars PROVE ServerInv'
    OBVIOUS
  <2>1. CASE Next
    <3>1. CASE \E r \in Replica : Start(r) \/ GetSecret(r) \/ CreateSecret(r) \/ Rotate(r)
      BY <3>1, StartupKeeps
    <3>2. CASE \E r \in Replica : ListNamespaces(r) \/ EndCleanup(r)
      BY <3>2, ListingKeeps, EndCleanupKeeps
    <3>3. CASE \E r \in Replica : \E n \in Namespace :
                 Receive(r, n) \/ Answer(r, n) \/ DeleteNamespaceMetrics(r, n)
      BY <3>3, RequestsKeep, DeletionKeeps
    <3>5. CASE \E r \in Replica : Crash(r) \/ Signal(r) \/ Kill(r)
      BY <3>5, EndingKeeps
    <3>4. CASE \/ \E n \in Namespace : CreateNamespace(n) \/ DeleteNamespace(n)
               \/ LoseCertificates
      BY <3>4, ClusterKeeps
    <3> QED  BY <2>1, <3>1, <3>2, <3>3, <3>4, <3>5 DEF Next
  <2>2. CASE UNCHANGED vars
    BY <2>2 DEF vars, cluster, cleanup, counters, ServerInv, ServerTypes, IdleKeepsNothing, Accounted
  <2> QED  BY <2>1, <2>2
<1> QED  BY <1>1, <1>2, PTL DEF Spec

-----------------------------------------------------------------------------
\* The registers of every process keep their types: no listing, no request and
\* no restart puts anything but namespaces into them.
THEOREM TypeCorrect == Spec => []TypeOK
<1>1. ServerInv => TypeOK
  BY DEF ServerInv, ServerTypes, TypeOK
<1> QED  BY <1>1, ServerInvariant, PTL

\* No series escapes the cleanup: when cleanDeletedNamespaceMetrics waits for its
\* next tick, every series of the registry is of a namespace that it will compare
\* with, or of one that was counted when the listing did not have it.
THEOREM NoSeriesEscapes == Spec => []SeriesAreAccounted
<1>1. ServerInv => SeriesAreAccounted
  BY DEF ServerInv, Accounted, SeriesAreAccounted
<1> QED  BY <1>1, ServerInvariant, PTL

\* A process that is not serving handles no request, runs no cleanup and reports
\* no counters, however its predecessor ended.
THEOREM NothingSurvivesExit == Spec => []IdleKeepsNothing
<1>1. ServerInv => IdleKeepsNothing
  BY DEF ServerInv
<1> QED  BY <1>1, ServerInvariant, PTL
=============================================================================
