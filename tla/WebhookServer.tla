--------------------------- MODULE WebhookServer ---------------------------
(***************************************************************************)
(* The processes of the admission webhook around the handler of a request, *)
(* which is the subject of Admission: how a replica gets its certificates  *)
(* and comes to serve, and the goroutine that deletes the counters of      *)
(* namespaces that are gone and may take the whole process down.           *)
(*                                                                         *)
(* The certificate rotator and the manager of controller-runtime are       *)
(* modelled from how main and AddCertificateRotation use them.             *)
(***************************************************************************)
EXTENDS Naturals, FiniteSets

CONSTANTS
  Replica,           \* the processes of the webhook
  Namespace,         \* the namespaces that come and go
  Configurations,    \* the settings of --metrics and --internal-cert-rotation
  MaxChanges,        \* bound on the creations and deletions of namespaces
  MaxFaults          \* bound on failed requests, crashes and lost certificates

ASSUME WebhookServerAssumption ==
  /\ Configurations \subseteq [MetricsEnabled : BOOLEAN, EnableCertRotation : BOOLEAN]
  /\ MaxChanges \in Nat /\ MaxFaults \in Nat

VARIABLES
  config,
  namespaces,   \* the namespaces of the cluster
  secret,       \* the secret with the certificates: "absent", "empty" or "filled"
  phase,        \* how far main has come
  cleaner,      \* how far cleanDeletedNamespaceMetrics has come
  previous,     \* previousNamespace
  current,      \* currentNamespace, while the counters are cleaned up
  left,         \* the namespaces whose counters the cleanup has still to delete
  calls,        \* the namespaces of requests that are being handled
  series,       \* the namespaces with counters in the process' registry
  unlisted,     \* auxiliary: counted when the last listing did not have them
  changes, faults

cleanup == <<cleaner, previous, current, left>>
counters == <<calls, series, unlisted>>
cluster == <<config, namespaces, changes>>
vars == <<cluster, secret, phase, cleanup, counters, faults>>

Fault == faults < MaxFaults /\ faults' = faults + 1

(* A process that is stopped has a context that is done and a main that    *)
(* waits for certificates all the same.                                    *)
Phase == {"down", "checking", "creating", "waiting", "serving", "stopped"}

Init ==
  /\ config \in Configurations
  /\ namespaces \in SUBSET Namespace
  /\ secret = "absent"
  /\ phase = [r \in Replica |-> "down"]
  /\ cleaner = [r \in Replica |-> "none"]
  /\ previous = [r \in Replica |-> {}]
  /\ current = [r \in Replica |-> {}]
  /\ left = [r \in Replica |-> {}]
  /\ calls = [r \in Replica |-> {}]
  /\ series = [r \in Replica |-> {}]
  /\ unlisted = [r \in Replica |-> {}]
  /\ changes = 0 /\ faults = 0

\* Mutant: main does not return when its context is done.
ExitHangs(r) ==
  /\ phase' = [phase EXCEPT ![r] = "cancelled"]
  /\ UNCHANGED <<cleanup, counters>>

(* os.Exit, or main returns once the context is done: the process ends     *)
(* with the requests it handles and the counters it keeps.                 *)
Exit(r) ==
  /\ phase' = [phase EXCEPT ![r] = "down"]
  /\ cleaner' = [cleaner EXCEPT ![r] = "none"]
  /\ previous' = [previous EXCEPT ![r] = {}]
  /\ current' = [current EXCEPT ![r] = {}]
  /\ left' = [left EXCEPT ![r] = {}]
  /\ calls' = [calls EXCEPT ![r] = {}]
  /\ series' = [series EXCEPT ![r] = {}]
  /\ unlisted' = [unlisted EXCEPT ![r] = {}]

-----------------------------------------------------------------------------
(* Startup. *)

(* The certificates are ready, or somebody else's business: the handler is *)
(* registered and, with metrics, the cleanup started.                      *)
Serve(r) ==
  /\ phase' = [phase EXCEPT ![r] = "serving"]
  /\ cleaner' = [cleaner EXCEPT ![r] = IF config.MetricsEnabled THEN "first" ELSE "none"]
  /\ UNCHANGED <<previous, current, left, counters>>

(* main, as far as AddCertificateRotation. *)
Start(r) ==
  /\ phase[r] = "down"
  /\ \/ /\ config.EnableCertRotation
        /\ phase' = [phase EXCEPT ![r] = "checking"]
        /\ UNCHANGED <<cleanup, counters>>
     \/ /\ ~config.EnableCertRotation
        /\ Serve(r)
  /\ UNCHANGED <<cluster, secret, faults>>

\* Mutant: a secret that is not found is an error like any other.
NotFoundIsFatal(r) ==
  /\ phase[r] = "checking"
  /\ \/ /\ secret # "absent"
        /\ phase' = [phase EXCEPT ![r] = "waiting"]
        /\ UNCHANGED <<cleanup, counters>>
     \/ secret = "absent" /\ Exit(r)
  /\ UNCHANGED <<cluster, secret, faults>>

(* ensureSecret asks for the secret. *)
GetSecret(r) ==
  /\ phase[r] = "checking"
  /\ \/ /\ phase' = [phase EXCEPT ![r] = IF secret = "absent" THEN "creating" ELSE "waiting"]
        /\ UNCHANGED <<cleanup, counters, faults>>
     \/ Fault /\ Exit(r)
  /\ UNCHANGED <<cluster, secret>>

(* ensureSecret creates the secret that it did not find. If another        *)
(* replica has created it meanwhile, the request is refused, as is any     *)
(* other error a reason to exit.                                           *)
CreateSecret(r) ==
  /\ phase[r] = "creating"
  /\ \/ /\ secret = "absent"
        /\ secret' = "empty"
        /\ phase' = [phase EXCEPT ![r] = "waiting"]
        /\ UNCHANGED <<cleanup, counters, faults>>
     \/ /\ secret # "absent"
        /\ Exit(r)
        /\ UNCHANGED <<secret, faults>>
     \/ Fault /\ Exit(r) /\ UNCHANGED secret
  /\ UNCHANGED cluster

(* The rotator, which the manager runs from here on: it fills a secret     *)
(* whose certificates are missing or about to expire and restarts the      *)
(* process (RestartOnSecretRefresh); it reports that certificates are      *)
(* mounted (Ready); or it fails for want of a secret, which ends the       *)
(* manager and with it, by startManager, the process.                      *)
Rotate(r) ==
  /\ config.EnableCertRotation
  /\ \/ /\ phase[r] \in {"waiting", "serving"} /\ secret = "empty"
        /\ secret' = "filled"
        /\ Exit(r)
     \/ /\ phase[r] = "waiting" /\ secret = "filled"
        /\ Serve(r)
        /\ UNCHANGED secret
     \/ /\ phase[r] = "waiting" /\ secret = "absent"
        /\ Exit(r)
        /\ UNCHANGED secret
  /\ UNCHANGED <<cluster, faults>>

-----------------------------------------------------------------------------
(* Requests and their counters. *)

(* serveValidateWorkloads gets a request for an object of an existing      *)
(* namespace.                                                              *)
Receive(r, n) ==
  /\ phase[r] = "serving" /\ n \in namespaces /\ n \notin calls[r]
  /\ calls' = [calls EXCEPT ![r] = @ \cup {n}]
  /\ UNCHANGED <<cluster, secret, phase, cleanup, series, unlisted, faults>>

(* What GetNamespacesAsSet returned last. *)
LastListing(r) == IF cleaner[r] = "listed" THEN current[r] ELSE previous[r]

(* The request is answered. The counter of its namespace and its result is *)
(* incremented first, except without metrics, for objects that cannot be   *)
(* parsed and for workloads that are to be scaled up.                      *)
Answer(r, n) ==
  /\ n \in calls[r]
  /\ calls' = [calls EXCEPT ![r] = @ \ {n}]
  /\ \/ UNCHANGED <<series, unlisted>>
     \/ /\ config.MetricsEnabled
        /\ series' = [series EXCEPT ![r] = @ \cup {n}]
        /\ unlisted' = IF n \in LastListing(r) THEN unlisted
                       ELSE [unlisted EXCEPT ![r] = @ \cup {n}]
  /\ UNCHANGED <<cluster, secret, phase, cleanup, faults>>

-----------------------------------------------------------------------------
(* cleanDeletedNamespaceMetrics. *)

\* Mutant: the two listings are swapped in the comparison.
NewNamespaces(before, now) == now \ before

(* What was listed before and is not any more. *)
GoneNamespaces(before, now) == before \ now

(* GetNamespacesAsSet, at the start and at every tick of the ticker. An    *)
(* error goes to errCh, whose reader cancels the context of the process.   *)
ListNamespaces(r) ==
  /\ cleaner[r] \in {"first", "idle"}
  /\ \/ /\ cleaner[r] = "first"
        /\ previous' = [previous EXCEPT ![r] = namespaces]
        /\ unlisted' = [unlisted EXCEPT ![r] = series[r] \ namespaces]
        /\ cleaner' = [cleaner EXCEPT ![r] = "idle"]
        /\ UNCHANGED <<phase, current, left, calls, series, faults>>
     \/ /\ cleaner[r] = "idle"
        /\ current' = [current EXCEPT ![r] = namespaces]
        /\ left' = [left EXCEPT ![r] = GoneNamespaces(previous[r], namespaces)]
        /\ cleaner' = [cleaner EXCEPT ![r] = "listed"]
        /\ UNCHANGED <<phase, previous, counters, faults>>
     \/ Fault /\ Exit(r)
  /\ UNCHANGED <<cluster, secret>>

(* The loop over previousNamespace deletes the counters of one namespace   *)
(* after the other, while requests go on to be counted.                    *)
DeleteNamespaceMetrics(r, n) ==
  /\ n \in left[r]
  /\ left' = [left EXCEPT ![r] = @ \ {n}]
  /\ series' = [series EXCEPT ![r] = @ \ {n}]
  /\ unlisted' = [unlisted EXCEPT ![r] = @ \ {n}]
  /\ UNCHANGED <<cluster, secret, phase, cleaner, previous, current, calls, faults>>

\* Mutant: the listing is not kept for the next comparison.
ComparesWithTheFirst(r) ==
  /\ cleaner[r] = "listed" /\ left[r] = {}
  /\ unlisted' = [unlisted EXCEPT ![r] = @ \ current[r]]
  /\ current' = [current EXCEPT ![r] = {}]
  /\ cleaner' = [cleaner EXCEPT ![r] = "idle"]
  /\ UNCHANGED <<cluster, secret, phase, previous, left, calls, series, faults>>

(* The listing is kept for the next comparison. *)
EndCleanup(r) ==
  /\ cleaner[r] = "listed" /\ left[r] = {}
  /\ previous' = [previous EXCEPT ![r] = current[r]]
  /\ unlisted' = [unlisted EXCEPT ![r] = @ \ current[r]]
  /\ current' = [current EXCEPT ![r] = {}]
  /\ cleaner' = [cleaner EXCEPT ![r] = "idle"]
  /\ UNCHANGED <<cluster, secret, phase, left, calls, series, faults>>

-----------------------------------------------------------------------------
(* The cluster. *)

CreateNamespace(n) ==
  /\ changes < MaxChanges /\ changes' = changes + 1
  /\ n \notin namespaces
  /\ namespaces' = namespaces \cup {n}
  /\ UNCHANGED <<config, secret, phase, cleanup, counters, faults>>

DeleteNamespace(n) ==
  /\ changes < MaxChanges /\ changes' = changes + 1
  /\ n \in namespaces
  /\ namespaces' = namespaces \ {n}
  /\ UNCHANGED <<config, secret, phase, cleanup, counters, faults>>

(* Somebody deletes the secret, or its certificates come to expire. *)
LoseCertificates ==
  /\ Fault
  /\ \/ secret # "absent" /\ secret' = "absent"
     \/ secret = "filled" /\ secret' = "empty"
  /\ UNCHANGED <<cluster, phase, cleanup, counters>>

(* The container dies. *)
Crash(r) ==
  /\ Fault
  /\ phase[r] # "down"
  /\ Exit(r)
  /\ UNCHANGED <<cluster, secret>>

(* SIGTERM or SIGINT, from which SetupSignalHandler makes the context: it  *)
(* is done, which ends main where it serves, and fails the requests of     *)
(* ensureSecret. The channel Ready is received from without it, so that    *)
(* main waits on, with its manager and the rotator stopped.                *)
Signal(r) ==
  /\ Fault
  /\ \/ phase[r] \in {"checking", "creating", "serving"} /\ Exit(r)
     \/ /\ phase[r] = "waiting"
        /\ phase' = [phase EXCEPT ![r] = "stopped"]
        /\ UNCHANGED <<cleanup, counters>>
  /\ UNCHANGED <<cluster, secret>>

(* The grace period of the pod is over, or the certificates came to be     *)
(* mounted all the same and main finds its context done.                   *)
Kill(r) ==
  /\ phase[r] = "stopped"
  /\ Exit(r)
  /\ UNCHANGED <<cluster, secret, faults>>

Next ==
  \/ \E r \in Replica :
       \/ Start(r) \/ GetSecret(r) \/ CreateSecret(r) \/ Rotate(r)
       \/ ListNamespaces(r) \/ EndCleanup(r)
       \/ Crash(r) \/ Signal(r) \/ Kill(r)
       \/ \E n \in Namespace : Receive(r, n) \/ Answer(r, n) \/ DeleteNamespaceMetrics(r, n)
  \/ \E n \in Namespace : CreateNamespace(n) \/ DeleteNamespace(n)
  \/ LoseCertificates

(* The kubelet restarts and kills containers, and goroutines that can go   *)
(* on do; the ticker ticks. That requests arrive and faults happen is not  *)
(* assumed.                                                                *)
Fairness ==
  \A r \in Replica :
    /\ WF_vars(Start(r)) /\ WF_vars(GetSecret(r)) /\ WF_vars(CreateSecret(r))
    /\ WF_vars(Rotate(r)) /\ WF_vars(Kill(r))
    /\ WF_vars(ListNamespaces(r)) /\ WF_vars(EndCleanup(r))
    /\ \A n \in Namespace : WF_vars(Answer(r, n)) /\ WF_vars(DeleteNamespaceMetrics(r, n))

Spec == Init /\ [][Next]_vars /\ Fairness

-----------------------------------------------------------------------------
(* Properties. *)

TypeOK ==
  /\ config \in Configurations
  /\ namespaces \subseteq Namespace
  /\ secret \in {"absent", "empty", "filled"}
  /\ phase \in [Replica -> Phase]
  /\ cleaner \in [Replica -> {"none", "first", "idle", "listed"}]
  /\ \A f \in {previous, current, left, calls, series, unlisted} :
       f \in [Replica -> SUBSET Namespace]
  /\ changes \in 0..MaxChanges /\ faults \in 0..MaxFaults

(* A series in the registry belongs to a namespace that the next cleanup   *)
(* compares with, or that had not been listed when it was counted: it came *)
(* after the last listing, or its request outlived it, be it into the loop *)
(* that deletes the others.                                                *)
SeriesAreAccounted ==
  \A r \in Replica : cleaner[r] = "idle" => series[r] \subseteq previous[r] \cup unlisted[r]

(* The counters of a namespace that a replica has listed are deleted after *)
(* the namespace is, as long as the process lives.                         *)
DeletedAreForgotten ==
  \A r \in Replica, n \in Namespace :
    cleaner[r] = "idle" /\ n \in previous[r] \ namespaces
      ~> n \notin series[r] \/ n \in namespaces

(* Whichever replica creates the secret, and whatever fails, every replica *)
(* comes to serve requests in the end, and stays.                          *)
EventuallyServes == \A r \in Replica : <>[](phase[r] = "serving")
=============================================================================
