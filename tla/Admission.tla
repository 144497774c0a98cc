------------------------------ MODULE Admission ------------------------------
(***************************************************************************)
(* The admission webhook, next to the scans: whoever creates or updates a  *)
(* workload sends the new object to the API server, which asks the webhook *)
(* before it persists it; the webhook reads the namespace, decides, and    *)
(* answers with the object, scaled down if the schedule asks for it.       *)
(* Meanwhile the scans go on. They are the atomic ScaleDowns and ScaleUps  *)
(* of WorkloadScaling, at any time: that is what Downscaler implements.    *)
(* The requests of the downscaler itself do not pass through the webhook.  *)
(***************************************************************************)
EXTENDS Scopes

CONSTANTS   \* the cluster, see WorkloadScaling
  Workload, KindsOf, Targets, UserValues, UserMaxima, Annotations,
  CreationTimes, Children, InitialObjects, Percents, ClassNames, Parsable

CONSTANTS
  Request,                \* requests that are in flight at the same time
  Namespace, NamespaceOf, NamespaceAnnotations, InitialAnnotations,
  Filtered,               \* workloads that the webhook's flags or an owner exclude
  Unparsable,             \* workloads of a kind that ParseWorkloadFromRawObject
                          \* does not know
  Configurations,         \* settings of --dry-run, --include-resources and of the
                          \* MutatingWebhookConfiguration's failurePolicy
  scopeCli, scopeEnv, scopeDefault,
  MaxTime,                \* bound: the last instant
  MaxFailures             \* bound: requests that fail, calls that time out

VARIABLES
  objs, chosen,   \* the objects of the cluster, see WorkloadScaling
  annotations,    \* the annotations of the namespaces
  now,
  config,         \* the webhook's runtime configuration
  req,            \* the requests to the API server
  failures        \* how many more may fail

Cluster == INSTANCE WorkloadScaling

ASSUME ClusterAssumption == Cluster!WorkloadAssumption

ASSUME AdmissionAssumption ==
  /\ NamespaceOf \in [Workload -> Namespace]
  /\ InitialAnnotations \in [Namespace -> NamespaceAnnotations]
  /\ Configurations \subseteq
       [DryRun : BOOLEAN, IncludeScaledObjects : BOOLEAN, FailurePolicy : {"Ignore", "Fail"}]
  /\ Unset \notin NamespaceAnnotations
  /\ \A a \in Annotations \cup NamespaceAnnotations \cup {scopeCli, scopeEnv, scopeDefault} :
       a # Malformed => /\ DOMAIN a = ScopeFields
                        /\ a.DownscaleReplicas \in Targets \cup {Unset}
  /\ scopeDefault.DownscaleReplicas # Unset
  /\ Malformed \notin {scopeCli, scopeEnv, scopeDefault}
  /\ MaxTime \in Nat /\ MaxFailures \in Nat /\ 0..MaxTime \subseteq CreationTimes

vars == <<objs, chosen, annotations, now, config, req, failures>>

-----------------------------------------------------------------------------
\* A request: for which workload, the new object, the values it asks for, whether
\* the object it starts from is outdated, and what the webhook has found out so
\* far: the namespace's annotations and the time at which it decided.
RequestPc == {"idle", "received", "scopes", "decide", "answered"}

NoRequest == [pc |-> "idle", w |-> Unset, new |-> Unset, asked |-> {},
              outdated |-> FALSE, nsScope |-> Unset, at |-> Unset,
              patched |-> FALSE, failed |-> FALSE]

Init ==
  /\ Cluster!Init
  /\ annotations = InitialAnnotations
  /\ now = 0
  /\ config \in Configurations
  /\ req = [r \in Request |-> NoRequest]
  /\ failures = MaxFailures

Fail ==
  /\ failures > 0
  /\ failures' = failures - 1

-----------------------------------------------------------------------------
(* The API server's side.                                                  *)

Edited(o, v, m, a) == [o EXCEPT !.val = v, !.max = m, !.scope = a]

\* What somebody may make of the object o of w: another value, other
\* annotations, or a new object.
Proposals(w, o) ==
  IF o.live
  THEN {Edited(o, v, m, a) :
          v \in UserValues[o.kind] \cup {o.val}, m \in Cluster!Maxima(o.kind),
          a \in Annotations}
  ELSE UNION {{Cluster!NewObject(k, v, m, a, now) :
                 v \in UserValues[k], m \in Cluster!Maxima(k), a \in Annotations} :
              k \in KindsOf[w]}

\* The values that the request chooses; a value it leaves as it is, it does not.
Asked(old, new) == {new.max} \cup IF old.live /\ new.val = old.val THEN {} ELSE {new.val}

Submit(r, w) ==
  /\ req[r].pc = "idle"
  /\ \E o \in Proposals(w, objs[w]) :
       /\ o.kind = "hpa" => o.val <= o.max
       /\ req' = [req EXCEPT ![r] =
            [NoRequest EXCEPT !.pc = "received", !.w = w, !.new = o,
                              !.asked = Asked(objs[w], o)]]
  /\ UNCHANGED <<objs, chosen, annotations, now, config, failures>>

\* The requests that started from the object of w before this step are outdated
\* if it changes that object.
Outdate(w) ==
  [r \in Request |-> IF req[r].pc # "idle" /\ req[r].w = w /\ objs'[w] # objs[w]
                     THEN [req[r] EXCEPT !.outdated = TRUE] ELSE req[r]]

\* The answer is there, and nobody changed the object in the meantime.
Persist(r) ==
  LET w == req[r].w
  IN /\ req[r].pc = "answered" /\ ~req[r].outdated
     /\ objs' = [objs EXCEPT ![w] = req[r].new]
     /\ chosen' = [chosen EXCEPT
          ![w] = (IF objs[w].live THEN @ ELSE {}) \cup req[r].asked]
     /\ req' = [Outdate(w) EXCEPT ![r] = NoRequest]
     /\ UNCHANGED <<annotations, now, config, failures>>

\* Somebody did: the optimistic lock refuses the request.
Refuse(r) ==
  /\ req[r].pc = "answered" /\ req[r].outdated
  /\ req' = [req EXCEPT ![r] = NoRequest]
  /\ UNCHANGED <<objs, chosen, annotations, now, config, failures>>

\* The webhook cannot be reached or does not answer in time: with the failure
\* policy Ignore, the chart's default, the request goes on as it is, with Fail it
\* is denied.
TimeOut(r) ==
  /\ req[r].pc \notin {"idle", "answered"}
  /\ Fail
  /\ \/ /\ config.FailurePolicy = "Ignore"
        /\ req' = [req EXCEPT ![r].pc = "answered", ![r].failed = TRUE]
     \/ /\ config.FailurePolicy = "Fail"
        /\ req' = [req EXCEPT ![r] = NoRequest]
  /\ UNCHANGED <<objs, chosen, annotations, now, config>>

-----------------------------------------------------------------------------
(* The webhook's side.                                                     *)

\* The request is let through unchanged.
Allow(r) == req' = [req EXCEPT ![r].pc = "answered"]

\* Whether the lookup of the ScaledObjects that scale the workload ends the
\* evaluation: if they are among the included resources. They are asked for by
\* the name "scaledobject", which GetWorkloads does not know.
ExternalScaling == config.IncludeScaledObjects

\* An object that cannot be parsed, or that is filtered out, is let through.
HandleWorkloadMutation(r) ==
  LET passes == req[r].w \in Unparsable \cup Filtered \/ ExternalScaling
  IN /\ req[r].pc = "received"
     /\ \/ /\ passes
           /\ Allow(r)
        \/ /\ ~passes
           /\ req' = [req EXCEPT ![r].pc = "scopes"]
     /\ UNCHANGED <<objs, chosen, annotations, now, config, failures>>

\* Mutant: a request is denied if its namespace cannot be read.
GetNamespaceScopeDenies(r) ==
  LET a == annotations[NamespaceOf[req[r].w]]
      parsed == GetScopeFromAnnotations(req[r].new.scope)
  IN /\ req[r].pc = "scopes"
     /\ \/ /\ ~parsed
           /\ Allow(r) /\ UNCHANGED failures
        \/ /\ parsed
           /\ req' = [req EXCEPT ![r].nsScope = a, ![r].pc =
                        IF GetScopeFromAnnotations(a) THEN "decide" ELSE "answered"]
           /\ UNCHANGED failures
        \/ /\ parsed /\ Fail
           /\ req' = [req EXCEPT ![r] = NoRequest]
     /\ UNCHANGED <<objs, chosen, annotations, now, config>>

\* The annotations of the object and those of its namespace, which are read
\* now, must parse.
GetNamespaceScope(r) ==
  LET a == annotations[NamespaceOf[req[r].w]]
      parsed == GetScopeFromAnnotations(req[r].new.scope)
  IN /\ req[r].pc = "scopes"
     /\ \/ /\ ~parsed
           /\ Allow(r) /\ UNCHANGED failures
        \/ /\ parsed
           /\ req' = [req EXCEPT ![r].nsScope = a, ![r].pc =
                        IF GetScopeFromAnnotations(a) THEN "decide" ELSE "answered"]
           /\ UNCHANGED failures
        \/ /\ parsed /\ Fail
           /\ req' = [req EXCEPT ![r].pc = "answered", ![r].failed = TRUE]
     /\ UNCHANGED <<objs, chosen, annotations, now, config>>

ScopesOf(r) == <<req[r].new.scope, req[r].nsScope, scopeCli, scopeEnv, scopeDefault>>

\* Mutant: exclusions are not asked for.
ScalesExcluded(r) == GetCurrentScaling(ScopesOf(r), now) = "down"

\* Neither the grace period nor upscale-excluded plays a role.
ScalesDown(r) ==
  ~GetExcluded(ScopesOf(r), now) /\ GetCurrentScaling(ScopesOf(r), now) = "down"

\* Mutant: the copy that is scaled down comes without the annotations.
PatchBare(r) ==
  Cluster!ScaleDown([req[r].new EXCEPT !.scope = Unset], GetDownscaleReplicas(ScopesOf(r)))

\* Mutant: an object that has the annotation is taken for scaled down.
PatchUnmarked(r) ==
  IF req[r].new.orig # Unset THEN Cluster!Skip(req[r].new)
  ELSE Cluster!ScaleDown(req[r].new, GetDownscaleReplicas(ScopesOf(r)))

\* Mutant: the original is not recorded.
PatchUnrecorded(r) ==
  LET down == Cluster!ScaleDown(req[r].new, GetDownscaleReplicas(ScopesOf(r)))
  IN IF down.status = "update"
     THEN Cluster!Update([down.obj EXCEPT !.orig = req[r].new.orig]) ELSE down

\* What ScaleDown makes of the object.
Patch(r) == Cluster!ScaleDown(req[r].new, GetDownscaleReplicas(ScopesOf(r)))

mutateWorkload(r) ==
  /\ req[r].pc = "decide"
  /\ \/ /\ ScalesDown(r) /\ Patch(r).status # "error" /\ ~config.DryRun
        /\ req' = [req EXCEPT ![r].pc = "answered", ![r].at = now,
                              ![r].new = Patch(r).obj, ![r].patched = TRUE]
     \/ /\ ~ScalesDown(r) \/ Patch(r).status = "error" \/ config.DryRun
        /\ req' = [req EXCEPT ![r].pc = "answered", ![r].at = now]
  /\ UNCHANGED <<objs, chosen, annotations, now, config, failures>>

RequestStep(r) ==
  \/ HandleWorkloadMutation(r) \/ GetNamespaceScope(r) \/ mutateWorkload(r)
  \/ Persist(r) \/ Refuse(r)

-----------------------------------------------------------------------------
(* Everybody else: the scans, deletions, namespaces, time.                 *)

Scan(w) ==
  /\ \/ \E d \in Targets : Cluster!Downscale(w, d)
     \/ Cluster!Upscale(w)
  /\ req' = Outdate(w)
  /\ UNCHANGED <<annotations, now, config, failures>>

Delete(w) ==
  /\ Cluster!Delete(w)
  /\ req' = Outdate(w)
  /\ UNCHANGED <<annotations, now, config, failures>>

AnnotateNamespace(n) ==
  /\ \E a \in NamespaceAnnotations : annotations' = [annotations EXCEPT ![n] = a]
  /\ UNCHANGED <<objs, chosen, now, config, req, failures>>

Tick ==
  /\ now < MaxTime
  /\ now' = now + 1
  /\ UNCHANGED <<objs, chosen, annotations, config, req, failures>>

-----------------------------------------------------------------------------
Next ==
  \/ \E r \in Request : \/ \E w \in Workload : Submit(r, w)
                        \/ RequestStep(r) \/ TimeOut(r)
  \/ \E w \in Workload : Scan(w) \/ Delete(w)
  \/ \E n \in Namespace : AnnotateNamespace(n)
  \/ Tick

\* The API server and the webhook's handlers make progress.
Fairness == \A r \in Request : WF_vars(RequestStep(r))

Spec == Init /\ [][Next]_vars /\ Fairness

-----------------------------------------------------------------------------
(* Properties.                                                             *)

TypeOK ==
  /\ Cluster!TypeOK
  /\ annotations \in [Namespace -> NamespaceAnnotations]
  /\ now \in 0..MaxTime /\ failures \in 0..MaxFailures
  /\ config \in Configurations
  /\ DOMAIN req = Request
  /\ \A r \in Request :
       /\ req[r].pc \in RequestPc
       /\ req[r].pc # "idle" =>
            /\ req[r].w \in Workload
            /\ req[r].new.kind \in KindsOf[req[r].w]
            /\ req[r].new \in Cluster!Object(req[r].new.kind)
            /\ req[r].patched => req[r].at # Unset

\* The webhook and the scans together never lose an original: an object has a
\* value that somebody asked for, or holds one in its annotation, also if it was
\* patched on its creation or a scan scaled it while a request was in flight.
OriginalChosen == Cluster!OriginalChosen

\* What a scan would decide with the scopes of the request, the grace period
\* aside.
DecisionOf(r) ==
  LET scopes == [i \in 1..5 |-> [ScopesOf(r)[i] EXCEPT !.GracePeriod = Unset]]
  IN ScanDecision(scopes, req[r].new.created, req[r].at)

\* "based on the exact same scaling algorithm": the webhook scales down nothing
\* that a scan, with the annotations it has read and at the time at which it
\* decided, would leave alone or scale up, except that it does not wait for the
\* grace period.
OnlyWhatScansScale == \A r \in Request : req[r].patched => DecisionOf(r) = "down"

\* The request r is persisted as the webhook answered it, the webhook failed on
\* nothing, the namespace and the time are still those it saw, and a scan would
\* scale the workload down now.
ScanWouldFollow(r) ==
  LET w == req[r].w
      scopes == <<objs'[w].scope, annotations[NamespaceOf[w]], scopeCli, scopeEnv, scopeDefault>>
  IN /\ req[r].pc = "answered" /\ req'[r].pc = "idle" /\ objs'[w] # objs[w]
     /\ ~req[r].failed /\ ~config.DryRun /\ w \notin Unparsable \cup Filtered
     /\ req[r].nsScope \in {Unset, annotations[NamespaceOf[w]]}
     /\ req[r].at \in {Unset, now}
     /\ GetScopeFromAnnotations(objs'[w].scope)
     /\ GetScopeFromAnnotations(annotations[NamespaceOf[w]])
     /\ ScanDecision(scopes, objs'[w].created, now) = "down"
     /\ Cluster!ScaleDown(objs'[w], GetDownscaleReplicas(scopes)).status = "update"

\* "If a workload matches the criteria to be scaled down upon creation or
\* update, the Webhook modifies the request": a workload that went through the
\* webhook is not scaled down by the next scan.
MatchingIsModified == [][\A r \in Request : ~ScanWouldFollow(r)]_vars

\* The same, for a webhook whose included resources are without ScaledObjects.
ImmediateCompliance ==
  [][\A r \in Request : ScanWouldFollow(r) => config.IncludeScaledObjects]_vars

\* The request r ends, up to date, without being persisted.
Denied(r) ==
  /\ req[r].pc # "idle" /\ req'[r].pc = "idle"
  /\ ~req[r].outdated /\ objs'[req[r].w] # req[r].new

\* The webhook denies nothing: a request that the optimistic lock does not
\* refuse is persisted, whatever fails, unless the failure policy asks for a
\* denial.
OnlyPolicyDenies == [][\A r \in Request : Denied(r) => config.FailurePolicy = "Fail"]_vars

\* "it does not block the creation or update of workloads in case of errors":
\* every request ends, and none by a denial of the webhook.
NothingIsBlocked ==
  /\ \A r \in Request : req[r].pc # "idle" ~> req[r].pc = "idle"
  /\ OnlyPolicyDenies
=============================================================================
