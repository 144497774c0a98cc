----------------------------- MODULE Downscaler -----------------------------
(***************************************************************************)
(* The scanning process: every scanner lists the workloads, reads the      *)
(* scopes of their namespaces, decides in one goroutine per workload what  *)
(* to do with it, and writes the result back under the API server's        *)
(* optimistic lock. Meanwhile users and controllers change the objects and *)
(* annotations, requests fail or lose their reply, and processes crash with*)
(* requests in flight. Scanners are replicas of the downscaler that run    *)
(* side by side, which happens without leader election and for the length  *)
(* of a handover with it.                                                  *)
(*                                                                         *)
(* A thread <<s, w, 0>> is the goroutine of scanner s for workload w, which*)
(* the cycle waits for; <<s, w, k>> with k > 0 is a goroutine that scales  *)
(* w as the child of another workload, which nobody waits for.             *)
(***************************************************************************)
EXTENDS Scopes, FiniteSets

CONSTANTS   \* the cluster, see WorkloadScaling
  Workload, KindsOf, Targets, UserValues, UserMaxima, Annotations,
  CreationTimes, Children, InitialObjects, Percents, ClassNames, Parsable

CONSTANTS
  Scanner,                \* the replicas of the downscaler
  Resource,               \* the resource types of --include-resources
  ResourceOf,             \* [Workload -> Resource]
  Namespace,
  NamespaceOf,            \* [Workload -> Namespace]
  NamespaceAnnotations,   \* what a namespace's annotations may say
  InitialAnnotations,     \* [Namespace -> NamespaceAnnotations]
  Filtered,               \* workloads that the command line's filters exclude
  Owned,                  \* workloads with a supported controlling owner
  ScaleTarget,            \* [Workload -> what a ScaledObject scales, or Unset]
  scopeCli, scopeEnv, scopeDefault,
  Configurations,         \* the settings of --once and --dry-run to consider
  MaxRetriesOnConflict

CONSTANTS   \* bounds
  Version,                \* resource versions, see FreshVersions
  MaxChildThreads,        \* goroutines for one child at the same time
  MaxTime,                \* the last instant
  MaxDisturbances         \* [Disturbance -> how often it may happen]

Disturbance == {"edit", "annotate", "jobs", "delete", "create", "namespace",
                "failure", "crash"}

Thread == Scanner \X Workload \X (0..MaxChildThreads)

ASSUME DownscalerAssumption ==
  /\ IsFiniteSet(Workload)
  /\ ResourceOf \in [Workload -> Resource]
  /\ NamespaceOf \in [Workload -> Namespace]
  /\ InitialAnnotations \in [Namespace -> NamespaceAnnotations]
  /\ Configurations \subseteq [Once : BOOLEAN, DryRun : BOOLEAN]
  /\ MaxRetriesOnConflict \in Nat /\ MaxChildThreads \in Nat /\ MaxTime \in Nat
  /\ MaxDisturbances \in [Disturbance -> Nat]
  /\ 0..MaxTime \subseteq CreationTimes
  \* The active jobs of a cronjob have it as their controlling owner.
  /\ \A w \in Workload : Children[w] \cup InitialObjects[w].active \subseteq Owned
  /\ Version # {} /\ Unset \notin Version /\ Unset \notin Scaling
  /\ Unset \notin Annotations \cup NamespaceAnnotations
  /\ \A a \in Annotations \cup NamespaceAnnotations \cup {scopeCli, scopeEnv, scopeDefault} :
       a # Malformed => a.DownscaleReplicas \in Targets \cup {Unset}
  /\ scopeDefault.DownscaleReplicas # Unset
  /\ {scopeCli, scopeEnv, scopeDefault} \cap {Malformed, Unset} = {}

VARIABLES
  objs, chosen,   \* the objects of the cluster, see WorkloadScaling
  version,        \* their resource versions
  annotations,    \* the annotations of the namespaces
  now,            \* the time
  config,         \* the runtime configuration, the same for all scanners
  phase,          \* where each scanner is in its cycle
  pending,        \* the resources or namespaces it has yet to ask for
  nsScopes,       \* the namespace scopes it has read
  threads,        \* the goroutines
  metrics,        \* the counters of the current cycle, by namespace
  late,           \* update requests whose process is dead
  budget          \* the disturbances that may still happen

Cluster == INSTANCE WorkloadScaling

ASSUME ClusterAssumption == Cluster!WorkloadAssumption

local == <<phase, pending, nsScopes, threads, metrics>>
cluster == <<objs, chosen, version, annotations>>
vars == <<objs, chosen, version, annotations, now, config, phase, pending,
          nsScopes, threads, metrics, late, budget>>

-----------------------------------------------------------------------------
(* State.                                                                  *)

\* What became of a scanned workload.
Counter == {"downscaled", "upscaled", "excluded", "invalid", "conflict",
            "generic", "parsingWorkload", "parsingNamespace"}

Phase == {"list", "scopes", "scan", "sleep", "exited", "finished"}

\* A thread waits to be scanned (listed), is about to scale, waits for the
\* answer to an update (sent), has been refused by the optimistic lock
\* (conflict), reads the children, holds a child that is not scaled before all
\* of them are read, or has ended (counted by a counter or not).
ThreadPc == {"idle", "listed", "scale", "sent", "conflict", "children", "held",
             "done", "uncounted"}

\* A thread that is not in use.
Idle == [pc |-> "idle", base |-> Unset, ver |-> Unset, scaling |-> Unset,
         replicas |-> Unset, scaleChildren |-> FALSE, retry |-> 0, todo |-> {},
         failed |-> FALSE, own |-> TRUE]

NoMetrics == [n \in Namespace |-> [c \in Counter |-> 0]]
NoScopes == [n \in Namespace |-> Unset]

Init ==
  /\ Cluster!Init
  /\ version = [w \in Workload |-> CHOOSE v \in Version : TRUE]
  /\ annotations = InitialAnnotations
  /\ now = 0
  /\ config \in Configurations
  /\ phase = [s \in Scanner |-> "list"]
  /\ pending = [s \in Scanner |-> Resource]
  /\ nsScopes = [s \in Scanner |-> NoScopes]
  /\ threads = [t \in Thread |-> Idle]
  /\ metrics = [s \in Scanner |-> NoMetrics]
  /\ late = {}
  /\ budget = MaxDisturbances

Spend(disturbance) ==
  /\ budget[disturbance] > 0
  /\ budget' = [budget EXCEPT ![disturbance] = @ - 1]

-----------------------------------------------------------------------------
(* The API server.                                                         *)

\* Resource versions are opaque and only compared for equality: a write takes
\* any that no copy of the object has.
FreshVersions(w) ==
  {v \in Version : /\ v # version[w]
                   /\ \A t \in Thread : t[2] = w => threads[t].ver # v
                   /\ \A r \in late : r.w = w => r.ver # v}

NewVersion(w) ==
  /\ FreshVersions(w) # {}
  /\ version' = [version EXCEPT ![w] = CHOOSE v \in FreshVersions(w) : TRUE]

\* Mutant: an update without a resource version overwrites what is there.
AcceptsAny(w, ver) == objs[w].live

\* The object exists and the request was made from its current version.
Accepts(w, ver) == objs[w].live /\ version[w] = ver

Write(w, o) ==
  /\ objs' = [objs EXCEPT ![w] = o]
  /\ NewVersion(w)
  /\ UNCHANGED <<chosen, annotations>>

-----------------------------------------------------------------------------
(* One cycle of a scanner.                                                 *)

\* Mutant: the workloads are not listed again.
StartCycleUnlisted(s) ==
  /\ phase[s] = "sleep"
  /\ phase' = [phase EXCEPT ![s] = "list"]
  /\ nsScopes' = [nsScopes EXCEPT ![s] = NoScopes]
  /\ metrics' = [metrics EXCEPT ![s] = NoMetrics]
  /\ UNCHANGED <<cluster, now, config, pending, threads, late, budget>>

\* A cycle begins with new counters.
StartCycle(s) ==
  /\ phase[s] = "sleep"
  /\ phase' = [phase EXCEPT ![s] = "list"]
  /\ pending' = [pending EXCEPT ![s] = Resource]
  /\ nsScopes' = [nsScopes EXCEPT ![s] = NoScopes]
  /\ metrics' = [metrics EXCEPT ![s] = NoMetrics]
  /\ UNCHANGED <<cluster, now, config, threads, late, budget>>

\* One list request per resource type: copies of all its objects.
GetWorkloads(s, r) ==
  /\ phase[s] = "list" /\ r \in pending[s]
  /\ threads' = [t \in Thread |->
       IF t[1] = s /\ t[3] = 0 /\ ResourceOf[t[2]] = r /\ objs[t[2]].live
       THEN [Idle EXCEPT !.pc = "listed", !.base = objs[t[2]],
                         !.ver = version[t[2]]]
       ELSE threads[t]]
  /\ pending' = [pending EXCEPT ![s] = @ \ {r}]
  /\ UNCHANGED <<cluster, now, config, phase, nsScopes, metrics, late, budget>>

\* The process is gone, with all its goroutines; what they had sent is still
\* on its way.
Exit(s, end) ==
  /\ phase' = [phase EXCEPT ![s] = end]
  /\ pending' = [pending EXCEPT ![s] = {}]
  /\ nsScopes' = [nsScopes EXCEPT ![s] = NoScopes]
  /\ metrics' = [metrics EXCEPT ![s] = NoMetrics]
  /\ threads' = [t \in Thread |-> IF t[1] = s THEN Idle ELSE threads[t]]
  /\ late' = late \cup {[w |-> t[2], obj |-> threads[t].base, ver |-> threads[t].ver] :
                          t \in {t \in Thread : t[1] = s /\ threads[t].pc = "sent"}}

\* A list request that fails ends the process.
GetWorkloadsFails(s) ==
  /\ phase[s] = "list" /\ pending[s] # {}
  /\ Spend("failure")
  /\ Exit(s, "exited")
  /\ UNCHANGED <<cluster, now, config>>

Listed(s) == {w \in Workload : threads[<<s, w, 0>>].pc = "listed"}

isExternallyScaled(s, w) == \E x \in Listed(s) : ScaleTarget[x] = w

Excluded(s, w) == w \in Filtered \cup Owned \/ isExternallyScaled(s, w)

\* Mutant: excluded workloads are not counted.
FilterUncounted(s) ==
  LET excluded == {w \in Listed(s) : Excluded(s, w)}
  IN /\ phase[s] = "list" /\ pending[s] = {}
     /\ threads' = [t \in Thread |->
          IF t[1] = s /\ t[3] = 0 /\ t[2] \in excluded
          THEN [Idle EXCEPT !.pc = "done"] ELSE threads[t]]
     /\ phase' = [phase EXCEPT ![s] = "scopes"]
     /\ pending' = [pending EXCEPT
          ![s] = {NamespaceOf[w] : w \in Listed(s) \ excluded}]
     /\ UNCHANGED <<cluster, now, config, nsScopes, metrics, late, budget>>

\* Excluded workloads are counted and not scanned; the namespaces of the others
\* are asked for.
FilterExcluded(s) ==
  LET excluded == {w \in Listed(s) : Excluded(s, w)}
  IN /\ phase[s] = "list" /\ pending[s] = {}
     /\ threads' = [t \in Thread |->
          IF t[1] = s /\ t[3] = 0 /\ t[2] \in excluded
          THEN [Idle EXCEPT !.pc = "done"] ELSE threads[t]]
     /\ metrics' = [metrics EXCEPT ![s] = [n \in Namespace |->
          [metrics[s][n] EXCEPT !["excluded"] =
             @ + Cardinality({w \in excluded : NamespaceOf[w] = n})]]]
     /\ phase' = [phase EXCEPT ![s] = "scopes"]
     /\ pending' = [pending EXCEPT
          ![s] = {NamespaceOf[w] : w \in Listed(s) \ excluded}]
     /\ UNCHANGED <<cluster, now, config, nsScopes, late, budget>>

\* Mutant: the namespace is taken off the list only if its scope was read.
GetNamespaceScopeForever(s, n) ==
  /\ phase[s] = "scopes" /\ n \in pending[s]
  /\ GetScopeFromAnnotations(annotations[n])
  /\ pending' = [pending EXCEPT ![s] = @ \ {n}]
  /\ nsScopes' = [nsScopes EXCEPT ![s][n] = annotations[n]]
  /\ UNCHANGED <<cluster, now, config, phase, threads, metrics, late, budget>>

\* The goroutine of one namespace: its annotations become a scope unless they
\* cannot be read or parsed, which is noted on the namespace.
GetNamespaceScope(s, n) ==
  /\ phase[s] = "scopes" /\ n \in pending[s]
  /\ pending' = [pending EXCEPT ![s] = @ \ {n}]
  /\ \/ /\ GetScopeFromAnnotations(annotations[n])
        /\ nsScopes' = [nsScopes EXCEPT ![s][n] = annotations[n]]
        /\ UNCHANGED <<metrics, budget>>
     \/ /\ \/ ~GetScopeFromAnnotations(annotations[n]) /\ UNCHANGED budget
           \/ Spend("failure")
        /\ metrics' = [metrics EXCEPT ![s][n]["parsingNamespace"] = 1]
        /\ UNCHANGED nsScopes
  /\ UNCHANGED <<cluster, now, config, phase, threads, late>>

\* All namespaces are done: the goroutines of the workloads start.
StartScan(s) ==
  /\ phase[s] = "scopes" /\ pending[s] = {}
  /\ phase' = [phase EXCEPT ![s] = "scan"]
  /\ UNCHANGED <<cluster, now, config, pending, nsScopes, threads, metrics, late, budget>>

\* The wait group is done: the counters are published, and goroutines for
\* children that are still running count for nobody from now on. With --once
\* the process ends there and then.
EndCycle(s) ==
  /\ phase[s] = "scan"
  /\ \A w \in Workload : threads[<<s, w, 0>>].pc \in {"idle", "done", "uncounted"}
  /\ \/ config.Once /\ Exit(s, "finished")
     \/ /\ ~config.Once
        /\ phase' = [phase EXCEPT ![s] = "sleep"]
        /\ threads' = [t \in Thread |->
             IF t[1] # s THEN threads[t]
             ELSE IF t[3] = 0 \/ threads[t] = Idle THEN Idle
             ELSE [threads[t] EXCEPT !.own = FALSE]]
        /\ UNCHANGED <<pending, nsScopes, metrics, late>>
  /\ UNCHANGED <<cluster, now, config, budget>>

-----------------------------------------------------------------------------
(* The goroutine of a workload.                                            *)

ScopesOf(t) == <<threads[t].base.scope, nsScopes[t[1]][NamespaceOf[t[2]]],
                 scopeCli, scopeEnv, scopeDefault>>

Count(t, c) ==
  metrics' = IF threads[t].own
             THEN [metrics EXCEPT ![t[1]][NamespaceOf[t[2]]][c] = @ + 1]
             ELSE metrics

\* The thread has ended; the wait group learns of it if it is not a child's.
Ended(t, pc) == IF t[3] = 0 THEN [Idle EXCEPT !.pc = pc] ELSE Idle

End(t, c) == Count(t, c) /\ threads' = [threads EXCEPT ![t] = Ended(t, "done")]

EndUncounted(t) ==
  /\ threads' = [threads EXCEPT ![t] = Ended(t, "uncounted")]
  /\ UNCHANGED metrics

\* Mutant: only the workloads without children are counted.
SucceedUncounted(t, o, c) ==
  IF t[3] = 0 /\ threads[t].scaleChildren
  THEN /\ threads' = [threads EXCEPT ![t] =
            [@ EXCEPT !.pc = "children", !.base = o, !.ver = Unset, !.todo = o.active]]
       /\ UNCHANGED metrics
  ELSE End(t, c)

\* Mutant: the children are scaled only if the parent was updated.
SucceedOnUpdate(t, o, c) ==
  /\ Count(t, c)
  /\ threads' = [threads EXCEPT ![t] =
       IF t[3] = 0 /\ threads[t].scaleChildren /\ threads[t].pc = "sent"
       THEN [@ EXCEPT !.pc = "children", !.base = o, !.ver = Unset, !.todo = o.active]
       ELSE Ended(t, "done")]

\* attemptScaling has succeeded for the copy o: the children are next, if they
\* are to be scaled and the thread is not a child's.
Succeed(t, o, c) ==
  /\ Count(t, c)
  /\ threads' = [threads EXCEPT ![t] =
       IF t[3] = 0 /\ threads[t].scaleChildren
       THEN [@ EXCEPT !.pc = "children", !.base = o, !.ver = Unset, !.todo = o.active]
       ELSE Ended(t, "done")]

\* From the annotations of the copy and the scopes read for this cycle to a
\* decision: the workload's own annotations must parse, and the namespace's
\* scope must be there.
scanWorkload(t) ==
  LET parsed == GetScopeFromAnnotations(threads[t].base.scope)
      namespaceScope == nsScopes[t[1]][NamespaceOf[t[2]]]
      decision == ScanDecision(ScopesOf(t), threads[t].base.created, now)
  IN /\ phase[t[1]] = "scan" /\ threads[t].pc = "listed"
     /\ \/ ~parsed /\ End(t, "parsingWorkload")
        \/ parsed /\ namespaceScope = Unset /\ EndUncounted(t)
        \/ /\ parsed /\ namespaceScope # Unset
           /\ IF decision = "skip" THEN End(t, "excluded")
              ELSE /\ threads' = [threads EXCEPT ![t] =
                        [@ EXCEPT !.pc = "scale", !.scaling = decision,
                                  !.replicas = GetDownscaleReplicas(ScopesOf(t)),
                                  !.scaleChildren = GetScaleChildren(ScopesOf(t))]]
                   /\ UNCHANGED metrics
     /\ UNCHANGED <<cluster, now, config, phase, pending, nsScopes, late, budget>>

\* What ScaleDown or ScaleUp makes of the thread's copy.
Scaled(t) ==
  IF threads[t].scaling = "down"
  THEN Cluster!ScaleDown(threads[t].base, threads[t].replicas)
  ELSE Cluster!ScaleUp(threads[t].base)

ScaledCounter(t) ==
  IF threads[t].scaling = "down" THEN "downscaled" ELSE "upscaled"

\* One attempt, up to the update request. Nothing is sent for a workload that
\* is in the wanted state already, nor in a dry run.
scaleWorkload(t) ==
  /\ threads[t].pc = "scale"
  /\ \/ /\ threads[t].scaling \in {"none", "ignore", "incomplete"}
        /\ Succeed(t, threads[t].base, "excluded")
     \/ threads[t].scaling = "multiple" /\ End(t, "invalid")
     \/ /\ threads[t].scaling \in {"down", "up"}
        /\ \/ Scaled(t).status = "error" /\ End(t, "generic")
           \/ /\ Scaled(t).status = "skip" \/ (Scaled(t).status = "update" /\ config.DryRun)
              /\ Succeed(t, Scaled(t).obj, ScaledCounter(t))
           \/ /\ Scaled(t).status = "update" /\ ~config.DryRun
              /\ threads' = [threads EXCEPT ![t].pc = "sent", ![t].base = Scaled(t).obj]
              /\ UNCHANGED metrics
  /\ UNCHANGED <<cluster, now, config, phase, pending, nsScopes, late, budget>>

\* The update is applied, and the thread learns of it.
UpdateAccepted(t) ==
  /\ threads[t].pc = "sent" /\ Accepts(t[2], threads[t].ver)
  /\ Write(t[2], threads[t].base)
  /\ Succeed(t, threads[t].base, ScaledCounter(t))
  /\ UNCHANGED <<now, config, phase, pending, nsScopes, late, budget>>

\* The update is applied, but its reply is lost: to the thread, an error.
UpdateReplyLost(t) ==
  /\ threads[t].pc = "sent" /\ Accepts(t[2], threads[t].ver)
  /\ Spend("failure")
  /\ Write(t[2], threads[t].base)
  /\ End(t, "generic")
  /\ UNCHANGED <<now, config, phase, pending, nsScopes, late>>

\* Mutant: every refused attempt is counted as a conflict.
UpdateConflictCounted(t) ==
  /\ threads[t].pc = "sent" /\ objs[t[2]].live /\ ~Accepts(t[2], threads[t].ver)
  /\ threads' = [threads EXCEPT ![t].pc = "conflict"]
  /\ Count(t, "conflict")
  /\ UNCHANGED <<cluster, now, config, phase, pending, nsScopes, late, budget>>

\* The optimistic lock refuses the update.
UpdateConflict(t) ==
  /\ threads[t].pc = "sent" /\ objs[t[2]].live /\ ~Accepts(t[2], threads[t].ver)
  /\ threads' = [threads EXCEPT ![t].pc = "conflict"]
  /\ UNCHANGED <<cluster, now, config, phase, pending, nsScopes, metrics, late, budget>>

\* The object is gone, or the request fails on its way.
UpdateFails(t) ==
  /\ threads[t].pc = "sent"
  /\ \/ ~objs[t[2]].live /\ UNCHANGED budget
     \/ Spend("failure")
  /\ End(t, "generic")
  /\ UNCHANGED <<cluster, now, config, phase, pending, nsScopes, late>>

\* Mutant: one attempt too many.
RegetOnceMore(t) ==
  /\ threads[t].pc = "conflict"
  /\ \/ /\ objs[t[2]].live /\ threads[t].retry <= MaxRetriesOnConflict
        /\ threads' = [threads EXCEPT ![t] =
             [@ EXCEPT !.pc = "scale", !.base = objs[t[2]], !.ver = version[t[2]],
                       !.retry = @ + 1]]
        /\ UNCHANGED metrics
     \/ objs[t[2]].live /\ threads[t].retry > MaxRetriesOnConflict /\ End(t, "conflict")
     \/ ~objs[t[2]].live /\ EndUncounted(t)
  /\ UNCHANGED <<cluster, now, config, phase, pending, nsScopes, late, budget>>

\* Mutant: only the resource version is refreshed.
RegetVersion(t) ==
  /\ threads[t].pc = "conflict"
  /\ \/ /\ objs[t[2]].live /\ threads[t].retry < MaxRetriesOnConflict
        /\ threads' = [threads EXCEPT ![t] =
             [@ EXCEPT !.pc = "scale", !.ver = version[t[2]], !.retry = @ + 1]]
        /\ UNCHANGED metrics
     \/ objs[t[2]].live /\ threads[t].retry = MaxRetriesOnConflict /\ End(t, "conflict")
     \/ ~objs[t[2]].live /\ EndUncounted(t)
  /\ UNCHANGED <<cluster, now, config, phase, pending, nsScopes, late, budget>>

\* After a conflict the copy is read again, even if no attempt is left. The
\* decision is the one taken from the copy before it.
RegetWorkload(t) ==
  /\ threads[t].pc = "conflict"
  /\ \/ /\ objs[t[2]].live
        /\ \/ /\ threads[t].retry < MaxRetriesOnConflict
              /\ threads' = [threads EXCEPT ![t].pc = "scale", ![t].base = objs[t[2]],
                                            ![t].ver = version[t[2]], ![t].retry = @ + 1]
              /\ UNCHANGED metrics
           \/ threads[t].retry = MaxRetriesOnConflict /\ End(t, "conflict")
        /\ UNCHANGED budget
     \/ /\ \/ ~objs[t[2]].live /\ UNCHANGED budget
           \/ Spend("failure")
        /\ EndUncounted(t)
  /\ UNCHANGED <<cluster, now, config, phase, pending, nsScopes, late>>

-----------------------------------------------------------------------------
(* The children of a workload.                                             *)

\* The slots that hold the children the thread has read so far.
HeldBy(t) == {c \in Thread : /\ c[1] = t[1] /\ c[2] \in threads[t].base.active
                             /\ threads[c].pc = "held"}

\* One of the goroutines that read the active children: a child that is gone
\* or cannot be read fails them all.
GetChild(t, c) ==
  /\ threads[t].pc = "children" /\ c \in threads[t].todo
  /\ \/ /\ objs[c].live
        /\ \E k \in 1..MaxChildThreads :
             /\ threads[<<t[1], c, k>>] = Idle
             /\ \A j \in 1..(k - 1) : threads[<<t[1], c, j>>] # Idle
             /\ threads' = [threads EXCEPT
                  ![t].todo = @ \ {c},
                  ![<<t[1], c, k>>] = [Idle EXCEPT !.pc = "held",
                     !.base = objs[c], !.ver = version[c],
                     !.scaling = threads[t].scaling, !.replicas = threads[t].replicas]]
        /\ UNCHANGED budget
     \/ /\ \/ ~objs[c].live /\ UNCHANGED budget
           \/ Spend("failure")
        /\ threads' = [threads EXCEPT ![t].todo = @ \ {c}, ![t].failed = TRUE]
  /\ UNCHANGED <<cluster, now, config, phase, pending, nsScopes, metrics, late>>

\* All children are read: they are scaled by goroutines of their own, with the
\* decision and the scopes of the parent, or dropped if one could not be read.
scaleWorkloads(t) ==
  /\ threads[t].pc = "children" /\ threads[t].todo = {}
  /\ threads' = [c \in Thread |->
       IF c = t THEN Ended(t, "done")
       ELSE IF c \notin HeldBy(t) THEN threads[c]
       ELSE IF threads[t].failed THEN Idle
       ELSE [threads[c] EXCEPT !.pc = "scale"]]
  /\ UNCHANGED <<cluster, now, config, phase, pending, nsScopes, metrics, late, budget>>

ThreadStep(t) ==
  \/ scanWorkload(t) \/ scaleWorkload(t)
  \/ UpdateAccepted(t) \/ UpdateConflict(t) \/ UpdateFails(t) \/ UpdateReplyLost(t)
  \/ RegetWorkload(t)
  \/ \E c \in Workload : GetChild(t, c)
  \/ scaleWorkloads(t)

-----------------------------------------------------------------------------
(* Crashes.                                                                *)

Crash(s) ==
  /\ phase[s] \notin {"exited", "finished"}
  /\ Spend("crash")
  /\ Exit(s, "exited")
  /\ UNCHANGED <<cluster, now, config>>

\* The kubelet restarts the container.
Restart(s) ==
  /\ phase[s] = "exited"
  /\ phase' = [phase EXCEPT ![s] = "list"]
  /\ pending' = [pending EXCEPT ![s] = Resource]
  /\ UNCHANGED <<cluster, now, config, nsScopes, threads, metrics, late, budget>>

\* A request of a dead process arrives, or never does.
LateUpdate(r) ==
  /\ late' = late \ {r}
  /\ \/ Accepts(r.w, r.ver) /\ Write(r.w, r.obj)
     \/ UNCHANGED cluster
  /\ UNCHANGED <<now, config, local, budget>>

-----------------------------------------------------------------------------
(* Everybody else.                                                         *)

External(w) ==
  /\ \/ Cluster!SetValue(w) /\ Spend("edit")
     \/ Cluster!Annotate(w) /\ Spend("annotate")
     \/ Cluster!SetActive(w) /\ Spend("jobs")
     \/ Cluster!Delete(w) /\ Spend("delete")
     \/ Cluster!Create(w, now) /\ Spend("create")
  /\ objs' # objs
  /\ NewVersion(w)
  /\ UNCHANGED <<annotations, now, config, local, late>>

AnnotateNamespace(n) ==
  /\ Spend("namespace")
  /\ \E a \in NamespaceAnnotations \ {annotations[n]} :
       annotations' = [annotations EXCEPT ![n] = a]
  /\ UNCHANGED <<objs, chosen, version, now, config, local, late>>

Tick ==
  /\ now < MaxTime
  /\ now' = now + 1
  /\ UNCHANGED <<cluster, config, local, late, budget>>

-----------------------------------------------------------------------------
ScannerStep(s) ==
  \/ StartCycle(s) \/ FilterExcluded(s) \/ StartScan(s) \/ EndCycle(s)
  \/ \E r \in Resource : GetWorkloads(s, r)
  \/ GetWorkloadsFails(s)
  \/ \E n \in Namespace : GetNamespaceScope(s, n)
  \/ Restart(s)

Next ==
  \/ \E s \in Scanner : ScannerStep(s) \/ Crash(s)
  \/ \E t \in Thread : ThreadStep(t)
  \/ \E r \in late : LateUpdate(r)
  \/ \E w \in Workload : External(w)
  \/ \E n \in Namespace : AnnotateNamespace(n)
  \/ Tick

\* The process keeps running: goroutines and cycles make progress, requests
\* are answered, a container that exited is restarted, and time passes. Nobody
\* has to disturb it.
Fairness ==
  /\ \A s \in Scanner : WF_vars(ScannerStep(s))
  /\ \A t \in Thread : WF_vars(ThreadStep(t))
  /\ WF_vars(Tick)

Spec == Init /\ [][Next]_vars

FairSpec == Spec /\ Fairness

-----------------------------------------------------------------------------
(* Properties.                                                             *)

Copy(w, o) == o.kind \in KindsOf[w] /\ o \in Cluster!Object(o.kind)

\* Threads are records with these fields; what they hold depends on how far
\* they have come.
ThreadOK(t) ==
  LET r == threads[t]
  IN /\ r \in [pc : ThreadPc, base : {r.base}, ver : Version \cup {Unset},
               scaling : Scaling \cup {Unset}, replicas : Targets \cup {Unset},
               scaleChildren : BOOLEAN, retry : 0..MaxRetriesOnConflict,
               todo : SUBSET Workload, failed : BOOLEAN, own : BOOLEAN]
     /\ r.pc \in {"listed", "scale", "sent", "conflict", "held"} => r.ver # Unset
     /\ r.pc \in {"listed", "scale", "sent", "conflict", "held", "children"} =>
          Copy(t[2], r.base)
     /\ r.pc \in {"scale", "sent", "conflict", "held", "children"} =>
          r.scaling # Unset /\ r.replicas # Unset

TypeOK ==
  /\ Cluster!TypeOK
  /\ version \in [Workload -> Version]
  /\ annotations \in [Namespace -> NamespaceAnnotations]
  /\ now \in 0..MaxTime
  /\ config \in Configurations
  /\ phase \in [Scanner -> Phase]
  /\ pending \in [Scanner -> SUBSET (Resource \cup Namespace)]
  /\ nsScopes \in [Scanner -> [Namespace -> NamespaceAnnotations \cup {Unset}]]
  /\ metrics \in [Scanner -> [Namespace -> [Counter -> Nat]]]
  /\ DOMAIN threads = Thread /\ \A t \in Thread : ThreadOK(t)
  /\ \A r \in late : /\ r \in [w : Workload, obj : {r.obj}, ver : Version]
                     /\ Copy(r.w, r.obj)
  /\ budget \in [Disturbance -> Nat]

\* Every write is an atomic step of the current object: a scanner that works
\* from a stale copy, retries, loses a reply or dies with a request in flight
\* still only ever applies one ScaleDown or ScaleUp to the object as it is.
WritesAreAtomic == Cluster!Spec

\* The optimistic lock: a copy with the object's version is the object, and a
\* request with the object's version is that object scaled.
LockInv ==
  /\ \A t \in Thread :
       /\ threads[t].pc \in {"listed", "scale", "held"}
            /\ Accepts(t[2], threads[t].ver) => threads[t].base = objs[t[2]]
       /\ threads[t].pc = "sent" /\ Accepts(t[2], threads[t].ver) =>
            Cluster!ScaledFrom(threads[t].base, objs[t[2]])
  /\ \A r \in late : Accepts(r.w, r.ver) => Cluster!ScaledFrom(r.obj, objs[r.w])

\* Every scanned workload is counted exactly once, whatever retries it took,
\* unless its namespace scope was missing or its copy could not be read again.
\* Goroutines for children add to the counters of their parent's namespace.
MetricsAccount ==
  \A s \in Scanner, n \in Namespace :
    LET m == metrics[s][n]
        total == m["downscaled"] + m["upscaled"] + m["excluded"] + m["invalid"]
                 + m["conflict"] + m["generic"] + m["parsingWorkload"]
        counted == {w \in Workload : /\ NamespaceOf[w] = n
                                     /\ threads[<<s, w, 0>>].pc \in {"done", "children"}}
    IN phase[s] \in {"list", "scopes", "scan"} =>
         /\ total >= Cardinality(counted)
         /\ Owned = {} => total = Cardinality(counted)

\* A workload that is scanned in earnest: no filter excludes it.
Scanned(w) ==
  /\ objs[w].live /\ w \notin Filtered \cup Owned
  /\ ~\E x \in Workload : objs[x].live /\ ScaleTarget[x] = w

\* The scopes of w as they are now, and what they ask for.
CurrentScopes(w) ==
  <<objs[w].scope, annotations[NamespaceOf[w]], scopeCli, scopeEnv, scopeDefault>>

Decision(w) ==
  IF /\ GetScopeFromAnnotations(objs[w].scope)
     /\ GetScopeFromAnnotations(annotations[NamespaceOf[w]])
  THEN ScanDecision(CurrentScopes(w), objs[w].created, now)
  ELSE "skip"

\* Nothing is left to do for object o under the scopes of w.
Settled(o, w) ==
  /\ Decision(w) = "down" =>
       Cluster!ScaleDown(o, GetDownscaleReplicas(CurrentScopes(w))).status # "update"
  /\ Decision(w) = "up" => Cluster!ScaleUp(o).status # "update"

\* The process keeps scanning in earnest.
KeepsScanning == ~config.Once /\ ~config.DryRun

\* Once people stop changing things and the network stops failing, every
\* workload reaches the state its scopes ask for and stays there: no conflict,
\* lost reply, crash or stale decision is left uncorrected.
EventuallySettled ==
  <>[](KeepsScanning => \A w \in Workload : Scanned(w) => Settled(objs[w], w))

\* With scale-children, so do the active jobs of a workload, although nobody
\* waits for their goroutines: the next cycles make up for the ones that fail.
\* (An active job that no longer exists keeps the others from being read.)
EventuallyChildrenSettled ==
  <>[](\A w \in Workload :
         /\ KeepsScanning /\ Scanned(w) /\ Decision(w) # "skip"
         /\ GetScaleChildren(CurrentScopes(w))
         /\ \A c \in objs[w].active : objs[c].live
         => \A c \in objs[w].active : Settled(objs[c], w))

\* "Makes the Downscaler only scan once before exiting": whatever fails or
\* conflicts on the way, the wait group is released and the process ends.
OnceFinishes ==
  <>(config.Once => \A s \in Scanner : phase[s] = "finished")

\* "Excludes the workload from being scaled": an update of the thread of a
\* workload never scales down an object whose own annotations exclude it at
\* that moment by an exclude-until time that is not over, unless it repeats an
\* attempt that met a conflict: a retry does not decide again.
RespectsExclusion ==
  [][\A s \in Scanner, w \in Workload :
       LET t == <<s, w, 0>>
       IN /\ threads[t].pc = "sent" /\ threads'[t] # threads[t]
          /\ threads[t].retry = 0 /\ threads[t].scaling = "down" /\ objs'[w] # objs[w]
          /\ GetScopeFromAnnotations(objs[w].scope)
          => objs[w].scope.ExcludeUntil = Unset \/ objs[w].scope.ExcludeUntil <= now
    ]_vars
=============================================================================
