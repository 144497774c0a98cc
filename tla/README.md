# GoKubeDownscaler in TLA+

The downscaler is a controller that scans the workloads of a Kubernetes cluster, decides from annotations and
flags whether each one should be scaled down or up at the moment, and patches the objects accordingly. It keeps
no state of its own: all it knows about a workload that it scaled down is the annotation
`downscaler/original-replicas` on the object. This directory models what it decides, what it does to the objects
and how scans interleave with each other, with users and with failures; TLC checks the models on small
instances, and TLAPS proves the safety properties for all instances.

Paths below are relative to `src/`.

## 1. Inventory

| Component | State | Operations | Correct when |
|---|---|---|---|
| Scope resolution (`internal/pkg/values/scope.go`) | none; reads five scopes (workload, namespace, cli, env, default) and the clock | `GetCurrentScaling`, `GetExcludedWithScope`, `GetUpscaleExcluded`, `GetDownscaleReplicas`, `GetScaleChildren`, `IsInGracePeriod` | the loops decide as the documented value groups say; a timespan that cannot be evaluated never scales |
| Annotation, flag and env parsing (`values/scopeParser.go`, `pkg/util/config.go`) | the scopes | `GetScopeFromAnnotations`, `ParseScopeFlags`, ... | all of a scope or nothing of it is applied |
| Timespans (`values/timespan.go`, `values/dayTime.go`) | none; reads the clock once per span | `inTimeSpans`, `isTimeInSpan` of four types, `defaultTimeSpan` | spans that wrap around midnight or the week contain the right instants; a span and its reverse leave no gap |
| Replica values (`values/replicas.go`) | none | `Set`, `AsInt32`, `AsBool`, ... | what ScaleDown writes can be read back |
| Workload interface (`internal/pkg/scalable/`: `replicaScaledWorkloads.go`, `suspendScaledWorkloads.go`, `nodeSelectorScaledWorkload.go`, `valueScaledWorkloads.go`, `poddisruptionbudgets.go`, and the getters and setters of the 24 resource types) | the copy of one object | `ScaleDown`, `ScaleUp`, `GetChildren`, `Reget`, `Update` | the original value is never lost; scaling twice changes nothing more |
| Filters (`scalable/util.go`) | the listed workloads | `FilterExcluded`, `isExternallyScaled`, ... | a workload is left out or scanned, and counted either way |
| Kubernetes client (`internal/api/kubernetes/client.go`) | connections | `GetWorkloads`, `GetNamespacesScopes`, `RegetWorkload`, `DownscaleWorkload`, `UpscaleWorkload`, `GetChildrenWorkloads` | an update is applied only to the version it was made from |
| Scan cycle (`cmd/kubedownscaler/main.go`) | goroutines, wait group, counters | `startScanning`, `scanWorkload`, `attemptScaling`, `scaleWorkload`, `scaleWorkloads` | every workload reaches the state its scopes ask for, whatever fails on the way; a cycle ends; each workload is counted once |
| Scan counters and gauges (`internal/pkg/metrics/`) | counters by namespace, shared by goroutines; the gauges of the last cycle | `Increment...`, `UpdateMetrics` | the counters of a cycle add up |
| Leader election (`main.go`, `runWithLeaderElection`; `client.CreateLease`) | the lease, the elector, the context of the scan | `OnStartedLeading`, `OnStoppedLeading`, signals | at most one replica that keeps up with its renewals leads; somebody leads again after every failure; a deposed leader stops |
| Admission webhook (`internal/api/kubernetes/admission/`, `cmd/admissioncontroller/`) | none | `HandleWorkloadMutation`, `evaluateWorkloadMutation`, `mutateWorkload`: scale an object down as it is created or updated | agrees with what the next scan would do; loses no original; blocks nobody |
| Webhook server (`cmd/admissioncontroller/main.go`, `metrics/admissionMetrics.go`) | how far the start has come, requests in progress, counters by namespace, the listing of namespaces | `main`, `startManager`, `serveValidateWorkloads`, `cleanDeletedNamespaceMetrics` | every replica comes to serve; the counters of deleted namespaces go |
| Certificates (`kubernetes/certificates.go`, `client.ensureSecret`) | the secret | `AddCertificateRotation`, `ensureSecret` | replicas that start together do not keep each other from starting |
| Events, chart, website | none | | not modelled, see section 8 |

How they interact: `startScanning` calls the client for lists and namespaces, then runs one goroutine per
workload; these share the counters, and each works on its own copy of an object, taken when it was listed. The
copy is written back with its resource version, so the API server refuses it if anybody else wrote in between;
then the goroutine reads the object again and retries, with the decision that it took before. A workload with
children (a cronjob and its jobs) starts further goroutines for them that nobody waits for. The webhook is another
process: the API server asks it about every object that somebody else creates or updates, before it is stored, and
it answers with a patch made by the same `ScaleDown`, from the object in the request and a namespace it reads then.
With `--leader-election` the loop of `startScanning` runs in a goroutine of the elector, under a context that is
cancelled when the process stops leading, and an error of the scan cancels the process. The replicas of the webhook
share the secret of their certificates and nothing else.

What is hard: copies, namespace scopes and decisions that are stale when they are used; several replicas of the
downscaler at work at the same time; updates that take effect although the caller saw an error or has died;
goroutines of an earlier cycle that run next to those of the current one; the resource types being listed one
after the other, so that a ScaledObject and its target may be seen at different times; users who change a
workload while it is scaled down; leaders that stall or cannot renew, and die with the lease held; counters written
next to their cleanup; error paths that skip a counter or cut an evaluation short. `PROJECT.json`
lists these hazards with the line at which each one bites and the properties that would catch it.

## 2. Modules

```
Scopes -----------+- ScopeResolution ----- MCScopeResolution
                  +- TimeSpans ----------- MCTimeSpans
                  +- Downscaler ---------- MCDownscaler
                  |      | INSTANCE (refinement)
Scalable ---------|- WorkloadScaling ----- MCWorkloadScaling
                  |      | INSTANCE
                  `- Admission ----------- MCAdmission

Leadership
    ^ INSTANCE (refinement)
LeaderElection ------- MCLeaderElection
WebhookServer -------- MCWebhookServer

ScopesProofs (lemmas about Scopes) --+- ScopeResolutionProofs
                                     +- TimeSpansProofs
                                     +- DownscalerProofs ---. INSTANCE
                                     `- AdmissionProofs ----+-> WorkloadScalingProofs
LeaderElectionProofs, WebhookServerProofs
```

Each module of proofs extends the module it is named after. `DownscalerProofs` and `AdmissionProofs` take what is
proved of the atomic specification from `Facts == INSTANCE WorkloadScalingProofs`.

**Scopes** - the pure part of the decision. A scope is a record of the fields of the Go struct, `Unset` where the
struct has nil. A timespan is the set of instants it matches, or `Incomplete` if no scope supplies its timezone or
week frame, so that evaluating it is an error. `GetCurrentScaling`, `GetExcluded`, `IsInGracePeriod` and
`ScanDecision` follow the loops and early returns of `scope.go` and of `scanWorkload`: in particular that an
inactive force value yields "ignore", which ends the search for force values but not for schedules, and that an
error in `exclude` returns before `exclude-until` is looked at.

**ScopeResolution** - one workload whose annotations and namespace annotations are rewritten while time passes. The
operators of Scopes are compared with the documented rules (value groups, most specific scope first), stated
without loops.

**TimeSpans** - the inside of a timespan: relative spans (weekdays, times of day, timezone, missing values filled
from the scopes), absolute, directional and boolean ones, and the loop of `inTimeSpans`, one iteration per step
(`CheckTimeSpan`), between which the clock moves (`Tick`). `Instants` and `Documented` give the set of instants of a span by
enumeration, without comparing ends; it is the abstraction that Scopes uses. A timezone is a function from
instants to offsets, positive or negative, so that a change of daylight saving time is one, too.

**Scalable** - `ScaleDown` and `ScaleUp` of the five implementations of the interface on the copy of an object, as
functions from an object to `skip`, `update` or `error` and the new copy. The 24 resource types become eight kinds
by what their getters and setters accept: replicas, scaledobject (the missing paused-replicas annotation is the
sentinel -1; no savings are reported), hpa (at least 1, clamped to `maxReplicas`), suspend, nodeselector (DaemonSets),
service, class (Ingress, Gateway) and pdb. `Percents` are the percentages, distinct as targets and as budgets. Whether the annotation can be read back is a property of the value (`Parsable`):
`ReplicasValue.Set` accepts words of letters only. `SavedResources` is what a downscale, and every later scan of the
workload, adds to the saved resources, in units of what one pod requests.

**WorkloadScaling** - the abstract specification of the downscaler. Objects change by an atomic `Downscale` or
`Upscale` of their current state or by the hand of somebody else (`SetValue`, `Annotate`, `SetActive`, `Delete`,
`Create`). The history variable `chosen` collects the values that somebody else gave to a workload.

**Downscaler** - the scanning process, one action per step between two points at which others can interfere:

| State | In the code |
|---|---|
| `phase`, `pending` | where `startScanning` is: listing resource types one by one, asking for namespaces, waiting for the goroutines, sleeping; exited, or finished with `--once` |
| `nsScopes` | the map `namespaceScopes`; `Unset` is a missing key |
| `threads` | the goroutines: program counter, copy (`base`) and resource version, decision, attempt, children still to be read. `<<s, w, 0>>` is what the wait group waits for, `<<s, w, k>>` scales `w` as a child |
| `metrics` | the counters of the current cycle by namespace; a goroutine left over from an earlier cycle holds the counters of that cycle (`own` is false) |
| `objs`, `version`, `annotations` | the API server |
| `late` | update requests that were sent by a process that has died since |
| `budget` | how many more disturbances may happen |

| Actions | In the code |
|---|---|
| `StartCycle`, `GetWorkloads`, `GetWorkloadsFails`, `FilterExcluded`, `GetNamespaceScope`, `StartScan`, `EndCycle` | `startScanning`, `client.GetWorkloads`, `FilterExcluded`, `GetNamespacesScopes` |
| `scanWorkload` | parsing the annotations of the copy, finding the namespace scope, deciding |
| `scaleWorkload` | one attempt: the five scaling states, ScaleDown or ScaleUp on the copy, dry run, sending the update |
| `UpdateAccepted`, `UpdateConflict`, `UpdateFails`, `UpdateReplyLost` | the four answers to the update |
| `RegetWorkload` | after a conflict, also when no attempt is left |
| `GetChild`, `scaleWorkloads` | reading the children in parallel, all or nothing, then one goroutine each |
| `Crash`, `Restart`, `LateUpdate` | the process dies at any point and is restarted; its requests arrive later or never |
| `External`, `AnnotateNamespace`, `Tick` | users, controllers, the clock |

`Cluster == INSTANCE WorkloadScaling` is the refinement: the abstract variables `objs` and `chosen` are the
variables of the same names, and `WritesAreAtomic == Cluster!Spec` is checked as a property.

**Admission** - the webhook and the API server around it. A request (`req`) carries the new object; the webhook takes
three steps for it: `HandleWorkloadMutation` (parse, filter, external scaling), `GetNamespaceScope` (the annotations of
the object and of the namespace) and `mutateWorkload` (decide and patch); then the API server stores the object
(`Persist`), or refuses it if the object changed meanwhile (`Refuse`). `TimeOut` is a webhook that cannot be reached or
answers too late: the `failurePolicy` of the chart, `Ignore` by default and configurable, lets the request through or
denies it. Scans go on at any time as the atomic operations of WorkloadScaling, which is what the refinement of
Downscaler justifies; the downscaler's own requests bypass the webhook, as the chart's match condition
`exclude-downscaler-origin` has it. `IncludeScaledObjects` is whether `scaledobjects` is in `--include-resources`.

**Leadership** - what an election promises: at most one replica is in charge, and one is put in charge only while
nobody is (`Take`, `Yield`).

**LeaderElection** - the process under `--leader-election`, around the scan that Downscaler details:

| State | In the code |
|---|---|
| `lease` | the holder in the Lease object; `IsLeader` compares it with the hostname, which a restarted container keeps (`CreateLease`) |
| `phase` | candidate, leader; `givingUp`: the renew deadline has passed, the lease is being released and the context of the scan is still alive; `cancelled`: the context is cancelled, the lease is being released; down; lost with its node |
| `watch`, `seen`, `due` | the clock of a replica relative to the record it observed or to its last renewal; whether it has observed the current record; whether it has yet to make its attempt of this unit |
| `pace` | `stalled` without processor time, `late` from then until it renews |
| `outage` | the requests of this replica may fail, or succeed without an answer |
| `scan`, `current`, `previous`, `gauges` | where `startScanning` is, the two maps of namespace metrics, what the process exposes |

`Attempt` is one round of the elector (`Acquire`, `Decline` or `FailAttempt`), `GiveUp` and `Release` the end of a
reign (`ReleaseOnCancel`), `BeginCycle` and `FinishCycle` the scan, with `UpdateMetrics`. The elector belongs to
client-go and is modelled from the configuration that `runWithLeaderElection` gives it: lease 30 s, renew deadline
20 s, retry 5 s, counted in units of 5 s. The refinement mapping takes for `charged` the leaders that have been
running since their last renewal (`InCharge`); a leader that stalled may act for a moment without being in charge,
which is the case the run `race` covers for the workloads.

**WebhookServer** - the processes around the handler: `Start`, `GetSecret`, `CreateSecret`, `Rotate` (the rotator of the
certificates and the manager that runs it), `Receive` and `Answer` (a request in progress and its counter),
`ListNamespaces`, `DeleteNamespaceMetrics` and `EndCleanup` (the cleanup: a listing, the deletions of the loop one by
one, with requests counted in between, and the listing kept for the next time). A process ends by `os.Exit`, by a
return of main, by a `Crash`, or by a `Signal`, except that main does not look at its context while it waits for
certificates (`cmd/admissioncontroller/main.go:148`): such a process is `stopped`, without manager and rotator, until
the kubelet kills it (`Kill`). `unlisted` is an auxiliary variable: the namespaces with counters that the last listing
did not contain.

## 3. Runs

| Run | Instance | What it shows |
|---|---|---|
| `scope_resolution` | 15 workload, 8 namespace and 5 cli scopes in all combinations, 4 instants, 3 creation times | `ValueGroupsDecide`, `IncompleteNeverScales`, `ExcludeIsOverridden`, `ExcludeUntilExcludes`: the loops implement the documented rules, with one exception (section 6) |
| `workload_scaling` | one name whose objects may be of every kind, downscale values 1, 3 and a percentage that follow each other in any order, user's values below, between and above them, two percentages as budgets | `OriginalChosen` and its inductive form `OriginalInv`: only a lowered downscale value loses an original; `Settles`: no flapping; `HpaWithinBounds`; `SavingsAreSteady`: every scan reports the savings of the downscale, and a negative one only after the downscale value was raised above the original |
| `race` | two scanners, one deployment, one retry; a user's edit, a namespace that asks for up, then down, then up again, a failed or unanswered request, a crash with requests in flight | `WritesAreAtomic` and `LockInv` under all interleavings |
| `children` | one scanner, a cronjob with `scale-children` and a job that starts, ends, disappears, comes back | `EventuallyChildrenSettled`; the counters stay sound with goroutines that outlive their cycle |
| `keda` | one scanner, a deployment, a ScaledObject that may be created to scale it, malformed annotations, `exclude-until`, failures, a crash, all four settings of `--once` and `--dry-run` | `EventuallySettled`, `OnceFinishes`, `MetricsAccount` over conflicts and retries, and `RespectsExclusion`: only a retry may overlook an exclusion |
| `timespans` | seven days of three hours of two minutes, three timezones, one of which changes its offset and one behind UTC, lists of one and two spans of all types, with and without defaults | `EvaluationAgrees`: the comparisons match the documented set of instants; `ReversedIsTheRest`: no gap, no overlap; `AnswerIsTimely`: reading the clock per span |
| `admission` | one request at a time on one name, a deployment or an ingress; a namespace that excludes or is malformed; malformed objects; a failure, or a timeout with either failure policy; dry run; scans, deletions and creations in between | `OriginalChosen` for webhook and scans together; `OnlyWhatScansScale` and `ImmediateCompliance`: the webhook scales down what a scan would, no more and no less; `NothingIsBlocked`: every request ends, and none by a denial of the webhook |
| `leader_election` | two replicas, one namespace; two faults among crashes of a container or a node, stalls, outages with lost replies, signals | `LeaseProtects`: while a leader runs, the lease is its own until it gives up; `ImplementsLeadership`; `HandsOver`: there is always a leader again; `DeposedStops`; `GaugesAreCurrent` |
| `webhook_server` | two replicas, one namespace that comes and goes, three settings of metrics and certificate rotation; two faults among failed requests, crashes, signals, lost certificates | `EventuallyServes`; `SeriesAreAccounted` and `DeletedAreForgotten`: what the cleanup deletes next to requests |
| `restorable`, `admission_scaledobjects`, `once_election` | | the three disagreements of section 6 |

Every property of a passing run has a mutant: an operator that changes one definition the way a plausible bug
would (an update without a resource version, a retry that refreshes only the version, a counter left out, a loop
that does not move on after an error, ...) and for which TLC reports the property violated.

### Bounds

- `MaxDisturbances` bounds how often each kind of disturbance happens, usually once. Each property needs one
  interference at one unlucky moment to be violated, and the moment is arbitrary. Nothing bounds the number of
  cycles: a run contains arbitrarily many scans.
- `Version` has five values. Resource versions are only compared for equality, so a write may take any version that
  no copy and no request still holds (`FreshVersions`); five are enough for that set never to be empty in these
  instances, because at most four copies of one object exist at a time.
- `MaxTime` is 1: the schedule changes once, from down to up, at any moment of a cycle (in `race` the namespace
  forces up before). In `scope_resolution` it
  is 3, so that timespans can overlap on both sides.
- `MaxChildThreads` is 1: a goroutine left over from an earlier cycle makes the next cycle wait with reading that
  child, where the code would start another one. The two would meet through the optimistic lock in the same way
  as two scanners do.
- `MaxRetriesOnConflict` is 1 in `race` and `keda`, 0 in `children`; the loop treats all attempts but the last one
  alike.
- In `timespans` an hour has few minutes and a day few hours: all comparisons are on minutes of the day and on
  weekdays, and every order of two ends and an instant occurs. `MaxDelay` bounds the time an evaluation takes.
- In `admission` one request is in flight at a time; a second one would meet the first through the optimistic lock,
  as a scan does. One value per kind is enough for the user, since the property tells chosen values from
  downscaled ones. `MaxFailures` is 1. There is one downscale value, since `workload_scaling` has several and the
  theorem holds for any.
- `leader_election` has two replicas: a third one would be another candidate, and candidates meet only through the
  lease. `MaxFaults` is 2, so that a failure meets the recovery from another one (an outage during a stall, a crash
  after a handover). The stopwatches stop at the durations that matter. One namespace is enough, since the gauges
  of each are set and deleted apart from all others; likewise in `webhook_server`, where `MaxChanges` 3 lets it be
  created, deleted and created again, and counted between its deletion from the registry and the end of the loop.
- `CHECK_DEADLOCK FALSE` appears in `keda`, because with `--once` the process is supposed to end, and in
  `webhook_server`, where replicas without metrics have nothing left to do when there are no requests. `race` uses
  symmetry of the two scanners and checks no liveness.

### Fairness

`FairSpec` assumes weak fairness of each scanner, each goroutine and the clock: the Go scheduler runs every
goroutine, a request is answered or times out, the kubelet restarts a container that exited, time passes. Nothing
is assumed about users, failures and crashes, which are bounded by `budget`: the liveness properties say what
happens once they stop. Late requests need no fairness, they may be lost. An update that is never answered does
not occur, which is what the client's timeout gives. In Admission the steps of a request are weakly fair: the
server runs one goroutine per request, and the API server waits for no longer than the configured timeout.
In LeaderElection time passes, goroutines that can go on do, the kubelet restarts containers, stalls and outages end;
in WebhookServer likewise, and the ticker ticks. In neither is any fault fair, nor that a request comes.

## 4. Proofs

Every safety property of the passing runs is also a theorem, for all values of the constants that satisfy the named
assumptions. None of these bounds a size: sets of workloads, replicas, requests, scopes and timespans are arbitrary
(workloads finitely many, for the counters), and so are the bounds on faults, retries and time.

**WorkloadScalingProofs**, from `WorkloadAssumption` (objects are well-formed, targets are numbers from 0 or a
percentage, the class name the downscaler sets is one that parsing refuses).

- `TypeCorrect`: ScaleDown and ScaleUp write no value outside the kind. `ScaleDownUpdate` and `ScaleUpUpdate` describe
  what an update of any kind consists of; all later proofs about objects rest on these two.
- `OriginalInvariant`, `OriginalKept`: `OriginalChosen` is not inductive: it says nothing of the value of a workload
  that is scaled down, so the next ScaleDown might record a value that an earlier one wrote. `OriginalInv` adds that
  a value that is neither chosen nor superseded is a downscaled one for every target the kind takes (then ScaleDown
  leaves it alone: `DownAfterScaleDown`, `DownOrSuperseded`, `IsDownDepends`), that the maximum to which an hpa is clamped was chosen by somebody, and that the annotation of a
  DaemonSet says what ScaleUp restores without reading it. `Superseded` are the targets that a lower one (for a
  budget: another one) makes look like somebody's choice; the theorems hold for any set of targets, and with a single
  one nothing is superseded (`NothingSuperseded`).
- `ScanningSettles`: `Settles` for any targets, from the same lemmas.
- `HpaStaysWithinBounds`: assumes that the minima users ask for, and those of the initial hpas, are ones the API server
  accepts; it is inductive as it stands.
- `SavingsStaySteady`: needs `SavingsInv`, that a recorded original is above some target, the one it was recorded
  for; a negative saving then means that the target was raised beyond it (`NegativeIsRaised`). For any targets.

**DownscalerProofs**, from `DownscalerAssumption` and `ClusterAssumption` (the assumption of WorkloadScaling). Among the
former: `Workload` is finite, `Unset` is no version, no scaling state and no annotations, and active jobs have a
controlling owner (which the cronjob controller sets, and by which the filters exclude them).

- `TypeCorrect`, `LockHolds`: the inductive invariant `Inv` joins the types with `Locked` for each thread and
  `LateInv` for each request of a dead process: a copy whose version is the object's *is* the object, and a request
  whose version is the object's was made from it. A write takes a version that nobody holds, which makes all other
  copies stale (`StaleRecord`). One lemma per way a thread's record changes (`DecidedRecord`, `SentRecord`,
  `RegetRecord`, `HeldRecord`, ...).
- `ScansAreAtomic`: `Spec => Cluster!Spec`. By the lock, an accepted update is a ScaleDown or ScaleUp of the current
  object (`AcceptedIsScaled`, `LateIsScaled`), everything else leaves the objects alone or is a step of somebody else.
- `OriginalKeptByScans`, `HpaKeptByScans`: the theorems about the atomic specification, carried over.
- `ExclusionRespected`: `RespectsExclusion`, if all `exclude` values can be evaluated (`ExclusionsEvaluable`; otherwise
  it is false, see the first exception in section 6). `ExclusionInv` says that a first attempt was decided from
  annotations that did not exclude (`DownIsNotExcluded`); time only ends such an exclusion, scaling keeps the
  annotations (`ScaledKeeps`), and the lock makes the annotations of the copy those of the object.
- `CountersAccount`: `MetricsAccount` is strengthened to hold in every phase (`AccountInv`, also checked by TLC), with
  `CycleInv`, that the goroutine of a workload moves with its cycle and counts for the current one, and `Childless`,
  that without owned workloads no goroutine for a child exists. `ThreadShape` reduces the steps of a goroutine to two:
  it counts once and is done, or it does neither.

**AdmissionProofs**, from `AdmissionAssumption` and `ClusterAssumption` (annotations that parse are scopes with all
fields, and the default scope sets downscale replicas).

- `TypeCorrect`, `WebhookFollowsScans`, `WebhookComplies`: `Inv` says of every request what the webhook has done to its
  object: a patched object is ScaleDown of the one asked for, at a time at which its scopes asked for it.
  `OnlyWhatScansScale` follows with `GraceAside` (a decision without grace period is the rest of the decision), and the
  action property `ImmediateCompliance` with `Settles`.
- `OriginalKeptByWebhook`: `OriginalInv` for the stored objects and, for each request that is not outdated, for the
  object it would store (`Keeps`). For any targets.
- `NothingIsDenied`: of the steps that end a request, `Persist` stores it, `Refuse` finds it outdated, and only `TimeOut`
  under the policy `Fail` does neither.

**ScopeResolutionProofs**, from `ConfigurationAssumption`. No state is kept from one decision to the next, so the
properties follow from `TypeOK`: the loops stop at the first scope that decides (`FirstNotNoneIsFirst`,
`FirstSetIsFirst`, `LoopStopsAtDeciding`), and compatible scopes have at most one schedule (`ScopesAreCompatible`).
`GroupsDecide`, `IncompleteIsReported`, `ExcludeOverrides`, `ExcludeUntilProtects`.

**TimeSpansProofs**, from `TimeAssumption`, `ListAssumption` (the lists have the shape that parsing gives them)
and `MissingAssumption` (`Incomplete` and `Unset` are not sets of instants). `SpanMeans` shows that the comparisons of
each type of span agree with the documented set of instants, for any length of an hour and a day and any timezone;
`WeekdaysWrap` and `TimesWrap` are the wrap-around. `LoopInvariant` keeps, for the loop, that the spans left behind did
not match when they were asked, from which `EvaluationIsRight` and `AnswersAreTimely` follow; `ReversedSpansSplitDays`.

**LeaderElectionProofs**, from `LeaderElectionAssumption`: `LeaseIsSafe` by `ElectionInv`: a replica in charge is named
in the lease, and a candidate that has seen its record has counted for no longer than it has, hence for at most
`GiveUpAfter`, which is less than `LeaseDuration`. `ElectionRefinesLeadership` (the safety part of Leadership) and
`GaugesStayCurrent`.

**WebhookServerProofs**, from `WebhookServerAssumption`: `NoSeriesEscapes` needs `Accounted`, the same within a cleanup,
where the new listing and the rest of the loop account for a series, and `IdleKeepsNothing`, that a process that does not serve has no request, cleanup or counters left
over (`NothingSurvivesExit`).

Model-checked only, because liveness under fairness is out of the prover's reach: `EventuallySettled`,
`EventuallyChildrenSettled`, `OnceFinishes`, `HandsOver`, `DeposedStops`, `EventuallyServes`, `DeletedAreForgotten` and
the part of `NothingIsBlocked` that every request ends. The three disagreements of section 6 are TLC's counterexamples.

Assumptions about the world that both rest on: the API server applies an update exactly if the object has the
version the update was made from; nobody but the downscaler writes the `original-replicas` annotation.

## 5. What the checks show

Under crashes, lost replies, concurrent replicas and leftover goroutines every write is a ScaleDown or ScaleUp of
the object as it is at that moment, so that everything proved about the atomic specification holds for the
process: the original state is lost to a change of `downscale-replicas` at most. After the disturbances stop, every scanned
workload and every active job reaches the state that its scopes ask for. With `--once` the process ends. The
webhook, when it works on a request without an error, leaves nothing to do for the scan that follows, and with
errors it leaves the request alone; it differs from a scan in that it does not wait for the grace period, although
the documentation speaks of "the exact same scaling" (`website/content/docs/2 - downscaler/0 - scopes/index.mdx:109`).
`AnswerIsTimely` has a limit: that no span of a list of several matched may hold at no single moment, if one
span ends and the next one begins while they are being asked; the scan after the next interval corrects it.

Of the election: the chosen durations leave one unit of 5 s between the moment a leader gives up and the moment
anybody else may take over, as long as its process runs. A process that stalls is the exception that no lease can
exclude; it may finish requests after its successor has started, and `WritesAreAtomic` says that this does no harm to
the workloads. Of the webhook: two replicas that start together may each exit once or more often, over the creation
of the secret and over its refresh, and serve in the end; one that is told to end while it waits for its certificates
does so only when it is killed. `SeriesAreAccounted` shows what the cleanup can miss: the
counters of a namespace that was created and deleted between two listings, or whose last request outlived the
listing, or was counted after the loop had deleted it, stay until the namespace comes back or the process ends.

## 6. Disagreements between the code and its documentation

1. `restorable`: a NodePort or ExternalName Service, and an Ingress or Gateway whose class name has characters
   other than letters, are scaled down with an original value that ScaleUp refuses
   (`internal/pkg/scalable/services.go:100`).
2. `admission_scaledobjects`: the webhook looks ScaledObjects up as `scaledobject`, a name that `GetWorkloads` does not
   know (`internal/api/kubernetes/client.go:532`); with `scaledobjects` among the included resources the error ends
   every evaluation, and nothing is scaled down on admission.
3. `once_election`: with `--leader-election` a process that was told to scan once neither scans nor exits after its
   first cycle (`cmd/kubedownscaler/main.go:151`).

Exceptions that are part of a property or of an assumption, because the code behaves that way:

- `ExcludeUntilExcludes`: an `exclude` value that cannot be evaluated switches off `exclude-until` as well
  (`internal/pkg/values/scope.go:358`), although the documentation says "If any of these values exclude the workload,
  it will not be scaled" (`website/content/docs/2 - downscaler/1 - configurations/1 - Values.mdx:56`).
- `RespectsExclusion`: a retry after a conflict applies the decision made from the old copy, even if the conflicting
  write excluded the workload (`cmd/kubedownscaler/main.go:321`).
- `OriginalChosen`: lowering `downscale-replicas` while a workload is scaled down (for a PodDisruptionBudget: changing
  it) replaces its original by the old downscaled value (`internal/pkg/scalable/replicaScaledWorkloads.go:149`); these
  are the values of `Superseded`, and they occur in the run. With -1, which parsing admits
  (`internal/pkg/values/replicas.go:140`), a ScaledObject is never taken for scaled down, and its original is replaced
  in every cycle; `WorkloadAssumption` excludes it.
- `SavingsAreSteady`: raising `downscale-replicas` above the recorded original of a scaled down workload makes every
  scan report a negative saving for it (`internal/pkg/scalable/replicaScaledWorkloads.go:132`), as `Raised` has it; this
  occurs in the run, too.
  A DaemonSet's savings are computed from the pods it has (`daemonsets.go:73`) and vanish once
  these are gone. In a dry run, a downscale that would be needed reports no savings (`client.go:292`).

## 7. Plan

In the order of importance; all but the last are done.

1. `Scopes`, `ScopeResolution`: the decision.
2. `Scalable`, `WorkloadScaling`: what is done to an object; the abstract specification.
3. `Downscaler`: the process, and its refinement of `WorkloadScaling`.
4. `WorkloadScalingProofs`: type correctness and `OriginalChosen`.
5. `Admission`: the webhook next to the scans.
6. `TimeSpans`: the inside of timespans, and reading the clock once per span.
7. `Leadership`, `LeaderElection`: the lease, renewal deadline and handover, `--once` under leader election, the gauges.
8. `WebhookServer`: certificates, start and metrics of the webhook's processes.
9. `DownscalerProofs`: the optimistic lock, the refinement of `WorkloadScaling`, exclusions and counters.
10. `LeaderElectionProofs`: the lease, the refinement of `Leadership`, the gauges.
11. `AdmissionProofs`, `WebhookServerProofs`, `ScopeResolutionProofs`, `TimeSpansProofs`, and the rest of
    `WorkloadScalingProofs`.
12. Left: the safety parts of the liveness properties (that a settled workload stays settled until something
    changes; that a deposed leader sends nothing that the lock accepts from a stale copy) as theorems.

## 8. Not modelled

The syntax of annotations and flags, log lines and events (output only), the sums of saved resources and their int32
and float arithmetic, the certificates themselves and the rotator (a library; only the secret and the restarts are
modelled), the values of gauges and counters, probes (the ready check is a ping, so a replica of the webhook counts as
ready before it serves), building clients, the Helm chart, the build and the website. Scopes reads the clock once per
decision, the code once per timespan: TimeSpans covers the difference within one list. Which kinds the webhook can parse
is the constant `Unparsable` (in the code, CloneSets and advanced StatefulSets are among them,
`internal/pkg/scalable/workload.go:105`). Whether the children's goroutines of a last cycle finish before a `--once`
process ends is left open: `EventuallyChildrenSettled` is claimed for a process that keeps scanning.
