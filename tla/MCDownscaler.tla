---------------------------- MODULE MCDownscaler ----------------------------
(* Small clusters for TLC.                                                 *)
EXTENDS Downscaler, TLC

Set(field, value) == [NewScope EXCEPT ![field] = value]

\* Down at instant 0, up afterwards.
MCScopeCli == Set("DownTime", <<{0}>>)
MCScopeCliChildren == [MCScopeCli EXCEPT !.ScaleChildren = TRUE]
MCScopeDefault == [NewScope EXCEPT !.DownscaleReplicas = 0, !.GracePeriod = 1]

MCUserValues ==
  [k \in {"scaledobject", "hpa", "nodeselector", "service", "class", "pdb"} |-> {}]
  @@ ("replicas" :> {2, 3}) @@ ("suspend" :> {FALSE})

Obj(kind, val, active) ==
  [live |-> TRUE, kind |-> kind, val |-> val, orig |-> Unset, max |-> Unset,
   scope |-> NewScope, created |-> 0 - 1, active |-> active]

MCCreationTimes == {0 - 1} \cup 0..MaxTime

NoAnnotations == [n \in {"default"} |-> NewScope]

MCClassNames == {"kube-downscaler-class"}

Serving == {[Once |-> FALSE, DryRun |-> FALSE]}
AllConfigurations == [Once : BOOLEAN, DryRun : BOOLEAN]

None == [d \in Disturbance |-> 0]

-----------------------------------------------------------------------------
(* Two scanners and one deployment.                                        *)

RaceWorkload == {"deploy"}
RaceKindsOf == [w \in RaceWorkload |-> {"replicas"}]
RaceChildren == [w \in RaceWorkload |-> {}]
RaceObjects == [w \in RaceWorkload |-> Obj("replicas", 2, {})]
RaceAnnotations == {NewScope}
RaceResourceOf == [w \in RaceWorkload |-> "deployments"]
RaceNamespaceOf == [w \in RaceWorkload |-> "default"]
\* Forced up at first; then down until the schedule asks for up again.
RaceNamespaceAnnotations == {NewScope, Set("ForceUptime", <<{0}>>)}
RaceInitialAnnotations == [n \in {"default"} |-> Set("ForceUptime", <<{0}>>)]
ScannerSymmetry == Permutations(Scanner)
NoTarget == [w \in Workload |-> Unset]
RaceDisturbances ==
  [None EXCEPT !["edit"] = 1, !["namespace"] = 1, !["failure"] = 1, !["crash"] = 1]

-----------------------------------------------------------------------------
(* One scanner, a cronjob and the job it owns.                             *)

CronWorkload == {"cron", "job"}
CronKindsOf == [w \in CronWorkload |-> {"suspend"}]
CronChildren == ("cron" :> {"job"}) @@ ("job" :> {})
CronObjects ==
  ("cron" :> Obj("suspend", FALSE, {"job"})) @@ ("job" :> Obj("suspend", FALSE, {}))
CronAnnotations == {NewScope}
CronResourceOf == ("cron" :> "cronjobs") @@ ("job" :> "jobs")
CronNamespaceOf == [w \in CronWorkload |-> "default"]
CronNamespaceAnnotations == {NewScope}
CronDisturbances ==
  [None EXCEPT !["jobs"] = 2, !["delete"] = 1, !["create"] = 1, !["failure"] = 1]

-----------------------------------------------------------------------------
(* One scanner, a deployment and a ScaledObject that may come to scale it. *)

KedaWorkload == {"deploy", "keda"}
KedaKindsOf == ("deploy" :> {"replicas"}) @@ ("keda" :> {"scaledobject"})
KedaChildren == [w \in KedaWorkload |-> {}]
KedaObjects == ("deploy" :> Obj("replicas", 2, {}))
               @@ ("keda" :> [Obj("scaledobject", 0 - 1, {}) EXCEPT !.live = FALSE])
KedaUserValues ==
  [MCUserValues EXCEPT !["replicas"] = {2}, !["scaledobject"] = {0 - 1, 2}]
KedaAnnotations == {NewScope, Set("ExcludeUntil", 2), Malformed}
KedaNamespaceAnnotations == {NewScope, Malformed}
KedaResourceOf == ("deploy" :> "deployments") @@ ("keda" :> "scaledobjects")
KedaNamespaceOf == [w \in KedaWorkload |-> "default"]
KedaTarget == ("deploy" :> Unset) @@ ("keda" :> "deploy")
KedaDisturbances ==
  [None EXCEPT !["namespace"] = 1, !["annotate"] = 1, !["create"] = 1,
               !["failure"] = 1, !["crash"] = 1]
=============================================================================
