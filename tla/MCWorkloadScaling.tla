-------------------------- MODULE MCWorkloadScaling --------------------------
(* Names whose objects may be of every kind, for TLC.                      *)
EXTENDS WorkloadScaling

MCWorkload == {"w"}
MCKindsOf == [w \in MCWorkload |-> Kinds]
MCChildren == [w \in MCWorkload |-> MCWorkload]

\* Replicas below, at, between and above the downscale replicas 1 and 3, of which
\* 3 may be lowered to 1 and 1 raised to 3; a ScaledObject without the
\* paused-replicas annotation; class names and service types that restore.
MCUserValues ==
  [k \in Kinds |->
     CASE k = "replicas" -> {0, 1, 2, 4}
       [] k = "scaledobject" -> {Undefined, 2}
       [] k = "hpa" -> {1, 2, 4}
       [] k \in {"suspend", "nodeselector"} -> BOOLEAN
       [] k = "service" -> {"ClusterIP", "LoadBalancer"}
       [] k = "class" -> {"nginx", "traefik"}
       [] k = "pdb" -> {0, 1, Unset} \cup Percents]

\* Class names of two words, service types that are not exposed.
MCAllUserValues ==
  [MCUserValues EXCEPT !["service"] = ServiceTypes,
                       !["class"] = {"nginx", "nginx-internal"},
                       !["pdb"] = {0, 1}]

MCClassNames == {"nginx", "traefik", "nginx-internal", DownscalerClass}
MCParsable == {"nginx", "traefik"}

MCInitialObjects ==
  [w \in MCWorkload |->
     [live |-> TRUE, kind |-> "replicas", val |-> 4, orig |-> Unset,
      max |-> Unset, scope |-> "none", created |-> 0, active |-> {}]]
=============================================================================
