----------------------------- MODULE MCAdmission -----------------------------
(* One workload, that may be a deployment or an ingress, for TLC.          *)
EXTENDS Admission

Set(field, value) == [NewScope EXCEPT ![field] = value]

MCWorkload == {"w"}
MCKindsOf == [w \in MCWorkload |-> {"replicas", "class"}]
MCUserValues ==
  [k \in {"replicas", "scaledobject", "hpa", "suspend", "nodeselector", "service", "class", "pdb"} |->
     CASE k = "replicas" -> {2}
       [] k = "class" -> {"nginx-internal"}
       [] OTHER -> {}]
MCClassNames == {"nginx", "nginx-internal", "kube-downscaler-class"}
MCChildren == [w \in MCWorkload |-> {}]
MCCreationTimes == {0 - 1} \cup 0..MaxTime
MCObjects ==
  [w \in MCWorkload |->
     [live |-> TRUE, kind |-> "replicas", val |-> 2, orig |-> Unset, max |-> Unset,
      scope |-> NewScope, created |-> 0 - 1, active |-> {}]]

\* The command line scales down at instant 0. A workload's own annotations may be
\* malformed; a namespace's may exclude until 1 or be malformed.
MCAnnotations == {NewScope, Malformed}
MCNamespaceAnnotations == {NewScope, Set("ExcludeUntil", 1), Malformed}
MCNamespaceOf == [w \in MCWorkload |-> "default"]
MCInitialAnnotations == [n \in {"default"} |-> NewScope]
MCScopeCli == Set("DownTime", <<{0}>>)
MCScopeDefault == [NewScope EXCEPT !.DownscaleReplicas = 0, !.GracePeriod = 1]

Runtime(dryRun, scaledObjects, policy) ==
  [DryRun |-> dryRun, IncludeScaledObjects |-> scaledObjects, FailurePolicy |-> policy]
OneByOne == {Runtime(FALSE, FALSE, "Ignore"), Runtime(TRUE, FALSE, "Ignore"),
             Runtime(FALSE, TRUE, "Ignore"), Runtime(FALSE, FALSE, "Fail")}
WithScaledObjects == {Runtime(FALSE, TRUE, "Ignore")}
=============================================================================
