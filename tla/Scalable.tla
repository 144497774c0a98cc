------------------------------ MODULE Scalable ------------------------------
(***************************************************************************)
(* The Workload interface: what ScaleDown and ScaleUp do to the in-memory  *)
(* copy of a resource. The 24 resource types fall into eight kinds:        *)
(*   replicas      spec.replicas and its like                              *)
(*   scaledobject  the paused-replicas annotation, Undefined when absent   *)
(*   hpa           spec.minReplicas, bounded by 1 and spec.maxReplicas     *)
(*   suspend       spec.suspend and its like                               *)
(*   nodeselector  whether the match-none label is in the node selector    *)
(*   service       spec.type                                               *)
(*   class         the class name of an Ingress or a Gateway               *)
(*   pdb           maxUnavailable or, if that is nil, minAvailable         *)
(* An object o has its kind o.kind, the scaled value o.val, the            *)
(* original-replicas annotation o.orig and, for an hpa, o.max; its other   *)
(* fields are left alone.                                                  *)
(***************************************************************************)
EXTENDS Integers

CONSTANTS
  Unset,      \* nil, an absent field or annotation
  Percents,   \* the percentages, as downscale replicas or as a budget's value
  ClassNames, \* the class names of Ingresses and Gateways
  Parsable    \* those that ReplicasValue.Set accepts: letters only

Undefined == -1

Kinds == {"replicas", "scaledobject", "hpa", "suspend", "nodeselector", "service",
          "class", "pdb"}

\* The kinds that replicaScaledWorkload wraps.
ReplicaKinds == {"replicas", "scaledobject", "hpa"}

\* The class ScaleDown gives an Ingress or a Gateway; its hyphens make it one
\* of the names that do not parse.
DownscalerClass == "kube-downscaler-class"

ServiceTypes == {"ClusterIP", "NodePort", "LoadBalancer", "ExternalName"}

\* The values a kind's field can have.
Values(kind) ==
  CASE kind = "scaledobject"                -> Nat \cup {Undefined}
    [] kind \in {"replicas", "hpa"}         -> Nat
    [] kind \in {"suspend", "nodeselector"} -> BOOLEAN
    [] kind = "service"                     -> ServiceTypes
    [] kind = "class"                       -> ClassNames
    [] kind = "pdb"                         -> Nat \cup Percents

-----------------------------------------------------------------------------
\* What a call returns: skip (nothing to update), update or error, and the copy.
Skip(o) == [status |-> "skip", obj |-> o]
Update(o) == [status |-> "update", obj |-> o]
Error(o) == [status |-> "error", obj |-> o]

setOriginalReplicas(original, o) == [o EXCEPT !.orig = original]

\* Mutant: the annotation survives the restoration.
keepOriginalReplicas(o) == o

removeOriginalReplicas(o) == [o EXCEPT !.orig = Unset]

\* Whether the annotation, a string, can be read back.
OriginalParses(o) == o.kind = "class" => o.orig \in Parsable

\* The values the kind's setter accepts, and what it stores.
Settable(o, value) ==
  CASE o.kind = "hpa"     -> value >= 1
    [] o.kind = "service" -> value \in {"LoadBalancer", "ClusterIP"}
    [] OTHER              -> TRUE

\* Mutant: minReplicas may exceed maxReplicas.
storedUnclamped(o, value) == value

\* Mutant: a budget is stored one below the value asked for.
storedOneLess(o, value) ==
  IF o.kind = "hpa" /\ value > o.max THEN o.max
  ELSE IF o.kind = "pdb" /\ value \notin Percents THEN value - 1
  ELSE value

\* An hpa's setter clamps to maxReplicas.
Stored(o, value) ==
  IF o.kind = "hpa" /\ value > o.max THEN o.max ELSE value

\* The value that means scaled down; d is used by the kinds that have replicas.
DownValue(o, d) ==
  CASE o.kind \in ReplicaKinds \cup {"pdb"}   -> d
    [] o.kind \in {"suspend", "nodeselector"} -> TRUE
    [] o.kind = "service"                     -> "ClusterIP"
    [] o.kind = "class"                       -> DownscalerClass

\* Mutant: a workload at the target is scaled down once more.
isBelow(o, d) ==
  IF o.kind \in ReplicaKinds THEN o.val # Undefined /\ o.val < d
  ELSE o.val = DownValue(o, d)

\* Whether the value is at (for replicas: at or below) the downscaled value.
IsDown(o, d) ==
  IF o.kind \in ReplicaKinds THEN o.val # Undefined /\ o.val <= d
  ELSE o.val = DownValue(o, d)

-----------------------------------------------------------------------------
(* What the implementations of the interface share.                        *)

\* A workload that is down already is left alone; an annotation that cannot be
\* read is an error.
AlreadyDown(o) == IF o.orig = Unset \/ OriginalParses(o) THEN Skip(o) ELSE Error(o)

\* The value is replaced, and the annotation takes the value it had, whatever
\* the annotation said before.
Replace(o, value) ==
  IF Settable(o, value)
  THEN Update(setOriginalReplicas(o.val, [o EXCEPT !.val = Stored(o, value)]))
  ELSE Error(o)

\* The value is restored from the annotation, which is then removed. A workload
\* without the annotation was not scaled down by ScaleDown and is left alone.
Restore(o) ==
  IF o.orig = Unset THEN Skip(o)
  ELSE IF ~OriginalParses(o) \/ ~Settable(o, o.orig) THEN Error(o)
  ELSE Update(removeOriginalReplicas([o EXCEPT !.val = Stored(o, o.orig)]))

-----------------------------------------------------------------------------
(* ScaleDown and ScaleUp by kind; d is the downscale replicas value of the *)
(* workload's scopes.                                                      *)

\* A percentage cannot be converted to replicas.
replicaScaleDown(o, d) ==
  IF d \in Percents \/ o.val = Unset THEN Error(o)
  ELSE IF IsDown(o, d) THEN AlreadyDown(o)
  ELSE Replace(o, DownValue(o, d))

replicaScaleUp(o) == IF o.val = Unset THEN Error(o) ELSE Restore(o)

suspendScaleDown(o, d) ==
  IF IsDown(o, d) THEN AlreadyDown(o) ELSE Replace(o, DownValue(o, d))

suspendScaleUp(o) == Restore(o)

nodeSelectorScaleDown(o, d) ==
  IF IsDown(o, d) THEN AlreadyDown(o)
  ELSE Update(setOriginalReplicas(FALSE, [o EXCEPT !.val = TRUE]))

\* The annotation is only looked for: the label goes whatever it says.
nodeSelectorScaleUp(o) ==
  IF o.orig = Unset THEN Skip(o)
  ELSE Update(removeOriginalReplicas([o EXCEPT !.val = FALSE]))

\* Services, Ingresses and Gateways.
valueScaleDown(o, d) ==
  IF o.val = Unset THEN Error(o)
  ELSE IF IsDown(o, d) THEN AlreadyDown(o)
  ELSE Replace(o, DownValue(o, d))

valueScaleUp(o) == IF o.val = Unset THEN Error(o) ELSE Restore(o)

\* A budget without either field is left alone.
pdbScaleDown(o, d) ==
  IF o.val = Unset \/ IsDown(o, d) THEN Skip(o) ELSE Replace(o, DownValue(o, d))

pdbScaleUp(o) == IF o.val = Unset THEN Skip(o) ELSE Restore(o)

ScaleDown(o, d) ==
  CASE o.kind \in ReplicaKinds        -> replicaScaleDown(o, d)
    [] o.kind = "suspend"              -> suspendScaleDown(o, d)
    [] o.kind = "nodeselector"         -> nodeSelectorScaleDown(o, d)
    [] o.kind \in {"service", "class"} -> valueScaleDown(o, d)
    [] o.kind = "pdb"                  -> pdbScaleDown(o, d)

ScaleUp(o) ==
  CASE o.kind \in ReplicaKinds        -> replicaScaleUp(o)
    [] o.kind = "suspend"              -> suspendScaleUp(o)
    [] o.kind = "nodeselector"         -> nodeSelectorScaleUp(o)
    [] o.kind \in {"service", "class"} -> valueScaleUp(o)
    [] o.kind = "pdb"                  -> pdbScaleUp(o)

-----------------------------------------------------------------------------
(* The saved resource requests a downscale reports, in units of what one   *)
(* pod requests. Every scan reports them again.                            *)

\* The value the workload has without the downscaler, as far as ScaleDown can
\* tell: the annotation is asked if the value is a downscaled one.
FormerValue(o, d) == IF IsDown(o, d) THEN o.orig ELSE o.val

\* By kind: the replicas that are gone, the parallel pods of a job (one here), the
\* pods a DaemonSet has by its status (one), which the controller brings to 0 once
\* the node selector matches no node. The other types report nothing.
getSavedResourcesRequests(o, former, d) ==
  CASE o.kind = "replicas"               -> former - d
    [] o.kind = "suspend"                -> 1
    [] o.kind = "nodeselector" /\ ~o.val -> 1
    [] OTHER                             -> 0

\* Mutant: a workload that is down already is measured by its current value.
SavedFromCurrent(o, d) ==
  IF ScaleDown(o, d).status = "error" \/ FormerValue(o, d) = Unset THEN 0
  ELSE getSavedResourcesRequests(o, o.val, d)

\* What ScaleDown reports for the copy o: nothing if it fails or if the
\* workload is that small without having been scaled down.
SavedResources(o, d) ==
  IF ScaleDown(o, d).status = "error" \/ FormerValue(o, d) = Unset THEN 0
  ELSE getSavedResourcesRequests(o, FormerValue(o, d), d)
=============================================================================
