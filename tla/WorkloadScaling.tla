--------------------------- MODULE WorkloadScaling ---------------------------
(***************************************************************************)
(* What the downscaler promises about the objects of the cluster, as an    *)
(* abstract specification: an object changes only by the hand of somebody  *)
(* else (a user, a controller) or by one atomic ScaleDown or ScaleUp of    *)
(* its current state. Downscaler.tla, with its stale copies, concurrent    *)
(* goroutines, lost replies and crashes, implements it.                    *)
(*                                                                         *)
(* chosen[w] is a history variable: the values somebody else gave to w     *)
(* since it was created (an hpa's maxima included). They are what          *)
(* restoring the original state may produce.                               *)
(***************************************************************************)
EXTENDS Scalable

CONSTANTS
  Workload,       \* the names of the resources
  KindsOf,        \* [Workload -> the kinds an object of that name may have]
  Targets,        \* the downscale replicas values of the configuration
  UserValues,     \* [Kinds -> the values somebody else may write]
  UserMaxima,     \* the maxReplicas values of an hpa
  Annotations,    \* what a workload's downscaler annotations may say
  CreationTimes,  \* when objects are created
  Children,       \* [Workload -> the jobs it may own]
  InitialObjects  \* [Workload -> the object at the beginning]

\* The kinds whose field may be nil.
Current(kind) ==
  IF kind \in ReplicaKinds \cup {"class", "pdb"} THEN Values(kind) \cup {Unset}
  ELSE Values(kind)

Maxima(kind) == IF kind = "hpa" THEN UserMaxima ELSE {Unset}

\* The objects of a kind: the scaled value, the original replicas annotation,
\* the other downscaler annotations, the creation time and, for a cronjob, the
\* active jobs.
Object(kind) ==
  [live : BOOLEAN, kind : {kind}, val : Current(kind),
   orig : Values(kind) \cup {Unset}, max : Maxima(kind), scope : Annotations,
   created : CreationTimes, active : SUBSET Workload]

ASSUME WorkloadAssumption ==
  /\ KindsOf \in [Workload -> SUBSET Kinds]
  /\ Targets \subseteq Nat \cup Percents
  /\ UserMaxima \subseteq Nat \ {0}
  /\ \A k \in Kinds : /\ UserValues[k] \subseteq Current(k)
                       /\ Unset \notin Values(k)
  /\ \A w \in Workload : /\ InitialObjects[w].kind \in KindsOf[w]
                          /\ InitialObjects[w] \in Object(InitialObjects[w].kind)
                          /\ InitialObjects[w].orig = Unset
                          /\ Children[w] \subseteq Workload
  /\ DownscalerClass \in ClassNames \ Parsable
  /\ Percents \cap Int = {} /\ Unset \notin Percents

VARIABLES objs, chosen

vars == <<objs, chosen>>

\* The values an object starts with are somebody else's choice.
ChosenIn(o) == {o.val, o.max}

TypeOK ==
  /\ DOMAIN objs = Workload /\ DOMAIN chosen = Workload
  /\ \A w \in Workload :
       /\ objs[w].kind \in KindsOf[w]
       /\ objs[w] \in Object(objs[w].kind)
       /\ \A v \in chosen[w] :
            v \in Values(objs[w].kind) \cup Maxima(objs[w].kind) \cup {Unset}

Init ==
  /\ objs = [w \in Workload |-> InitialObjects[w]]
  /\ chosen = [w \in Workload |-> ChosenIn(InitialObjects[w])]

-----------------------------------------------------------------------------
(* The downscaler.                                                         *)

Downscale(w, d) ==
  LET result == ScaleDown(objs[w], d)
  IN /\ objs[w].live
     /\ result.status = "update"
     /\ objs' = [objs EXCEPT ![w] = result.obj]
     /\ UNCHANGED chosen

Upscale(w) ==
  LET result == ScaleUp(objs[w])
  IN /\ objs[w].live
     /\ result.status = "update"
     /\ objs' = [objs EXCEPT ![w] = result.obj]
     /\ UNCHANGED chosen

\* new is what one ScaleDown or ScaleUp makes of old.
ScaledFrom(new, old) ==
  \/ \E d \in Targets : ScaleDown(old, d) = Update(new)
  \/ ScaleUp(old) = Update(new)

-----------------------------------------------------------------------------
(* Everybody else.                                                         *)

\* A user (or a deployment pipeline) gives the workload another size. The API
\* server keeps the minimum of an hpa within its maximum.
SetValue(w) ==
  /\ objs[w].live
  /\ \E v \in UserValues[objs[w].kind], m \in Maxima(objs[w].kind) :
       /\ objs[w].kind = "hpa" => v <= m
       /\ objs' = [objs EXCEPT ![w].val = v, ![w].max = m]
       /\ chosen' = [chosen EXCEPT ![w] = @ \cup {v, m}]

Annotate(w) ==
  /\ objs[w].live
  /\ \E a \in Annotations : objs' = [objs EXCEPT ![w].scope = a]
  /\ UNCHANGED chosen

\* The cronjob controller starts or finishes jobs.
SetActive(w) ==
  /\ objs[w].live
  /\ \E jobs \in SUBSET Children[w] : objs' = [objs EXCEPT ![w].active = jobs]
  /\ UNCHANGED chosen

Delete(w) ==
  /\ objs[w].live
  /\ objs' = [objs EXCEPT ![w].live = FALSE]
  /\ UNCHANGED chosen

NewObject(kind, val, max, scope, created) ==
  [live |-> TRUE, kind |-> kind, val |-> val, orig |-> Unset, max |-> max,
   scope |-> scope, created |-> created, active |-> {}]

\* Another object of the same name.
Create(w, created) ==
  /\ ~objs[w].live
  /\ \E k \in KindsOf[w] :
     \E v \in UserValues[k], m \in Maxima(k), a \in Annotations :
       /\ k = "hpa" => v <= m
       /\ objs' = [objs EXCEPT ![w] = NewObject(k, v, m, a, created)]
       /\ chosen' = [chosen EXCEPT ![w] = {v, m}]

-----------------------------------------------------------------------------
Next ==
  \E w \in Workload :
    \/ \E d \in Targets : Downscale(w, d)
    \/ Upscale(w)
    \/ SetValue(w)
    \/ Annotate(w)
    \/ SetActive(w)
    \/ Delete(w)
    \/ \E created \in CreationTimes : Create(w, created)

Spec == Init /\ [][Next]_vars

-----------------------------------------------------------------------------
\* The targets that a kind takes: a percentage is no number of replicas.
Applicable(kind) == IF kind \in ReplicaKinds THEN Targets \ Percents ELSE Targets

\* The downscaled values that ScaleDown takes for somebody's choice once the
\* configuration asks for another value: lower replicas, another budget.
Superseded(kind) ==
  {d \in Applicable(kind) :
     \E e \in Applicable(kind) : IF kind \in ReplicaKinds THEN e < d ELSE kind = "pdb" /\ e # d}

\* The original state is lost to a change of downscale-replicas at most: a
\* workload that is not marked as scaled down has a value somebody else gave it,
\* and the annotation of one that is marked holds such a value, never one that
\* ScaleDown wrote for a target which is still the lowest, through any sequence
\* of downscales, edits in between and upscales (a value clamped to the hpa's
\* maximum counts as chosen). With a single target nothing is superseded.
OriginalChosen ==
  \A w \in Workload :
    LET original == IF objs[w].orig = Unset THEN objs[w].val ELSE objs[w].orig
    IN original \in chosen[w] \cup Superseded(objs[w].kind)

\* The inductive form of OriginalChosen, for an object o and the values c that
\* were chosen for it: a value that is neither chosen nor superseded is a
\* downscaled one, so that the next ScaleDown leaves the annotation alone; the
\* maximum an hpa is clamped to was chosen; and the annotation of a node
\* selector, which ScaleUp does not read, says what ScaleUp restores.
ObjectInv(o, c) ==
  /\ (IF o.orig = Unset THEN o.val ELSE o.orig) \in c \cup Superseded(o.kind)
  /\ \/ o.val \in c \cup Superseded(o.kind)
     \/ \A d \in Applicable(o.kind) : IsDown(o, d)
  /\ o.max \in c
  /\ o.kind = "nodeselector" => o.orig \in {FALSE, Unset}

\* No step leaves a workload in a state from which a later scan would lose the
\* original.
OriginalInv == \A w \in Workload : ObjectInv(objs[w], chosen[w])

\* Scanning settles: scaling an object twice in the same direction updates it
\* at most once, so that a later scan or a repeated request finds nothing to do.
Settles ==
  \A w \in Workload :
    /\ \A d \in Targets :
         LET down == ScaleDown(objs[w], d)
         IN down.status = "update" =>
              ScaleDown(down.obj, d).status # "update"
    /\ LET up == ScaleUp(objs[w])
       IN up.status = "update" => ScaleUp(up.obj).status # "update"

\* minReplicas stays within 1 and maxReplicas whatever the annotation or the
\* downscale replicas say: the API server would reject the update otherwise.
HpaWithinBounds ==
  \A w \in Workload :
    objs[w].kind = "hpa" => objs[w].val >= 1 /\ objs[w].val <= objs[w].max

\* The target d was raised above the replicas that a workload had when it was
\* scaled down to a lower target e.
Raised(o, d) == \E e \in Applicable(o.kind) : e < o.orig /\ o.orig < d

\* "Number of bytes of memory saved by KubeDownscaler downscaling actions": a scan
\* reports a negative saving only of a replicated workload that was scaled down
\* to fewer replicas than are asked for now, and from fewer as well; and the scans
\* that follow a downscale, which find the workload small and know its former
\* size from the annotation only, report what the downscale itself did.
\* DaemonSets are left out: once their pods are gone the status no longer tells
\* how many there were.
SavingsAreSteady ==
  \A w \in Workload, d \in Targets :
    LET o == objs[w]
        down == ScaleDown(o, d)
    IN /\ SavedResources(o, d) < 0 =>
            o.kind = "replicas" /\ o.orig # Unset /\ Raised(o, d)
       /\ down.status = "update" /\ o.kind # "nodeselector" =>
            SavedResources(down.obj, d) = SavedResources(o, d)

\* "scales them back up to their original state once the time window ends": a
\* workload that was scaled down can be scaled up again.
AlwaysRestorable ==
  \A w \in Workload :
    objs[w].live /\ objs[w].orig # Unset =>
      ScaleUp(objs[w]).status = "update"
=============================================================================
