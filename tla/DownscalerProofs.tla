-------------------------- MODULE DownscalerProofs --------------------------
(***************************************************************************)
(* For any cluster, any number of replicas of the downscaler, retries,     *)
(* lost replies and crashes: the optimistic lock makes every write of a    *)
(* scan one atomic ScaleDown or ScaleUp of the object as it is, so that    *)
(* Downscaler implements WorkloadScaling and inherits what is proved       *)
(* there.                                                                  *)
(***************************************************************************)
EXTENDS Downscaler, ScopesProofs, FiniteSetTheorems, TLAPS

(* What is proved about WorkloadScaling, for the cluster of this module.   *)
Facts == INSTANCE WorkloadScalingProofs

-----------------------------------------------------------------------------
(* The operators of Facts are those of Cluster.                            *)

\* The objects are the same.
LEMMA SameObjects ==
  /\ Facts!Kinds = Cluster!Kinds
  /\ \A k : /\ Facts!Object(k) = Cluster!Object(k)
            /\ Facts!Values(k) = Cluster!Values(k)
            /\ Facts!Current(k) = Cluster!Current(k)
            /\ Facts!Maxima(k) = Cluster!Maxima(k)
BY DEF Facts!Kinds, Cluster!Kinds, Facts!Object, Cluster!Object,
       Facts!Current, Cluster!Current, Facts!Values, Cluster!Values,
       Facts!Maxima, Cluster!Maxima, Facts!Undefined, Cluster!Undefined,
       Facts!ServiceTypes, Cluster!ServiceTypes,
       Facts!ReplicaKinds, Cluster!ReplicaKinds

\* What is assumed of the cluster is what the facts rest on.
LEMMA FactsAssumption == Facts!WorkloadAssumption
BY ClusterAssumption, SameObjects
DEF Facts!WorkloadAssumption, Cluster!WorkloadAssumption,
    Facts!DownscalerClass, Cluster!DownscalerClass

\* Scaling is the same.
LEMMA SameScaling ==
  \A o, d : /\ Facts!ScaleDown(o, d) = Cluster!ScaleDown(o, d)
            /\ Facts!ScaleUp(o) = Cluster!ScaleUp(o)
            /\ Facts!IsDown(o, d) = Cluster!IsDown(o, d)
BY DEF Facts!ScaleDown, Cluster!ScaleDown, Facts!ScaleUp, Cluster!ScaleUp,
       Facts!replicaScaleDown, Cluster!replicaScaleDown,
       Facts!suspendScaleDown, Cluster!suspendScaleDown,
       Facts!nodeSelectorScaleDown, Cluster!nodeSelectorScaleDown,
       Facts!valueScaleDown, Cluster!valueScaleDown,
       Facts!pdbScaleDown, Cluster!pdbScaleDown,
       Facts!replicaScaleUp, Cluster!replicaScaleUp,
       Facts!suspendScaleUp, Cluster!suspendScaleUp,
       Facts!nodeSelectorScaleUp, Cluster!nodeSelectorScaleUp,
       Facts!valueScaleUp, Cluster!valueScaleUp,
       Facts!pdbScaleUp, Cluster!pdbScaleUp,
       Facts!IsDown, Cluster!IsDown, Facts!DownValue, Cluster!DownValue,
       Facts!Replace, Cluster!Replace, Facts!Restore, Cluster!Restore,
       Facts!AlreadyDown, Cluster!AlreadyDown, Facts!Stored, Cluster!Stored,
       Facts!Settable, Cluster!Settable,
       Facts!OriginalParses, Cluster!OriginalParses,
       Facts!Error, Cluster!Error, Facts!Skip, Cluster!Skip,
       Facts!Update, Cluster!Update,
       Facts!setOriginalReplicas, Cluster!setOriginalReplicas,
       Facts!removeOriginalReplicas, Cluster!removeOriginalReplicas,
       Facts!Undefined, Cluster!Undefined,
       Facts!DownscalerClass, Cluster!DownscalerClass,
       Facts!ReplicaKinds, Cluster!ReplicaKinds

\* So are the types of the cluster, its initial states and its steps.
LEMMA SameSpecification ==
  /\ Facts!TypeOK <=> Cluster!TypeOK
  /\ Facts!Init <=> Cluster!Init
  /\ [Facts!Next]_Facts!vars <=> [Cluster!Next]_Cluster!vars
<1>1. Facts!TypeOK <=> Cluster!TypeOK
  BY SameObjects DEF Facts!TypeOK, Cluster!TypeOK
<1>2. Facts!Init <=> Cluster!Init
  BY DEF Facts!Init, Cluster!Init, Facts!ChosenIn, Cluster!ChosenIn
<1>3. Facts!vars = Cluster!vars /\ (UNCHANGED Facts!vars <=> UNCHANGED Cluster!vars)
  BY DEF Facts!vars, Cluster!vars
<1>4. ASSUME NEW w \in Workload
      PROVE  /\ \A d : Facts!Downscale(w, d) <=> Cluster!Downscale(w, d)
             /\ Facts!Upscale(w) <=> Cluster!Upscale(w)
             /\ Facts!SetValue(w) <=> Cluster!SetValue(w)
             /\ Facts!Annotate(w) <=> Cluster!Annotate(w)
             /\ Facts!SetActive(w) <=> Cluster!SetActive(w)
             /\ Facts!Delete(w) <=> Cluster!Delete(w)
             /\ \A c : Facts!Create(w, c) <=> Cluster!Create(w, c)
  <2>1. \A d : Facts!Downscale(w, d) <=> Cluster!Downscale(w, d)
    BY SameScaling DEF Facts!Downscale, Cluster!Downscale
  <2>2. Facts!Upscale(w) <=> Cluster!Upscale(w)
    BY SameScaling DEF Facts!Upscale, Cluster!Upscale
  <2>3. Facts!SetValue(w) <=> Cluster!SetValue(w)
    BY SameObjects DEF Facts!SetValue, Cluster!SetValue
  <2>4. /\ Facts!Annotate(w) <=> Cluster!Annotate(w)
        /\ Facts!SetActive(w) <=> Cluster!SetActive(w)
        /\ Facts!Delete(w) <=> Cluster!Delete(w)
    BY DEF Facts!Annotate, Cluster!Annotate, Facts!SetActive, Cluster!SetActive,
           Facts!Delete, Cluster!Delete
  <2>5. \A c : Facts!Create(w, c) <=> Cluster!Create(w, c)
    BY SameObjects DEF Facts!Create, Cluster!Create, Facts!NewObject, Cluster!NewObject
  <2> QED
    BY <2>1, <2>2, <2>3, <2>4, <2>5
<1>5. Facts!Next <=> Cluster!Next
  BY <1>4 DEF Facts!Next, Cluster!Next
<1> QED
  BY <1>1, <1>2, <1>3, <1>5

-----------------------------------------------------------------------------
(* Scaling a copy.                                                         *)

\* What a call does to a copy of w: an update leaves a copy, a skip leaves the
\* copy as it was.
CopyResult(w, o, result) ==
  /\ result.status = "update" => /\ Copy(w, result.obj)
                                 /\ result = Cluster!Update(result.obj)
  /\ result.status = "skip" => result.obj = o

\* ScaleDown and ScaleUp turn copies into copies.
LEMMA ScaledCopies ==
  ASSUME NEW w \in Workload, NEW o, Copy(w, o), NEW d \in Targets
  PROVE  /\ CopyResult(w, o, Cluster!ScaleDown(o, d))
         /\ CopyResult(w, o, Cluster!ScaleUp(o))
<1> DEFINE k == o.kind
           down == Cluster!ScaleDown(o, d)
           up == Cluster!ScaleUp(o)
<1>1. k \in KindsOf[w] /\ k \in Cluster!Kinds /\ o \in Cluster!Object(k)
  BY ClusterAssumption DEF Copy, Cluster!WorkloadAssumption
<1>2. k \in Facts!Kinds /\ o \in Facts!Object(k)
  BY <1>1, SameObjects
<1>3. /\ down = Cluster!Skip(o) \/ down = Cluster!Error(o) \/ down = Cluster!Update(down.obj)
      /\ up = Cluster!Skip(o) \/ up = Cluster!Error(o) \/ up = Cluster!Update(up.obj)
  <2> USE DEF Cluster!Skip, Cluster!Error, Cluster!Update, Cluster!Replace,
              Cluster!Restore, Cluster!AlreadyDown, Cluster!ScaleDown, Cluster!ScaleUp,
              Cluster!ReplicaKinds
  <2>1. CASE k \in Cluster!ReplicaKinds
    BY <2>1 DEF Cluster!replicaScaleDown, Cluster!replicaScaleUp
  <2>2. CASE k = "suspend"
    BY <2>2 DEF Cluster!suspendScaleDown, Cluster!suspendScaleUp
  <2>3. CASE k = "nodeselector"
    BY <2>3 DEF Cluster!nodeSelectorScaleDown, Cluster!nodeSelectorScaleUp
  <2>4. CASE k \in {"service", "class"}
    BY <2>4 DEF Cluster!valueScaleDown, Cluster!valueScaleUp
  <2>5. CASE k = "pdb"
    BY <2>5 DEF Cluster!pdbScaleDown, Cluster!pdbScaleUp
  <2> QED
    BY <1>1, <2>1, <2>2, <2>3, <2>4, <2>5 DEF Cluster!Kinds
<1>4. down.status = "update" => down.obj \in Cluster!Object(k)
  <2>1. Facts!ScaleDown(o, d) = down
    BY SameScaling
  <2>2. Facts!ScaleDown(o, d).status = "update" => Facts!ScaleDown(o, d).obj \in Facts!Object(k)
    BY <1>2, FactsAssumption, Facts!ScaleDownUpdate
  <2> QED
    BY <2>1, <2>2, SameObjects
<1>5. up.status = "update" => up.obj \in Cluster!Object(k)
  <2>1. Facts!ScaleUp(o) = up
    BY SameScaling
  <2>2. Facts!ScaleUp(o).status = "update" => Facts!ScaleUp(o).obj \in Facts!Object(k)
    BY <1>2, FactsAssumption, Facts!ScaleUpUpdate
  <2> QED
    BY <2>1, <2>2, SameObjects
<1>6. \A new \in Cluster!Object(k) : Copy(w, new)
  BY <1>1 DEF Copy, Cluster!Object
<1>7. ASSUME NEW result,
             \/ result = Cluster!Skip(o) \/ result = Cluster!Error(o)
             \/ result = Cluster!Update(result.obj),
             result.status = "update" => result.obj \in Cluster!Object(k)
      PROVE  CopyResult(w, o, result)
  <2>1. CASE result = Cluster!Skip(o)
    BY <2>1 DEF CopyResult, Cluster!Skip
  <2>2. CASE result = Cluster!Error(o)
    BY <2>2 DEF CopyResult, Cluster!Error
  <2>3. CASE result = Cluster!Update(result.obj)
    <3>1. result.status = "update"
      BY <2>3 DEF Cluster!Update
    <3> QED
      BY <1>6, <1>7, <2>3, <3>1 DEF CopyResult
  <2> QED
    BY <1>7, <2>1, <2>2, <2>3
<1> QED
  BY <1>3, <1>4, <1>5, <1>7

-----------------------------------------------------------------------------
(* The inductive invariant.                                                *)

\* What ThreadOK says of the record r of a thread for workload w.
ThreadType(w, r) ==
  /\ r \in [pc : ThreadPc, base : {r.base}, ver : Version \cup {Unset},
            scaling : Scaling \cup {Unset}, replicas : Targets \cup {Unset},
            scaleChildren : BOOLEAN, retry : 0..MaxRetriesOnConflict,
            todo : SUBSET Workload, failed : BOOLEAN, own : BOOLEAN]
  /\ r.pc \in {"listed", "scale", "sent", "conflict", "held"} => r.ver # Unset
  /\ r.pc \in {"listed", "scale", "sent", "conflict", "held", "children"} =>
       Copy(w, r.base)
  /\ r.pc \in {"scale", "sent", "conflict", "held", "children"} =>
       r.scaling # Unset /\ r.replicas # Unset

\* What LockInv says of it, o being the object and v its version.
Locked(r, o, v) ==
  o.live /\ v = r.ver =>
    /\ r.pc \in {"listed", "scale", "held"} => r.base = o
    /\ r.pc = "sent" => Cluster!ScaledFrom(r.base, o)

ThreadInv(w, r, o, v) == ThreadType(w, r) /\ Locked(r, o, v)

\* The same for a request whose process is dead.
LateInv(r, o, v) ==
  /\ r \in [w : Workload, obj : {r.obj}, ver : Version]
  /\ Copy(r.w, r.obj)
  /\ o.live /\ v = r.ver => Cluster!ScaledFrom(r.obj, o)

\* The rest of TypeOK; and a namespace scope that was read is not malformed.
RestOK ==
  /\ version \in [Workload -> Version]
  /\ annotations \in [Namespace -> NamespaceAnnotations]
  /\ now \in 0..MaxTime
  /\ config \in Configurations
  /\ phase \in [Scanner -> Phase]
  /\ pending \in [Scanner -> SUBSET (Resource \cup Namespace)]
  /\ nsScopes \in [Scanner -> [Namespace -> NamespaceAnnotations \cup {Unset}]]
  /\ \A s \in Scanner, n \in Namespace :
       nsScopes[s][n] # Unset => nsScopes[s][n] # Malformed
  /\ metrics \in [Scanner -> [Namespace -> [Counter -> Nat]]]
  /\ budget \in [Disturbance -> Nat]

ThreadsOK ==
  /\ DOMAIN threads = Thread
  /\ \A t \in Thread :
       ThreadInv(t[2], threads[t], objs[t[2]], version[t[2]])

LateOK == \A r \in late : LateInv(r, objs[r.w], version[r.w])

Inv == Cluster!TypeOK /\ RestOK /\ ThreadsOK /\ LateOK

\* The invariant contains the type invariant and the optimistic lock.
LEMMA InvImplies == Inv => TypeOK /\ LockInv
<1> SUFFICES ASSUME Inv PROVE TypeOK /\ LockInv
  OBVIOUS
<1>1. DOMAIN threads = Thread /\ \A t \in Thread : ThreadOK(t)
  BY DEF Inv, ThreadsOK, ThreadInv, ThreadType, ThreadOK
<1>2. \A r \in late : /\ r \in [w : Workload, obj : {r.obj}, ver : Version]
                      /\ Copy(r.w, r.obj)
  BY DEF Inv, LateOK, LateInv
<1>3. TypeOK
  BY <1>1, <1>2 DEF Inv, RestOK, TypeOK
<1>4. LockInv
  BY DEF Inv, ThreadsOK, ThreadInv, Locked, LateOK, LateInv, LockInv, Accepts
<1> QED
  BY <1>3, <1>4

-----------------------------------------------------------------------------
(* The records that the steps give to threads.                             *)

\* A thread that is not in use or has ended holds nothing.
LEMMA EndedRecord ==
  ASSUME NEW w \in Workload, NEW o, NEW v, NEW pc \in {"idle", "done", "uncounted"}
  PROVE  /\ ThreadInv(w, [Idle EXCEPT !.pc = pc], o, v)
         /\ ThreadInv(w, Idle, o, v)
<1>1. 0 \in 0..MaxRetriesOnConflict /\ pc \in ThreadPc /\ "idle" \in ThreadPc
  BY DownscalerAssumption DEF ThreadPc
<1>2. ThreadType(w, [Idle EXCEPT !.pc = pc]) /\ ThreadType(w, Idle)
  BY <1>1 DEF ThreadType, Idle
<1>3. Locked([Idle EXCEPT !.pc = pc], o, v) /\ Locked(Idle, o, v)
  BY DEF Locked, Idle
<1> QED
  BY <1>2, <1>3 DEF ThreadInv

\* A copy of an object in the cluster, with its version, is locked.
LEMMA FreshRecord ==
  ASSUME NEW w \in Workload, NEW o, Copy(w, o), NEW v \in Version
  PROVE  ThreadInv(w, [Idle EXCEPT !.pc = "listed", !.base = o, !.ver = v], o, v)
<1> DEFINE r == [Idle EXCEPT !.pc = "listed", !.base = o, !.ver = v]
<1>1. 0 \in 0..MaxRetriesOnConflict /\ "listed" \in ThreadPc /\ v # Unset
  BY DownscalerAssumption DEF ThreadPc
<1>2. r.pc = "listed" /\ r.base = o
  BY DEF Idle
<1>3. ThreadType(w, r)
  BY <1>1 DEF ThreadType, Idle
<1> QED
  BY <1>2, <1>3 DEF ThreadInv, Locked

\* A write takes a version that no copy has, so that no copy is the object.
LEMMA StaleRecord ==
  ASSUME NEW w, NEW r, NEW o, NEW v, NEW newo, NEW newv,
         ThreadInv(w, r, o, v), r.ver # newv
  PROVE  ThreadInv(w, r, newo, newv)
BY DEF ThreadInv, Locked

\* scanWorkload decides: the copy stays what it is.
LEMMA DecidedRecord ==
  ASSUME NEW w, NEW r, NEW o, NEW v, ThreadInv(w, r, o, v), r.pc = "listed",
         NEW scaling \in Scaling, NEW replicas \in Targets, replicas # Unset,
         NEW scaleChildren \in BOOLEAN
  PROVE  ThreadInv(w, [r EXCEPT !.pc = "scale", !.scaling = scaling,
                                !.replicas = replicas,
                                !.scaleChildren = scaleChildren], o, v)
<1> DEFINE new == [r EXCEPT !.pc = "scale", !.scaling = scaling,
                            !.replicas = replicas, !.scaleChildren = scaleChildren]
<1>1. scaling # Unset /\ "scale" \in ThreadPc
  BY DownscalerAssumption DEF ThreadPc
<1>2. new.pc = "scale" /\ new.base = r.base /\ new.ver = r.ver
  BY DEF ThreadInv, ThreadType
<1>3. ThreadType(w, new)
  BY <1>1 DEF ThreadInv, ThreadType
<1> HIDE DEF new
<1>4. Locked(new, o, v)
  BY <1>2 DEF ThreadInv, Locked
<1> QED
  BY <1>3, <1>4 DEF ThreadInv, new

\* The request carries what scaling made of the copy.
LEMMA SentRecord ==
  ASSUME NEW w, NEW r, NEW o, NEW v, ThreadInv(w, r, o, v), r.pc = "scale",
         NEW b, Copy(w, b), Cluster!ScaledFrom(b, r.base)
  PROVE  ThreadInv(w, [r EXCEPT !.pc = "sent", !.base = b], o, v)
<1> DEFINE new == [r EXCEPT !.pc = "sent", !.base = b]
<1>1. "sent" \in ThreadPc
  BY DEF ThreadPc
<1>2. new.pc = "sent" /\ new.base = b /\ new.ver = r.ver
  BY DEF ThreadInv, ThreadType
<1>3. ThreadType(w, new)
  BY <1>1 DEF ThreadInv, ThreadType
<1> HIDE DEF new
<1>4. Locked(new, o, v)
  BY <1>2 DEF ThreadInv, Locked
<1> QED
  BY <1>3, <1>4 DEF ThreadInv, new

\* The thread goes on to the children, with a copy that it will not write.
LEMMA ChildrenRecord ==
  ASSUME NEW w, NEW r, NEW o, NEW v, ThreadInv(w, r, o, v), r.pc \in {"scale", "sent"},
         NEW b, Copy(w, b), NEW newo, NEW newv
  PROVE  ThreadInv(w, [r EXCEPT !.pc = "children", !.base = b, !.ver = Unset,
                                !.todo = b.active], newo, newv)
<1> DEFINE new == [r EXCEPT !.pc = "children", !.base = b, !.ver = Unset,
                            !.todo = b.active]
<1>1. "children" \in ThreadPc /\ b.active \in SUBSET Workload
  BY DEF ThreadPc, Copy, Cluster!Object
<1>2. new.pc = "children"
  BY DEF ThreadInv, ThreadType
<1>3. ThreadType(w, new)
  BY <1>1 DEF ThreadInv, ThreadType
<1> HIDE DEF new
<1>4. Locked(new, newo, newv)
  BY <1>2 DEF Locked
<1> QED
  BY <1>3, <1>4 DEF ThreadInv, new

\* A refused request is no longer one.
LEMMA ConflictRecord ==
  ASSUME NEW w, NEW r, NEW o, NEW v, ThreadInv(w, r, o, v), r.pc = "sent"
  PROVE  ThreadInv(w, [r EXCEPT !.pc = "conflict"], o, v)
<1> DEFINE new == [r EXCEPT !.pc = "conflict"]
<1>1. "conflict" \in ThreadPc
  BY DEF ThreadPc
<1>2. new.pc = "conflict"
  BY DEF ThreadInv, ThreadType
<1>3. ThreadType(w, new)
  BY <1>1 DEF ThreadInv, ThreadType
<1> HIDE DEF new
<1>4. Locked(new, o, v)
  BY <1>2 DEF Locked
<1> QED
  BY <1>3, <1>4 DEF ThreadInv, new

\* After a conflict the copy is the object again.
LEMMA RegetRecord ==
  ASSUME NEW w, NEW r, NEW o, NEW v \in Version, ThreadInv(w, r, o, v), r.pc = "conflict",
         Copy(w, o), r.retry < MaxRetriesOnConflict
  PROVE  ThreadInv(w, [r EXCEPT !.pc = "scale", !.base = o, !.ver = v,
                                !.retry = @ + 1], o, v)
<1> DEFINE new == [r EXCEPT !.pc = "scale", !.base = o, !.ver = v, !.retry = @ + 1]
<1>1. "scale" \in ThreadPc /\ v # Unset /\ MaxRetriesOnConflict \in Nat
  BY DownscalerAssumption DEF ThreadPc
<1>2. new.pc = "scale" /\ new.base = o
  BY DEF ThreadInv, ThreadType
<1>3. r.retry + 1 \in 0..MaxRetriesOnConflict
  BY <1>1 DEF ThreadInv, ThreadType
<1>4. ThreadType(w, new)
  BY <1>1, <1>3 DEF ThreadInv, ThreadType
<1> HIDE DEF new
<1>5. Locked(new, o, v)
  BY <1>2 DEF Locked
<1> QED
  BY <1>4, <1>5 DEF ThreadInv, new

\* A child that was read is a copy of the object, with its parent's decision.
LEMMA HeldRecord ==
  ASSUME NEW w \in Workload, NEW o, Copy(w, o), NEW v \in Version,
         NEW scaling \in Scaling, NEW replicas \in Targets, replicas # Unset
  PROVE  ThreadInv(w, [Idle EXCEPT !.pc = "held", !.base = o, !.ver = v,
                         !.scaling = scaling, !.replicas = replicas], o, v)
<1> DEFINE new == [Idle EXCEPT !.pc = "held", !.base = o, !.ver = v,
                               !.scaling = scaling, !.replicas = replicas]
<1>1. /\ 0 \in 0..MaxRetriesOnConflict /\ "held" \in ThreadPc
      /\ v # Unset /\ scaling # Unset
  BY DownscalerAssumption DEF ThreadPc
<1>2. new.pc = "held" /\ new.base = o
  BY DEF Idle
<1>3. ThreadType(w, new)
  BY <1>1 DEF ThreadType, Idle
<1> HIDE DEF new
<1>4. Locked(new, o, v)
  BY <1>2 DEF Locked
<1> QED
  BY <1>3, <1>4 DEF ThreadInv, new

\* A child that is released keeps its copy.
LEMMA ReleasedRecord ==
  ASSUME NEW w, NEW r, NEW o, NEW v, ThreadInv(w, r, o, v), r.pc = "held"
  PROVE  ThreadInv(w, [r EXCEPT !.pc = "scale"], o, v)
<1> DEFINE new == [r EXCEPT !.pc = "scale"]
<1>1. "scale" \in ThreadPc
  BY DEF ThreadPc
<1>2. new.pc = "scale" /\ new.base = r.base /\ new.ver = r.ver
  BY DEF ThreadInv, ThreadType
<1>3. ThreadType(w, new)
  BY <1>1 DEF ThreadInv, ThreadType
<1> HIDE DEF new
<1>4. Locked(new, o, v)
  BY <1>2 DEF ThreadInv, Locked
<1> QED
  BY <1>3, <1>4 DEF ThreadInv, new

\* Neither the children that are left to read nor the owner of the counters
\* matter to the lock.
LEMMA OtherFields ==
  ASSUME NEW w, NEW r, NEW o, NEW v, ThreadInv(w, r, o, v),
         NEW todo \in SUBSET Workload
  PROVE  /\ ThreadInv(w, [r EXCEPT !.todo = todo], o, v)
         /\ ThreadInv(w, [r EXCEPT !.todo = todo, !.failed = TRUE], o, v)
         /\ ThreadInv(w, [r EXCEPT !.own = FALSE], o, v)
<1>1. ASSUME NEW new \in {[r EXCEPT !.todo = todo],
                          [r EXCEPT !.todo = todo, !.failed = TRUE],
                          [r EXCEPT !.own = FALSE]}
      PROVE  ThreadInv(w, new, o, v)
  <2>1. new.pc = r.pc /\ new.base = r.base /\ new.ver = r.ver
    BY <1>1 DEF ThreadInv, ThreadType
  <2>2. ThreadType(w, new)
    BY <1>1 DEF ThreadInv, ThreadType
  <2>3. Locked(new, o, v)
    BY <2>1 DEF ThreadInv, Locked
  <2> QED
    BY <2>2, <2>3 DEF ThreadInv
<1> QED
  BY <1>1

-----------------------------------------------------------------------------
(* Every step is a step of the cluster.                                    *)

\* A write that the lock lets through applies one ScaleDown or ScaleUp to the
\* object as it is.
LEMMA WriteIsScaling ==
  ASSUME Inv, NEW w \in Workload, NEW o, objs[w].live,
         Cluster!ScaledFrom(o, objs[w]), Write(w, o)
  PROVE  Cluster!Next
<1>1. objs' = [objs EXCEPT ![w] = o] /\ UNCHANGED chosen
  BY DEF Write
<1>2. ASSUME NEW d \in Targets, Cluster!ScaleDown(objs[w], d) = Cluster!Update(o)
      PROVE  Cluster!Next
  <2>1. Cluster!Downscale(w, d)
    BY <1>1, <1>2 DEF Cluster!Downscale, Cluster!Update
  <2> QED
    BY <2>1 DEF Cluster!Next
<1>3. CASE Cluster!ScaleUp(objs[w]) = Cluster!Update(o)
  <2>1. Cluster!Upscale(w)
    BY <1>1, <1>3 DEF Cluster!Upscale, Cluster!Update
  <2> QED
    BY <2>1 DEF Cluster!Next
<1> QED
  BY <1>2, <1>3 DEF Cluster!ScaledFrom

\* The request of a thread that the lock lets through is the object scaled.
LEMMA AcceptedIsScaled ==
  ASSUME Inv, NEW t \in Thread, threads[t].pc = "sent", Accepts(t[2], threads[t].ver)
  PROVE  Cluster!ScaledFrom(threads[t].base, objs[t[2]]) /\ objs[t[2]].live
<1>1. Locked(threads[t], objs[t[2]], version[t[2]])
  BY DEF Inv, ThreadsOK, ThreadInv
<1> QED
  BY <1>1 DEF Locked, Accepts

\* So is the request of a process that is dead.
LEMMA LateIsScaled ==
  ASSUME Inv, NEW r \in late, Accepts(r.w, r.ver)
  PROVE  Cluster!ScaledFrom(r.obj, objs[r.w]) /\ objs[r.w].live /\ r.w \in Workload
<1>1. LateInv(r, objs[r.w], version[r.w])
  BY DEF Inv, LateOK
<1> QED
  BY <1>1 DEF LateInv, Accepts

\* Whatever the scanners, their threads and everybody else do, the objects
\* change by a step of WorkloadScaling or not at all.
LEMMA ClusterStep ==
  ASSUME Inv, [Next]_vars
  PROVE  [Cluster!Next]_Cluster!vars
<1>0. UNCHANGED <<objs, chosen>> => UNCHANGED Cluster!vars
  BY DEF Cluster!vars
<1>1. CASE UNCHANGED vars
  BY <1>0, <1>1 DEF vars
<1>2. ASSUME NEW s \in Scanner, ScannerStep(s) \/ Crash(s)
      PROVE  UNCHANGED <<objs, chosen>>
  BY <1>2 DEF ScannerStep, Crash, StartCycle, FilterExcluded, StartScan, EndCycle,
              GetWorkloads, GetWorkloadsFails, GetNamespaceScope, Restart, cluster
<1>3. ASSUME NEW t \in Thread, ThreadStep(t)
      PROVE  UNCHANGED <<objs, chosen>> \/ Cluster!Next
  <2>1. CASE UpdateAccepted(t) \/ UpdateReplyLost(t)
    <3>1. /\ threads[t].pc = "sent" /\ Accepts(t[2], threads[t].ver)
          /\ Write(t[2], threads[t].base) /\ t[2] \in Workload
      BY <2>1 DEF UpdateAccepted, UpdateReplyLost, Thread
    <3> QED
      BY <3>1, AcceptedIsScaled, WriteIsScaling
  <2>2. CASE ~(UpdateAccepted(t) \/ UpdateReplyLost(t))
    BY <1>3, <2>2 DEF ThreadStep, scanWorkload, scaleWorkload, UpdateConflict,
      UpdateFails, RegetWorkload, GetChild, scaleWorkloads, cluster
  <2> QED
    BY <2>1, <2>2
<1>4. ASSUME NEW r \in late, LateUpdate(r)
      PROVE  UNCHANGED <<objs, chosen>> \/ Cluster!Next
  <2>1. CASE Accepts(r.w, r.ver) /\ Write(r.w, r.obj)
    BY <2>1, LateIsScaled, WriteIsScaling
  <2>2. CASE UNCHANGED cluster
    BY <2>2 DEF cluster
  <2> QED
    BY <1>4, <2>1, <2>2 DEF LateUpdate
<1>5. ASSUME NEW w \in Workload, External(w)
      PROVE  Cluster!Next
  <2>1. now \in CreationTimes
    BY DownscalerAssumption DEF Inv, RestOK
  <2> QED
    BY <1>5, <2>1 DEF External, Cluster!Next
<1>6. CASE (\E n \in Namespace : AnnotateNamespace(n)) \/ Tick
  BY <1>0, <1>6 DEF AnnotateNamespace, Tick, cluster
<1> QED
  BY <1>0, <1>1, <1>2, <1>3, <1>4, <1>5, <1>6 DEF Next

\* The objects of the cluster keep their types.
LEMMA ClusterTypeStep ==
  ASSUME Inv, [Next]_vars
  PROVE  Cluster!TypeOK'
<1>1. Facts!TypeOK /\ [Facts!Next]_Facts!vars
  BY ClusterStep, SameSpecification DEF Inv
<1>2. Facts!TypeOK'
  BY <1>1, FactsAssumption, Facts!TypeStep
<1> QED
  BY <1>2, SameObjects DEF Facts!TypeOK, Cluster!TypeOK

-----------------------------------------------------------------------------
(* Versions, counters and the state of the scanners.                       *)

\* A new version is one that no copy and no request has.
LEMMA NewVersionIsFresh ==
  ASSUME RestOK, NEW w \in Workload, NewVersion(w)
  PROVE  /\ version' \in [Workload -> Version]
         /\ \A x \in Workload \ {w} : version'[x] = version[x]
         /\ \A t \in Thread : t[2] = w => threads[t].ver # version'[w]
         /\ \A r \in late : r.w = w => r.ver # version'[w]
<1> DEFINE v == CHOOSE v \in FreshVersions(w) : TRUE
<1>1. v \in FreshVersions(w) /\ version' = [version EXCEPT ![w] = v]
  BY DEF NewVersion
<1> HIDE DEF v
<1>2. /\ v \in Version
      /\ \A t \in Thread : t[2] = w => threads[t].ver # v
      /\ \A r \in late : r.w = w => r.ver # v
  BY <1>1 DEF FreshVersions
<1>3. version \in [Workload -> Version]
  BY DEF RestOK
<1> QED
  BY <1>1, <1>2, <1>3

\* A disturbance is taken from the budget.
LEMMA SpendType ==
  ASSUME RestOK, NEW d \in Disturbance, Spend(d)
  PROVE  budget' \in [Disturbance -> Nat]
BY DEF RestOK, Spend

\* A thread counts for its scanner and namespace.
LEMMA CountType ==
  ASSUME RestOK, NEW t \in Thread, NEW c \in Counter, Count(t, c)
  PROVE  metrics' \in [Scanner -> [Namespace -> [Counter -> Nat]]]
<1>1. t[1] \in Scanner /\ NamespaceOf[t[2]] \in Namespace
  BY DownscalerAssumption DEF Thread
<1> QED
  BY <1>1 DEF RestOK, Count

\* A process that exits leaves nothing behind.
LEMMA ExitType ==
  ASSUME RestOK, NEW s \in Scanner, NEW end \in Phase, Exit(s, end)
  PROVE  /\ phase' \in [Scanner -> Phase]
         /\ pending' \in [Scanner -> SUBSET (Resource \cup Namespace)]
         /\ nsScopes' \in [Scanner -> [Namespace -> NamespaceAnnotations \cup {Unset}]]
         /\ \A x \in Scanner, n \in Namespace :
              nsScopes'[x][n] # Unset => nsScopes'[x][n] # Malformed
         /\ metrics' \in [Scanner -> [Namespace -> [Counter -> Nat]]]
<1>1. NoScopes \in [Namespace -> NamespaceAnnotations \cup {Unset}]
  BY DEF NoScopes
<1>2. NoMetrics \in [Namespace -> [Counter -> Nat]]
  BY DEF NoMetrics
<1>3. \A n \in Namespace : NoScopes[n] = Unset
  BY DEF NoScopes
<1> QED
  BY <1>1, <1>2, <1>3 DEF RestOK, Exit

\* The steps of a scanner.
LEMMA ScannerRest ==
  ASSUME Inv, NEW s \in Scanner, ScannerStep(s) \/ Crash(s)
  PROVE  RestOK'
<1>0. RestOK
  BY DEF Inv
<1>1. /\ NoScopes \in [Namespace -> NamespaceAnnotations \cup {Unset}]
      /\ \A n \in Namespace : NoScopes[n] = Unset
      /\ NoMetrics \in [Namespace -> [Counter -> Nat]]
  BY DEF NoScopes, NoMetrics
<1>2. CASE StartCycle(s)
  BY <1>0, <1>1, <1>2 DEF StartCycle, RestOK, cluster, Phase
<1>3. CASE FilterExcluded(s)
  <2> DEFINE excluded == {w \in Listed(s) : Excluded(s, w)}
  <2>1. \A n \in Namespace : Cardinality({w \in excluded : NamespaceOf[w] = n}) \in Nat
    <3> SUFFICES ASSUME NEW n \in Namespace
                 PROVE  Cardinality({w \in excluded : NamespaceOf[w] = n}) \in Nat
      OBVIOUS
    <3>1. {w \in excluded : NamespaceOf[w] = n} \subseteq Workload
      BY DEF Listed
    <3>2. IsFiniteSet(Workload)
      BY DownscalerAssumption
    <3> QED
      BY <3>1, <3>2, FS_Subset, FS_CardinalityType
  <2>2. metrics' = [metrics EXCEPT ![s] = [n \in Namespace |->
          [metrics[s][n] EXCEPT !["excluded"] =
             @ + Cardinality({w \in excluded : NamespaceOf[w] = n})]]]
    BY <1>3 DEF FilterExcluded
  <2> HIDE DEF excluded
  <2>3. metrics' \in [Scanner -> [Namespace -> [Counter -> Nat]]]
    <3> DEFINE count(n) == Cardinality({w \in excluded : NamespaceOf[w] = n})
               m == [n \in Namespace |->
                       [metrics[s][n] EXCEPT !["excluded"] = @ + count(n)]]
    <3>1. metrics' = [metrics EXCEPT ![s] = m]
      BY <2>2
    <3>2. \A n \in Namespace : count(n) \in Nat
      BY <2>1
    <3> HIDE DEF count
    <3>3. \A n \in Namespace : metrics[s][n] \in [Counter -> Nat] /\ "excluded" \in Counter
      BY <1>0 DEF RestOK, Counter
    <3>4. m \in [Namespace -> [Counter -> Nat]]
      BY <3>2, <3>3
    <3> HIDE DEF m
    <3> QED
      BY <1>0, <3>1, <3>4 DEF RestOK
  <2>4. pending' \in [Scanner -> SUBSET (Resource \cup Namespace)]
    <3> DEFINE asked == {NamespaceOf[w] : w \in Listed(s) \ excluded}
    <3>1. pending' = [pending EXCEPT ![s] = asked]
      BY <1>3 DEF FilterExcluded, excluded
    <3>2. asked \subseteq Namespace
      BY DownscalerAssumption DEF Listed
    <3> HIDE DEF asked
    <3> QED
      BY <1>0, <3>1, <3>2 DEF RestOK
  <2>5. phase' \in [Scanner -> Phase] /\ UNCHANGED <<cluster, now, config, nsScopes, budget>>
    BY <1>0, <1>3 DEF RestOK, FilterExcluded, Phase
  <2> QED
    BY <1>0, <2>3, <2>4, <2>5 DEF RestOK, cluster
<1>4. CASE StartScan(s)
  BY <1>0, <1>4 DEF StartScan, RestOK, cluster, Phase
<1>5. CASE EndCycle(s)
  <2>0. UNCHANGED <<cluster, now, config, budget>>
    BY <1>5 DEF EndCycle
  <2>1. CASE Exit(s, "finished")
    BY <1>0, <2>0, <2>1, ExitType DEF RestOK, Phase, cluster
  <2>2. CASE ~Exit(s, "finished")
    BY <1>0, <1>5, <2>0, <2>2 DEF EndCycle, RestOK, Phase, cluster
  <2> QED
    BY <2>1, <2>2
<1>6. ASSUME NEW r \in Resource, GetWorkloads(s, r) PROVE RestOK'
  BY <1>0, <1>6 DEF GetWorkloads, RestOK, cluster
<1>7. CASE GetWorkloadsFails(s) \/ Crash(s)
  <2>1. /\ UNCHANGED <<cluster, now, config>>
        /\ Exit(s, "exited") /\ budget' \in [Disturbance -> Nat]
    BY <1>0, <1>7, SpendType DEF GetWorkloadsFails, Crash, Disturbance
  <2> QED
    BY <1>0, <2>1, ExitType DEF RestOK, Phase, cluster
<1>8. ASSUME NEW n \in Namespace, GetNamespaceScope(s, n) PROVE RestOK'
  <2>1. /\ UNCHANGED <<cluster, now, config, phase>>
        /\ pending' = [pending EXCEPT ![s] = @ \ {n}]
    BY <1>8 DEF GetNamespaceScope
  <2>2. CASE /\ GetScopeFromAnnotations(annotations[n])
             /\ nsScopes' = [nsScopes EXCEPT ![s][n] = annotations[n]]
             /\ UNCHANGED <<metrics, budget>>
    <3>1. annotations[n] \in NamespaceAnnotations /\ annotations[n] # Malformed
      BY <1>0, <2>2 DEF RestOK, GetScopeFromAnnotations
    <3> QED
      BY <1>0, <2>1, <2>2, <3>1 DEF RestOK, cluster
  <2>3. CASE /\ UNCHANGED budget \/ Spend("failure")
             /\ metrics' = [metrics EXCEPT ![s][n]["parsingNamespace"] = 1]
             /\ UNCHANGED nsScopes
    <3>1. budget' \in [Disturbance -> Nat]
      BY <1>0, <2>3, SpendType DEF RestOK, Disturbance
    <3>2. metrics' \in [Scanner -> [Namespace -> [Counter -> Nat]]]
      BY <1>0, <2>3 DEF RestOK, Counter
    <3> QED
      BY <1>0, <2>1, <2>3, <3>1, <3>2 DEF RestOK, cluster
  <2> QED
    BY <1>8, <2>2, <2>3 DEF GetNamespaceScope
<1>9. CASE Restart(s)
  BY <1>0, <1>9 DEF Restart, RestOK, cluster, Phase
<1> QED
  BY <1>2, <1>3, <1>4, <1>5, <1>6, <1>7, <1>8, <1>9 DEF ScannerStep

\* The steps of a thread.
LEMMA ThreadRest ==
  ASSUME Inv, NEW t \in Thread, ThreadStep(t)
  PROVE  RestOK'
<1>0. RestOK /\ t[2] \in Workload
  BY DEF Inv, Thread
<1>1. ASSUME UNCHANGED <<annotations, now, config, phase, pending, nsScopes>>,
             version' \in [Workload -> Version],
             metrics' \in [Scanner -> [Namespace -> [Counter -> Nat]]],
             budget' \in [Disturbance -> Nat]
      PROVE  RestOK'
  BY <1>0, <1>1 DEF RestOK
<1>2. /\ UNCHANGED version => version' \in [Workload -> Version]
      /\ UNCHANGED metrics => metrics' \in [Scanner -> [Namespace -> [Counter -> Nat]]]
      /\ UNCHANGED budget => budget' \in [Disturbance -> Nat]
      /\ Spend("failure") => budget' \in [Disturbance -> Nat]
      /\ NewVersion(t[2]) => version' \in [Workload -> Version]
  BY <1>0, SpendType, NewVersionIsFresh DEF RestOK, Disturbance
<1>3. ASSUME NEW c \in Counter, Count(t, c) \/ End(t, c) \/ \E o : Succeed(t, o, c)
      PROVE  metrics' \in [Scanner -> [Namespace -> [Counter -> Nat]]]
  BY <1>0, <1>3, CountType DEF End, Succeed
<1>4. {"parsingWorkload", "excluded", "invalid", "generic", "conflict", ScaledCounter(t)}
        \subseteq Counter
  BY DEF Counter, ScaledCounter
<1>5. CASE scanWorkload(t)
  <2>1. UNCHANGED <<cluster, now, config, phase, pending, nsScopes, budget>>
    BY <1>5 DEF scanWorkload
  <2>2. End(t, "parsingWorkload") \/ End(t, "excluded") \/ UNCHANGED metrics
    BY <1>5 DEF scanWorkload, EndUncounted
  <2> QED
    BY <1>1, <1>2, <1>3, <1>4, <2>1, <2>2 DEF cluster
<1>6. CASE scaleWorkload(t)
  <2>1. UNCHANGED <<cluster, now, config, phase, pending, nsScopes, budget>>
    BY <1>6 DEF scaleWorkload
  <2>2. \/ \E c \in Counter : End(t, c) \/ \E o : Succeed(t, o, c)
        \/ UNCHANGED metrics
    BY <1>4, <1>6 DEF scaleWorkload
  <2> QED
    BY <1>1, <1>2, <1>3, <2>1, <2>2 DEF cluster
<1>7. CASE UpdateAccepted(t)
  <2>1. /\ UNCHANGED <<annotations, now, config, phase, pending, nsScopes, budget>>
        /\ NewVersion(t[2]) /\ \E o : Succeed(t, o, ScaledCounter(t))
    BY <1>7 DEF UpdateAccepted, Write
  <2> QED
    BY <1>1, <1>2, <1>3, <1>4, <2>1
<1>8. CASE UpdateReplyLost(t)
  <2>1. /\ UNCHANGED <<annotations, now, config, phase, pending, nsScopes>>
        /\ NewVersion(t[2]) /\ End(t, "generic") /\ Spend("failure")
    BY <1>8 DEF UpdateReplyLost, Write
  <2> QED
    BY <1>1, <1>2, <1>3, <1>4, <2>1
<1>9. CASE UpdateConflict(t) \/ scaleWorkloads(t)
  <2>1. UNCHANGED <<cluster, now, config, phase, pending, nsScopes, metrics, budget>>
    BY <1>9 DEF UpdateConflict, scaleWorkloads
  <2> QED
    BY <1>1, <1>2, <2>1 DEF cluster
<1>10. CASE UpdateFails(t)
  <2>1. /\ UNCHANGED <<cluster, now, config, phase, pending, nsScopes>>
        /\ End(t, "generic") /\ (UNCHANGED budget \/ Spend("failure"))
    BY <1>10 DEF UpdateFails
  <2> QED
    BY <1>1, <1>2, <1>3, <1>4, <2>1 DEF cluster
<1>11. CASE RegetWorkload(t)
  <2>1. /\ UNCHANGED <<cluster, now, config, phase, pending, nsScopes>>
        /\ UNCHANGED metrics \/ End(t, "conflict")
        /\ UNCHANGED budget \/ Spend("failure")
    BY <1>11 DEF RegetWorkload, EndUncounted
  <2> QED
    BY <1>1, <1>2, <1>3, <1>4, <2>1 DEF cluster
<1>12. CASE \E c \in Workload : GetChild(t, c)
  <2>1. /\ UNCHANGED <<cluster, now, config, phase, pending, nsScopes, metrics>>
        /\ UNCHANGED budget \/ Spend("failure")
    BY <1>12 DEF GetChild
  <2> QED
    BY <1>1, <1>2, <2>1 DEF cluster
<1> QED
  BY <1>5, <1>6, <1>7, <1>8, <1>9, <1>10, <1>11, <1>12 DEF ThreadStep

\* The versions, the counters and the state of the scanners keep their types.
LEMMA RestStep ==
  ASSUME Inv, [Next]_vars
  PROVE  RestOK'
<1>0. RestOK
  BY DEF Inv
<1>1. CASE UNCHANGED vars
  BY <1>0, <1>1 DEF vars, RestOK
<1>2. ASSUME NEW r \in late, LateUpdate(r) PROVE RestOK'
  <2>1. UNCHANGED <<annotations, now, config, local, budget>>
    BY <1>2 DEF LateUpdate, Write, cluster
  <2>2. version' \in [Workload -> Version]
    <3>1. CASE Accepts(r.w, r.ver) /\ Write(r.w, r.obj)
      BY <1>0, <3>1, LateIsScaled, NewVersionIsFresh DEF Write
    <3>2. CASE UNCHANGED cluster
      BY <1>0, <3>2 DEF cluster, RestOK
    <3> QED
      BY <1>2, <3>1, <3>2 DEF LateUpdate
  <2> QED
    BY <1>0, <2>1, <2>2 DEF RestOK, local
<1>3. ASSUME NEW w \in Workload, External(w) PROVE RestOK'
  <2>1. NewVersion(w) /\ UNCHANGED <<annotations, now, config, local>>
    BY <1>3 DEF External
  <2>2. version' \in [Workload -> Version]
    BY <1>0, <2>1, NewVersionIsFresh
  <2>3. \E d \in Disturbance : Spend(d)
    BY <1>3 DEF External, Disturbance
  <2>4. budget' \in [Disturbance -> Nat]
    BY <1>0, <2>3, SpendType
  <2> QED
    BY <1>0, <2>1, <2>2, <2>4 DEF RestOK, local
<1>4. ASSUME NEW n \in Namespace, AnnotateNamespace(n) PROVE RestOK'
  <2>1. budget' \in [Disturbance -> Nat]
    BY <1>0, <1>4, SpendType DEF AnnotateNamespace, Disturbance
  <2> QED
    BY <1>0, <1>4, <2>1 DEF AnnotateNamespace, RestOK, local
<1>5. CASE Tick
  BY <1>0, <1>5, DownscalerAssumption DEF Tick, RestOK, local, cluster
<1> QED
  BY <1>1, <1>2, <1>3, <1>4, <1>5, ScannerRest, ThreadRest DEF Next

-----------------------------------------------------------------------------
(* The threads.                                                            *)

\* Objects of the cluster are copies of themselves.
LEMMA ObjectsAreCopies ==
  ASSUME Inv, NEW w \in Workload
  PROVE  Copy(w, objs[w]) /\ version[w] \in Version
BY DEF Inv, RestOK, Cluster!TypeOK, Copy

\* As long as nothing is written, it is enough to look at the new records.
LEMMA NothingWritten ==
  ASSUME Inv, UNCHANGED <<objs, version>>, DOMAIN threads' = Thread,
         \A u \in Thread : \/ threads'[u] = threads[u]
                           \/ ThreadInv(u[2], threads'[u], objs[u[2]], version[u[2]])
  PROVE  ThreadsOK'
<1>1. \A u \in Thread : ThreadInv(u[2], threads'[u], objs[u[2]], version[u[2]])
  BY DEF Inv, ThreadsOK
<1> QED
  BY <1>1 DEF ThreadsOK

\* Most steps of a thread change its own record only.
LEMMA OneThread ==
  ASSUME Inv, UNCHANGED <<objs, version>>, NEW t \in Thread, NEW r,
         threads' = [threads EXCEPT ![t] = r],
         ThreadInv(t[2], r, objs[t[2]], version[t[2]])
  PROVE  ThreadsOK'
<1>1. DOMAIN threads = Thread
  BY DEF Inv, ThreadsOK
<1>2. DOMAIN threads' = Thread /\ threads'[t] = r
  BY <1>1
<1>3. \A u \in Thread \ {t} : threads'[u] = threads[u]
  BY <1>1
<1> QED
  BY <1>2, <1>3, NothingWritten

\* A write leaves every copy of the object stale, and the others as they are.
LEMMA SomethingWritten ==
  ASSUME Inv, NEW w \in Workload, NewVersion(w),
         \A x \in Workload \ {w} : objs'[x] = objs[x]
  PROVE  /\ \A u \in Thread :
              ThreadInv(u[2], threads[u], objs'[u[2]], version'[u[2]])
         /\ \A r \in late : LateInv(r, objs'[r.w], version'[r.w])
<1>1. /\ \A x \in Workload \ {w} : version'[x] = version[x]
      /\ \A u \in Thread : u[2] = w => threads[u].ver # version'[w]
      /\ \A r \in late : r.w = w => r.ver # version'[w]
  BY NewVersionIsFresh DEF Inv
<1>2. ASSUME NEW u \in Thread
      PROVE  ThreadInv(u[2], threads[u], objs'[u[2]], version'[u[2]])
  <2>1. ThreadInv(u[2], threads[u], objs[u[2]], version[u[2]]) /\ u[2] \in Workload
    BY DEF Inv, ThreadsOK, Thread
  <2>2. CASE u[2] = w
    BY <1>1, <2>1, <2>2, StaleRecord
  <2>3. CASE u[2] # w
    BY <1>1, <2>1, <2>3
  <2> QED
    BY <2>2, <2>3
<1>3. ASSUME NEW r \in late
      PROVE  LateInv(r, objs'[r.w], version'[r.w])
  <2>1. LateInv(r, objs[r.w], version[r.w]) /\ r.w \in Workload
    BY DEF Inv, LateOK, LateInv
  <2>2. CASE r.w = w
    BY <1>1, <2>1, <2>2 DEF LateInv
  <2>3. CASE r.w # w
    BY <1>1, <2>1, <2>3
  <2> QED
    BY <2>2, <2>3
<1> QED
  BY <1>2, <1>3

\* A scan that gets past the parsing has a decision and downscale replicas.
LEMMA ScanDecides ==
  ASSUME Inv, NEW t \in Thread, threads[t].pc = "listed",
         GetScopeFromAnnotations(threads[t].base.scope),
         nsScopes[t[1]][NamespaceOf[t[2]]] # Unset
  PROVE  /\ ScanDecision(ScopesOf(t), threads[t].base.created, now) \in Scaling \cup {"skip"}
         /\ GetDownscaleReplicas(ScopesOf(t)) \in Targets
         /\ GetDownscaleReplicas(ScopesOf(t)) # Unset
<1> DEFINE scopes == ScopesOf(t)
           n == NamespaceOf[t[2]]
<1>1. DOMAIN scopes = 1..5 /\ 1..5 \subseteq Nat
  BY DEF ScopesOf
<1>2. /\ scopes[1] = threads[t].base.scope /\ scopes[2] = nsScopes[t[1]][n]
      /\ scopes[3] = scopeCli /\ scopes[4] = scopeEnv /\ scopes[5] = scopeDefault
  BY DEF ScopesOf
<1>3. t[1] \in Scanner /\ t[2] \in Workload /\ n \in Namespace
  BY DownscalerAssumption DEF Thread
<1>4. scopes[1] \in Annotations /\ scopes[1] # Malformed
  <2>1. Copy(t[2], threads[t].base)
    BY DEF Inv, ThreadsOK, ThreadInv, ThreadType
  <2> QED
    BY <1>2, <2>1 DEF Copy, Cluster!Object, GetScopeFromAnnotations
<1>5. scopes[2] \in NamespaceAnnotations /\ scopes[2] # Malformed
  BY <1>2, <1>3 DEF Inv, RestOK
<1>6. scopes[5].DownscaleReplicas # Unset
  BY <1>2, DownscalerAssumption
<1>7. \A i \in 1..5 : scopes[i].DownscaleReplicas \in Targets \cup {Unset}
  <2>1. /\ scopes[1].DownscaleReplicas \in Targets \cup {Unset}
        /\ scopes[2].DownscaleReplicas \in Targets \cup {Unset}
    BY <1>4, <1>5, DownscalerAssumption
  <2>2. /\ scopes[3].DownscaleReplicas \in Targets \cup {Unset}
        /\ scopes[4].DownscaleReplicas \in Targets \cup {Unset}
        /\ scopes[5].DownscaleReplicas \in Targets \cup {Unset}
    BY <1>2, DownscalerAssumption
  <2>3. \A i \in 1..5 : i \in {1, 2, 3, 4, 5}
    OBVIOUS
  <2> QED
    BY <2>1, <2>2, <2>3
<1> HIDE DEF scopes
<1>8. ScanDecision(scopes, threads[t].base.created, now) \in Scaling \cup {"skip"}
  BY <1>1, ScanDecisionType
<1>9. \E i \in 1..5 : /\ GetDownscaleReplicas(scopes) = scopes[i].DownscaleReplicas
                      /\ scopes[i].DownscaleReplicas # Unset
  <2>1. 5 \in DOMAIN scopes
    BY <1>1
  <2> QED
    BY <1>1, <1>6, <2>1, DownscaleReplicasAreSet
<1> QED
  BY <1>7, <1>8, <1>9 DEF scopes

\* A thread that ends, or goes on to the children, has nothing left to write.
LEMMA ThreadLetsGo ==
  ASSUME Inv, NEW t \in Thread,
         \/ (\E c : End(t, c)) \/ EndUncounted(t)
         \/ /\ threads[t].pc \in {"scale", "sent"}
            /\ \E o, c : Copy(t[2], o) /\ Succeed(t, o, c)
  PROVE  \E r : /\ threads' = [threads EXCEPT ![t] = r]
                /\ \A o, v : ThreadInv(t[2], r, o, v)
<1>0. t[2] \in Workload /\ ThreadInv(t[2], threads[t], objs[t[2]], version[t[2]])
  BY DEF Thread, Inv, ThreadsOK
<1>1. \A pc \in {"done", "uncounted"} : \A o, v : ThreadInv(t[2], Ended(t, pc), o, v)
  BY <1>0, EndedRecord DEF Ended
<1>2. CASE (\E c : End(t, c)) \/ EndUncounted(t)
  BY <1>1, <1>2 DEF End, EndUncounted
<1>3. ASSUME NEW o, NEW c, threads[t].pc \in {"scale", "sent"},
             Copy(t[2], o), Succeed(t, o, c)
      PROVE  \E r : /\ threads' = [threads EXCEPT ![t] = r]
                    /\ \A newo, v : ThreadInv(t[2], r, newo, v)
  <2>1. CASE t[3] = 0 /\ threads[t].scaleChildren
    <3> DEFINE r == [threads[t] EXCEPT !.pc = "children", !.base = o, !.ver = Unset,
                                       !.todo = o.active]
    <3>1. threads' = [threads EXCEPT ![t] = r]
      BY <1>3, <2>1 DEF Succeed
    <3>2. \A newo, v : ThreadInv(t[2], r, newo, v)
      BY <1>0, <1>3, ChildrenRecord
    <3> QED
      BY <3>1, <3>2
  <2>2. CASE ~(t[3] = 0 /\ threads[t].scaleChildren)
    BY <1>1, <1>3, <2>2 DEF Succeed
  <2> QED
    BY <2>1, <2>2
<1> QED
  BY <1>2, <1>3

\* The steps of a scanner.
LEMMA ScannerThreads ==
  ASSUME Inv, NEW s \in Scanner, ScannerStep(s) \/ Crash(s)
  PROVE  ThreadsOK'
<1>0. DOMAIN threads = Thread /\ \A t \in Thread : t[2] \in Workload
  BY DEF Inv, ThreadsOK, Thread
<1>1. UNCHANGED <<objs, version>>
  BY DEF ScannerStep, Crash, StartCycle, FilterExcluded, StartScan, EndCycle,
         GetWorkloads, GetWorkloadsFails, GetNamespaceScope, Restart, cluster
<1>2. CASE \/ StartCycle(s) \/ StartScan(s) \/ Restart(s)
           \/ \E n \in Namespace : GetNamespaceScope(s, n)
  <2>1. UNCHANGED threads
    BY <1>2 DEF StartCycle, StartScan, Restart, GetNamespaceScope
  <2> QED
    BY <1>0, <1>1, <2>1, NothingWritten
<1>3. CASE FilterExcluded(s)
  <2>1. /\ DOMAIN threads' = Thread
        /\ \A t \in Thread : \/ threads'[t] = threads[t]
                             \/ threads'[t] = [Idle EXCEPT !.pc = "done"]
    BY <1>3 DEF FilterExcluded
  <2> QED
    BY <1>0, <1>1, <2>1, NothingWritten, EndedRecord
<1>4. ASSUME NEW r \in Resource, GetWorkloads(s, r) PROVE ThreadsOK'
  <2>1. /\ DOMAIN threads' = Thread
        /\ \A t \in Thread :
             \/ threads'[t] = threads[t]
             \/ threads'[t] = [Idle EXCEPT !.pc = "listed", !.base = objs[t[2]],
                                           !.ver = version[t[2]]]
    BY <1>4 DEF GetWorkloads
  <2>2. \A w \in Workload :
          ThreadInv(w, [Idle EXCEPT !.pc = "listed", !.base = objs[w], !.ver = version[w]],
                    objs[w], version[w])
    BY ObjectsAreCopies, FreshRecord
  <2> QED
    BY <1>0, <1>1, <2>1, <2>2, NothingWritten
<1>5. ASSUME NEW end, Exit(s, end) PROVE ThreadsOK'
  <2>1. /\ DOMAIN threads' = Thread
        /\ \A t \in Thread : threads'[t] = threads[t] \/ threads'[t] = Idle
    BY <1>5 DEF Exit
  <2> QED
    BY <1>0, <1>1, <2>1, NothingWritten, EndedRecord
<1>6. CASE EndCycle(s) /\ ~\E end : Exit(s, end)
  <2>1. /\ DOMAIN threads' = Thread
        /\ \A t \in Thread : \/ threads'[t] = threads[t] \/ threads'[t] = Idle
                             \/ threads'[t] = [threads[t] EXCEPT !.own = FALSE]
    BY <1>6 DEF EndCycle
  <2>2. \A t \in Thread :
          ThreadInv(t[2], [threads[t] EXCEPT !.own = FALSE], objs[t[2]], version[t[2]])
    BY OtherFields DEF Inv, ThreadsOK
  <2> QED
    BY <1>0, <1>1, <2>1, <2>2, NothingWritten, EndedRecord
<1> QED
  BY <1>2, <1>3, <1>4, <1>5, <1>6 DEF ScannerStep, Crash, GetWorkloadsFails

\* The steps of a thread.
LEMMA ThreadThreads ==
  ASSUME Inv, NEW t \in Thread, ThreadStep(t)
  PROVE  ThreadsOK'
<1> DEFINE w == t[2]
           r == threads[t]
<1>0. /\ DOMAIN threads = Thread /\ w \in Workload
      /\ ThreadInv(w, r, objs[w], version[w]) /\ ThreadType(w, r)
  BY DEF Inv, ThreadsOK, Thread, ThreadInv
<1>1. ASSUME UNCHANGED <<objs, version>>,
             \/ (\E c : End(t, c)) \/ EndUncounted(t)
             \/ /\ r.pc \in {"scale", "sent"}
                /\ \E o, c : Copy(w, o) /\ Succeed(t, o, c)
      PROVE  ThreadsOK'
  BY <1>1, ThreadLetsGo, OneThread
<1>2. ASSUME Write(w, r.base),
             \/ (\E c : End(t, c))
             \/ /\ r.pc \in {"scale", "sent"}
                /\ \E o, c : Copy(w, o) /\ Succeed(t, o, c)
      PROVE  ThreadsOK'
  <2>1. NewVersion(w) /\ \A x \in Workload \ {w} : objs'[x] = objs[x]
    BY <1>2 DEF Write, Inv, Cluster!TypeOK
  <2>2. \A u \in Thread : ThreadInv(u[2], threads[u], objs'[u[2]], version'[u[2]])
    BY <1>0, <2>1, SomethingWritten
  <2>3. PICK new : /\ threads' = [threads EXCEPT ![t] = new]
                   /\ \A o, v : ThreadInv(w, new, o, v)
    BY <1>2, ThreadLetsGo
  <2>4. DOMAIN threads' = Thread
    BY <1>0, <2>3
  <2>5. \A u \in Thread : ThreadInv(u[2], threads'[u], objs'[u[2]], version'[u[2]])
    <3> SUFFICES ASSUME NEW u \in Thread
                 PROVE  ThreadInv(u[2], threads'[u], objs'[u[2]], version'[u[2]])
      OBVIOUS
    <3>1. CASE u = t
      BY <1>0, <2>3, <3>1
    <3>2. CASE u # t
      <4>1. threads'[u] = threads[u]
        BY <1>0, <2>3, <3>2
      <4> QED
        BY <2>2, <4>1
    <3> QED
      BY <3>1, <3>2
  <2> QED
    BY <2>4, <2>5 DEF ThreadsOK
<1>3. CASE scanWorkload(t)
  <2> DEFINE decision == ScanDecision(ScopesOf(t), r.base.created, now)
             new == [r EXCEPT !.pc = "scale", !.scaling = decision,
                              !.replicas = GetDownscaleReplicas(ScopesOf(t)),
                              !.scaleChildren = GetScaleChildren(ScopesOf(t))]
  <2>1. UNCHANGED <<objs, version>> /\ r.pc = "listed"
    BY <1>3 DEF scanWorkload, cluster
  <2>2. CASE (\E c : End(t, c)) \/ EndUncounted(t)
    BY <1>1, <2>1, <2>2
  <2>3. CASE ~((\E c : End(t, c)) \/ EndUncounted(t))
    <3>1. /\ GetScopeFromAnnotations(r.base.scope)
          /\ nsScopes[t[1]][NamespaceOf[t[2]]] # Unset
          /\ decision # "skip" /\ threads' = [threads EXCEPT ![t] = new]
      BY <1>3, <2>3 DEF scanWorkload
    <3>2. /\ decision \in Scaling
          /\ GetDownscaleReplicas(ScopesOf(t)) \in Targets
          /\ GetDownscaleReplicas(ScopesOf(t)) # Unset
      BY <2>1, <3>1, ScanDecides
    <3>3. GetScaleChildren(ScopesOf(t)) \in BOOLEAN
      BY DEF GetScaleChildren
    <3> HIDE DEF decision
    <3>4. ThreadInv(w, new, objs[w], version[w])
      BY <1>0, <2>1, <3>2, <3>3, DecidedRecord
    <3> QED
      BY <2>1, <3>1, <3>4, OneThread DEF decision
  <2> QED
    BY <2>2, <2>3
<1>4. CASE scaleWorkload(t)
  <2>1. UNCHANGED <<objs, version>> /\ r.pc = "scale"
    BY <1>4 DEF scaleWorkload, cluster
  <2>2. Copy(w, r.base) /\ r.replicas \in Targets
    BY <1>0, <2>1 DEF ThreadType
  <2>3. CASE r.scaling \in {"none", "ignore", "incomplete"} /\ Succeed(t, r.base, "excluded")
    BY <1>1, <2>1, <2>2, <2>3
  <2>4. CASE End(t, "invalid") \/ End(t, "generic")
    BY <1>1, <2>1, <2>4
  <2>5. CopyResult(w, r.base, Scaled(t))
    BY <1>0, <2>2, ScaledCopies DEF Scaled
  <2>6. CASE /\ Scaled(t).status \in {"skip", "update"}
             /\ Succeed(t, Scaled(t).obj, ScaledCounter(t))
    <3>1. Copy(w, Scaled(t).obj)
      BY <2>2, <2>5, <2>6 DEF CopyResult
    <3> QED
      BY <1>1, <2>1, <2>6, <3>1
  <2>7. CASE /\ Scaled(t).status = "update"
             /\ threads' = [threads EXCEPT ![t].pc = "sent", ![t].base = Scaled(t).obj]
    <3> DEFINE b == Scaled(t).obj
               new == [r EXCEPT !.pc = "sent", !.base = b]
    <3>1. Copy(w, b) /\ Scaled(t) = Cluster!Update(b)
      BY <2>5, <2>7 DEF CopyResult
    <3>2. Cluster!ScaledFrom(b, r.base)
      BY <2>2, <3>1 DEF Cluster!ScaledFrom, Scaled
    <3>3. ThreadInv(w, new, objs[w], version[w])
      BY <1>0, <2>1, <3>1, <3>2, SentRecord
    <3>4. threads' = [threads EXCEPT ![t] = new]
      BY <1>0, <2>7
    <3> QED
      BY <2>1, <3>3, <3>4, OneThread
  <2> QED
    BY <1>4, <2>3, <2>4, <2>6, <2>7 DEF scaleWorkload
<1>5. CASE UpdateAccepted(t) \/ UpdateReplyLost(t)
  <2>1. r.pc = "sent" /\ Copy(w, r.base)
    BY <1>0, <1>5 DEF UpdateAccepted, UpdateReplyLost, ThreadType
  <2> QED
    BY <1>2, <1>5, <2>1 DEF UpdateAccepted, UpdateReplyLost
<1>6. CASE UpdateConflict(t)
  <2>1. /\ UNCHANGED <<objs, version>> /\ r.pc = "sent"
        /\ threads' = [threads EXCEPT ![t] = [r EXCEPT !.pc = "conflict"]]
    BY <1>0, <1>6 DEF UpdateConflict, cluster
  <2> QED
    BY <1>0, <2>1, ConflictRecord, OneThread
<1>7. CASE UpdateFails(t)
  BY <1>1, <1>7 DEF UpdateFails, cluster
<1>8. CASE RegetWorkload(t)
  <2>1. UNCHANGED <<objs, version>> /\ r.pc = "conflict"
    BY <1>8 DEF RegetWorkload, cluster
  <2>2. CASE End(t, "conflict") \/ EndUncounted(t)
    BY <1>1, <2>1, <2>2
  <2>3. CASE /\ r.retry < MaxRetriesOnConflict
             /\ threads' = [threads EXCEPT ![t].pc = "scale", ![t].base = objs[t[2]],
                                           ![t].ver = version[t[2]], ![t].retry = @ + 1]
    <3> DEFINE new == [r EXCEPT !.pc = "scale", !.base = objs[w], !.ver = version[w],
                                !.retry = @ + 1]
    <3>1. threads' = [threads EXCEPT ![t] = new]
      BY <1>0, <2>3
    <3>2. ThreadInv(w, new, objs[w], version[w])
      BY <1>0, <2>1, <2>3, ObjectsAreCopies, RegetRecord
    <3> QED
      BY <2>1, <3>1, <3>2, OneThread
  <2> QED
    BY <1>8, <2>2, <2>3 DEF RegetWorkload
<1>9. ASSUME NEW c \in Workload, GetChild(t, c) PROVE ThreadsOK'
  <2>1. UNCHANGED <<objs, version>> /\ r.pc = "children"
    BY <1>9 DEF GetChild, cluster
  <2>2. r.todo \ {c} \in SUBSET Workload
    BY <1>0 DEF ThreadType
  <2>3. CASE threads' = [threads EXCEPT ![t].todo = @ \ {c}, ![t].failed = TRUE]
    <3>1. threads' = [threads EXCEPT ![t] = [r EXCEPT !.todo = r.todo \ {c}, !.failed = TRUE]]
      BY <1>0, <2>3
    <3> QED
      BY <1>0, <2>1, <2>2, <3>1, OtherFields, OneThread
  <2>4. ASSUME NEW k \in 1..MaxChildThreads,
               threads[<<t[1], c, k>>] = Idle,
               threads' = [threads EXCEPT
                  ![t].todo = @ \ {c},
                  ![<<t[1], c, k>>] = [Idle EXCEPT !.pc = "held",
                     !.base = objs[c], !.ver = version[c],
                     !.scaling = threads[t].scaling, !.replicas = threads[t].replicas]]
        PROVE  ThreadsOK'
    <3> DEFINE h == <<t[1], c, k>>
               held == [Idle EXCEPT !.pc = "held", !.base = objs[c], !.ver = version[c],
                          !.scaling = r.scaling, !.replicas = r.replicas]
               new == [r EXCEPT !.todo = r.todo \ {c}]
    <3>1. h \in Thread /\ h[2] = c
      BY DownscalerAssumption DEF Thread
    <3>2. h # t
      BY <2>1, <2>4 DEF Idle
    <3>3. ThreadInv(c, held, objs[c], version[c])
      BY <1>0, <2>1, ObjectsAreCopies, HeldRecord DEF ThreadType
    <3>4. ThreadInv(w, new, objs[w], version[w])
      BY <1>0, <2>2, OtherFields
    <3> HIDE DEF held
    <3>5. /\ DOMAIN threads' = Thread /\ threads'[t] = new /\ threads'[h] = held
          /\ \A u \in Thread \ {t, h} : threads'[u] = threads[u]
      BY <1>0, <2>4, <3>1, <3>2 DEF held
    <3> HIDE DEF h, new
    <3>6. \A u \in Thread : \/ threads'[u] = threads[u]
                            \/ ThreadInv(u[2], threads'[u], objs[u[2]], version[u[2]])
      BY <3>1, <3>3, <3>4, <3>5
    <3> QED
      BY <2>1, <3>5, <3>6, NothingWritten
  <2> QED
    BY <1>9, <2>3, <2>4 DEF GetChild
<1>10. CASE scaleWorkloads(t)
  <2>1. UNCHANGED <<objs, version>> /\ DOMAIN threads' = Thread
    BY <1>10 DEF scaleWorkloads, cluster
  <2>2. ASSUME NEW c \in Thread
        PROVE  \/ threads'[c] = threads[c]
               \/ ThreadInv(c[2], threads'[c], objs[c[2]], version[c[2]])
    <3>0. c[2] \in Workload /\ ThreadInv(c[2], threads[c], objs[c[2]], version[c[2]])
      BY DEF Thread, Inv, ThreadsOK
    <3>1. \/ c = t /\ threads'[c] = Ended(t, "done")
          \/ threads'[c] = threads[c] \/ threads'[c] = Idle
          \/ threads[c].pc = "held" /\ threads'[c] = [threads[c] EXCEPT !.pc = "scale"]
      BY <1>10 DEF scaleWorkloads, HeldBy
    <3>2. CASE c = t /\ threads'[c] = Ended(t, "done")
      BY <3>0, <3>2, EndedRecord DEF Ended
    <3>3. CASE threads'[c] = Idle
      BY <3>0, <3>3, EndedRecord
    <3>4. CASE threads[c].pc = "held" /\ threads'[c] = [threads[c] EXCEPT !.pc = "scale"]
      BY <3>0, <3>4, ReleasedRecord
    <3> QED
      BY <3>1, <3>2, <3>3, <3>4
  <2> QED
    BY <2>1, <2>2, NothingWritten
<1> QED
  BY <1>3, <1>4, <1>5, <1>6, <1>7, <1>8, <1>9, <1>10 DEF ThreadStep

\* Whatever the scanners, their threads and everybody else do, a copy with the
\* version of the object is the object.
LEMMA ThreadsStep ==
  ASSUME Inv, [Next]_vars
  PROVE  ThreadsOK'
<1>0. ThreadsOK /\ DOMAIN threads = Thread
  BY DEF Inv, ThreadsOK
<1>1. CASE UNCHANGED vars
  BY <1>0, <1>1 DEF vars, ThreadsOK
<1>2. ASSUME NEW w \in Workload, NewVersion(w), UNCHANGED threads,
             \A x \in Workload \ {w} : objs'[x] = objs[x]
      PROVE  ThreadsOK'
  <2>1. \A u \in Thread : ThreadInv(u[2], threads[u], objs'[u[2]], version'[u[2]])
    BY <1>2, SomethingWritten
  <2> QED
    BY <1>0, <1>2, <2>1 DEF ThreadsOK
<1>3. ASSUME NEW r \in late, LateUpdate(r) PROVE ThreadsOK'
  <2>1. UNCHANGED threads
    BY <1>3 DEF LateUpdate, local
  <2>2. CASE Accepts(r.w, r.ver) /\ Write(r.w, r.obj)
    <3>1. /\ r.w \in Workload /\ NewVersion(r.w)
          /\ \A x \in Workload \ {r.w} : objs'[x] = objs[x]
      BY <2>2, LateIsScaled DEF Write, Inv, Cluster!TypeOK
    <3> QED
      BY <1>2, <2>1, <3>1
  <2>3. CASE UNCHANGED cluster
    BY <1>0, <2>1, <2>3 DEF cluster, ThreadsOK
  <2> QED
    BY <1>3, <2>2, <2>3 DEF LateUpdate
<1>4. ASSUME NEW w \in Workload, External(w) PROVE ThreadsOK'
  <2>1. UNCHANGED threads /\ NewVersion(w)
    BY <1>4 DEF External, local
  <2>2. \A x \in Workload \ {w} : objs'[x] = objs[x]
    BY <1>4 DEF External, Cluster!SetValue, Cluster!Annotate, Cluster!SetActive,
                Cluster!Delete, Cluster!Create, Inv, Cluster!TypeOK
  <2> QED
    BY <1>2, <2>1, <2>2
<1>5. CASE (\E n \in Namespace : AnnotateNamespace(n)) \/ Tick
  <2>1. UNCHANGED <<objs, version, threads>>
    BY <1>5 DEF AnnotateNamespace, Tick, local, cluster
  <2> QED
    BY <1>0, <2>1 DEF ThreadsOK
<1> QED
  BY <1>1, <1>3, <1>4, <1>5, ScannerThreads, ThreadThreads DEF Next

-----------------------------------------------------------------------------
(* The requests of dead processes.                                         *)

\* A process that dies leaves the requests of its threads to the lock.
LEMMA ExitLate ==
  ASSUME Inv, NEW s \in Scanner, NEW end, Exit(s, end), UNCHANGED <<objs, version>>
  PROVE  LateOK'
<1> DEFINE request(t) == [w |-> t[2], obj |-> threads[t].base, ver |-> threads[t].ver]
<1>1. \A r \in late' : r \in late \/ \E t \in Thread : threads[t].pc = "sent" /\ r = request(t)
  BY DEF Exit
<1>2. ASSUME NEW t \in Thread, threads[t].pc = "sent"
      PROVE  LateInv(request(t), objs[t[2]], version[t[2]])
  <2>1. ThreadInv(t[2], threads[t], objs[t[2]], version[t[2]]) /\ t[2] \in Workload
    BY DEF Inv, ThreadsOK, Thread
  <2>2. Copy(t[2], threads[t].base) /\ threads[t].ver \in Version
    BY <1>2, <2>1 DEF ThreadInv, ThreadType
  <2> QED
    BY <1>2, <2>1, <2>2 DEF ThreadInv, Locked, LateInv
<1>3. \A t \in Thread : request(t).w = t[2]
  OBVIOUS
<1> HIDE DEF request
<1>4. \A r \in late' : LateInv(r, objs[r.w], version[r.w])
  BY <1>1, <1>2, <1>3 DEF Inv, LateOK
<1> QED
  BY <1>4 DEF LateOK

\* A request that arrives late is that of the object or refused.
LEMMA LateStep ==
  ASSUME Inv, [Next]_vars
  PROVE  LateOK'
<1>0. LateOK
  BY DEF Inv
<1>1. ASSUME UNCHANGED <<objs, version>>, late' \subseteq late PROVE LateOK'
  BY <1>0, <1>1 DEF LateOK
<1>2. ASSUME NEW w \in Workload, NewVersion(w), late' \subseteq late,
             \A x \in Workload \ {w} : objs'[x] = objs[x]
      PROVE  LateOK'
  <2>1. \A r \in late : LateInv(r, objs'[r.w], version'[r.w])
    BY <1>2, SomethingWritten
  <2> QED
    BY <1>2, <2>1 DEF LateOK
<1>3. CASE UNCHANGED vars
  BY <1>1, <1>3 DEF vars
<1>4. ASSUME NEW s \in Scanner, ScannerStep(s) \/ Crash(s) PROVE LateOK'
  <2>1. UNCHANGED <<objs, version>>
    BY <1>4 DEF ScannerStep, Crash, StartCycle, FilterExcluded, StartScan, EndCycle,
                GetWorkloads, GetWorkloadsFails, GetNamespaceScope, Restart, cluster
  <2>2. CASE \E end : Exit(s, end)
    BY <2>1, <2>2, ExitLate
  <2>3. CASE ~\E end : Exit(s, end)
    <3>1. UNCHANGED late
      BY <1>4, <2>3 DEF ScannerStep, Crash, StartCycle, FilterExcluded, StartScan,
        EndCycle, GetWorkloads, GetWorkloadsFails, GetNamespaceScope, Restart
    <3> QED
      BY <1>1, <2>1, <3>1
  <2> QED
    BY <2>2, <2>3
<1>5. ASSUME NEW t \in Thread, ThreadStep(t) PROVE LateOK'
  <2>1. UNCHANGED late
    BY <1>5 DEF ThreadStep, scanWorkload, scaleWorkload, UpdateAccepted, UpdateReplyLost,
      UpdateConflict, UpdateFails, RegetWorkload, GetChild, scaleWorkloads
  <2>2. CASE UpdateAccepted(t) \/ UpdateReplyLost(t)
    <3>1. t[2] \in Workload /\ Write(t[2], threads[t].base)
      BY <2>2 DEF UpdateAccepted, UpdateReplyLost, Thread
    <3>2. NewVersion(t[2]) /\ \A x \in Workload \ {t[2]} : objs'[x] = objs[x]
      BY <3>1 DEF Write, Inv, Cluster!TypeOK
    <3> QED
      BY <1>2, <2>1, <3>1, <3>2
  <2>3. CASE ~(UpdateAccepted(t) \/ UpdateReplyLost(t))
    <3>1. UNCHANGED <<objs, version>>
      BY <1>5, <2>3 DEF ThreadStep, scanWorkload, scaleWorkload, UpdateConflict,
        UpdateFails, RegetWorkload, GetChild, scaleWorkloads, cluster
    <3> QED
      BY <1>1, <2>1, <3>1
  <2> QED
    BY <2>2, <2>3
<1>6. ASSUME NEW r \in late, LateUpdate(r) PROVE LateOK'
  <2>1. late' \subseteq late
    BY <1>6 DEF LateUpdate
  <2>2. CASE Accepts(r.w, r.ver) /\ Write(r.w, r.obj)
    <3>1. /\ r.w \in Workload /\ NewVersion(r.w)
          /\ \A x \in Workload \ {r.w} : objs'[x] = objs[x]
      BY <2>2, LateIsScaled DEF Write, Inv, Cluster!TypeOK
    <3> QED
      BY <1>2, <2>1, <3>1
  <2>3. CASE UNCHANGED cluster
    BY <1>1, <2>1, <2>3 DEF cluster
  <2> QED
    BY <1>6, <2>2, <2>3 DEF LateUpdate
<1>7. ASSUME NEW w \in Workload, External(w) PROVE LateOK'
  <2>1. UNCHANGED late /\ NewVersion(w)
    BY <1>7 DEF External
  <2>2. \A x \in Workload \ {w} : objs'[x] = objs[x]
    BY <1>7 DEF External, Cluster!SetValue, Cluster!Annotate, Cluster!SetActive,
                Cluster!Delete, Cluster!Create, Inv, Cluster!TypeOK
  <2> QED
    BY <1>2, <2>1, <2>2
<1>8. CASE (\E n \in Namespace : AnnotateNamespace(n)) \/ Tick
  BY <1>1, <1>8 DEF AnnotateNamespace, Tick, cluster
<1> QED
  BY <1>3, <1>4, <1>5, <1>6, <1>7, <1>8 DEF Next

-----------------------------------------------------------------------------
(* The theorems.                                                           *)

\* The invariant holds throughout.
LEMMA InvHolds == Spec => []Inv
<1>1. Init => Inv
  <2> SUFFICES ASSUME Init PROVE Inv
    OBVIOUS
  <2>1. Cluster!TypeOK
    BY ClusterAssumption
    DEF Init, Cluster!Init, Cluster!TypeOK, Cluster!ChosenIn, Cluster!WorkloadAssumption,
        Cluster!Object, Cluster!Current
  <2>2. RestOK
    BY DownscalerAssumption DEF Init, RestOK, Phase, NoScopes, NoMetrics
  <2>3. ThreadsOK
    <3>1. DOMAIN threads = Thread /\ \A t \in Thread : threads[t] = Idle /\ t[2] \in Workload
      BY DEF Init, Thread
    <3> QED
      BY <3>1, EndedRecord DEF ThreadsOK
  <2>4. LateOK
    BY DEF Init, LateOK
  <2> QED
    BY <2>1, <2>2, <2>3, <2>4 DEF Inv
<1>2. Inv /\ [Next]_vars => Inv'
  BY ClusterTypeStep, RestStep, ThreadsStep, LateStep DEF Inv
<1> QED
  BY <1>1, <1>2, PTL DEF Spec

\* The scanners, their goroutines and the cluster keep their types.
THEOREM TypeCorrect == Spec => []TypeOK
BY InvHolds, InvImplies, PTL

\* The optimistic lock: a copy with the object's version is the object, and a
\* request with the object's version, even that of a dead process, is that
\* object scaled.
THEOREM LockHolds == Spec => []LockInv
BY InvHolds, InvImplies, PTL

\* Whatever stale copies, retries, lost replies and crashes there are, every
\* write of a scan is one ScaleDown or ScaleUp of the object as it is.
THEOREM ScansAreAtomic == Spec => WritesAreAtomic
<1>1. Init => Cluster!Init
  BY DEF Init
<1>2. Inv /\ [Next]_vars => [Cluster!Next]_Cluster!vars
  BY ClusterStep
<1> QED
  BY <1>1, <1>2, InvHolds, PTL DEF Spec, WritesAreAtomic, Cluster!Spec

\* So the objects behave as in WorkloadScaling, as its theorems have it.
LEMMA FactsApply == Spec => Facts!Spec
<1>1. Cluster!Init => Facts!Init
  BY SameSpecification
<1>2. [Cluster!Next]_Cluster!vars => [Facts!Next]_Facts!vars
  BY SameSpecification
<1>3. Cluster!Spec => Facts!Spec
  BY <1>1, <1>2, PTL DEF Cluster!Spec, Facts!Spec
<1> QED
  BY <1>3, ScansAreAtomic, PTL DEF WritesAreAtomic

\* No interleaving of scans, edits, retries and crashes loses the value that
\* somebody else gave to a workload, unless the downscaled value was superseded.
THEOREM OriginalKeptByScans == Spec => []Cluster!OriginalChosen
<1>1. Facts!Spec => []Facts!OriginalChosen
  BY FactsAssumption, Facts!OriginalKept
<1>2. Facts!OriginalChosen => Cluster!OriginalChosen
  BY DEF Facts!OriginalChosen, Cluster!OriginalChosen, Facts!Superseded, Cluster!Superseded,
         Facts!Applicable, Cluster!Applicable, Facts!ReplicaKinds, Cluster!ReplicaKinds
<1> QED
  BY <1>1, <1>2, FactsApply, PTL

\* No interleaving of scans, retries and edits takes the minimum of an hpa out of
\* its bounds, if everybody else asks for minima that the API server accepts.
THEOREM HpaKeptByScans ==
  ASSUME UserValues["hpa"] \subseteq Nat \ {0},
         \A w \in Workload : InitialObjects[w].kind = "hpa" =>
           InitialObjects[w].val >= 1 /\ InitialObjects[w].val <= InitialObjects[w].max
  PROVE  Spec => []Cluster!HpaWithinBounds
<1>1. \A w \in Workload : Facts!HpaWithin(InitialObjects[w])
  BY DEF Facts!HpaWithin
<1>2. Facts!Spec => []Facts!HpaWithinBounds
  BY <1>1, FactsAssumption, Facts!HpaStaysWithinBounds
<1>3. Facts!HpaWithinBounds => Cluster!HpaWithinBounds
  BY DEF Facts!HpaWithinBounds, Cluster!HpaWithinBounds
<1> QED
  BY <1>2, <1>3, FactsApply, PTL

-----------------------------------------------------------------------------
(* How the threads of the workloads themselves move.                       *)

\* The thread of a workload itself, not one for a child: it moves with the cycle
\* of its scanner, is never held for a parent and counts for the current cycle.
CycleOK(p, r) ==
  /\ p \in {"sleep", "exited", "finished"} => r.pc = "idle"
  /\ p = "list" => r.pc \in {"idle", "listed"}
  /\ p = "scopes" => r.pc \in {"idle", "listed", "done"}
  /\ r.pc # "held" /\ r.own = TRUE

CycleInv == \A s \in Scanner, w \in Workload : CycleOK(phase[s], threads[<<s, w, 0>>])

\* Such a thread is the scanner's and the workload's.
LEMMA OwnThreads ==
  /\ \A s \in Scanner, w \in Workload :
       /\ <<s, w, 0>> \in Thread /\ <<s, w, 0>>[1] = s /\ <<s, w, 0>>[2] = w
       /\ <<s, w, 0>>[3] = 0
  /\ \A t \in Thread : /\ t[1] \in Scanner /\ t[2] \in Workload
                       /\ t[3] = 0 => t = <<t[1], t[2], 0>>
<1>1. 0 \in 0..MaxChildThreads
  BY DownscalerAssumption
<1> QED
  BY <1>1 DEF Thread

\* A step of a thread leaves the threads of other workloads alone, and either
\* counts the workload, which then is done or goes on to its children, or does
\* neither.
LEMMA ThreadShape ==
  ASSUME Inv, CycleInv, NEW t \in Thread, ThreadStep(t)
  PROVE  /\ UNCHANGED phase
         /\ \A u \in Thread : u # t /\ u[3] = 0 => threads'[u] = threads[u]
         /\ threads[t].pc \in {"listed", "scale", "sent", "conflict", "children"}
         /\ threads[t].pc = "listed" => phase[t[1]] = "scan"
         /\ t[3] = 0 => threads'[t].own = TRUE /\ threads'[t].pc # "held"
         /\ \/ /\ threads[t].pc # "children"
               /\ \E c \in Counter \ {"parsingNamespace"} : Count(t, c)
               /\ t[3] = 0 => threads'[t].pc \in {"done", "children"}
            \/ /\ UNCHANGED metrics
               /\ t[3] = 0 => (threads'[t].pc \in {"done", "children"}
                                 <=> threads[t].pc = "children")
<1> DEFINE r == threads[t]
           Others == \A u \in Thread : u # t /\ u[3] = 0 => threads'[u] = threads[u]
           Clean == t[3] = 0 => threads'[t].own = TRUE /\ threads'[t].pc # "held"
           Counts == /\ r.pc # "children"
                     /\ \E c \in Counter \ {"parsingNamespace"} : Count(t, c)
                     /\ t[3] = 0 => threads'[t].pc \in {"done", "children"}
           Quiet == /\ UNCHANGED metrics
                    /\ t[3] = 0 => (threads'[t].pc \in {"done", "children"}
                                      <=> r.pc = "children")
           Shape == Others /\ Clean /\ (Counts \/ Quiet)
<1>0. /\ DOMAIN threads = Thread /\ ThreadType(t[2], r)
      /\ t[3] = 0 => CycleOK(phase[t[1]], r)
  <2>1. t[1] \in Scanner /\ t[2] \in Workload /\ (t[3] = 0 => t = <<t[1], t[2], 0>>)
    BY OwnThreads
  <2> QED
    BY <2>1 DEF Inv, ThreadsOK, ThreadInv, CycleInv
<1>1. /\ UNCHANGED phase
      /\ r.pc \in {"listed", "scale", "sent", "conflict", "children"}
      /\ r.pc = "listed" => phase[t[1]] = "scan"
  BY DEF ThreadStep, scanWorkload, scaleWorkload, UpdateAccepted, UpdateConflict,
         UpdateFails, UpdateReplyLost, RegetWorkload, GetChild, scaleWorkloads
<1>2. \A new : threads' = [threads EXCEPT ![t] = new] => threads'[t] = new /\ Others
  BY <1>0
<1>3. /\ t[3] = 0 => Ended(t, "done").pc = "done" /\ Ended(t, "done").own = TRUE
      /\ t[3] = 0 => Ended(t, "uncounted").pc = "uncounted" /\ Ended(t, "uncounted").own = TRUE
  BY DEF Ended, Idle
<1>4. ASSUME NEW c \in Counter \ {"parsingNamespace"}, End(t, c), r.pc # "children"
      PROVE  Shape
  BY <1>2, <1>3, <1>4 DEF End
<1>5. ASSUME EndUncounted(t), r.pc # "children"
      PROVE  Shape
  BY <1>2, <1>3, <1>5 DEF EndUncounted
<1>6. ASSUME NEW c \in Counter \ {"parsingNamespace"}, NEW o, Succeed(t, o, c),
             r.pc # "children"
      PROVE  Shape
  <2>1. CASE t[3] = 0 /\ r.scaleChildren
    <3> DEFINE new == [r EXCEPT !.pc = "children", !.base = o, !.ver = Unset,
                                !.todo = o.active]
    <3>1. threads' = [threads EXCEPT ![t] = new]
      BY <1>6, <2>1 DEF Succeed
    <3>2. new.pc = "children" /\ new.own = TRUE
      BY <1>0, <2>1 DEF ThreadType, CycleOK
    <3> HIDE DEF new
    <3> QED
      BY <1>2, <1>6, <3>1, <3>2 DEF Succeed
  <2>2. CASE ~(t[3] = 0 /\ r.scaleChildren)
    <3>1. threads' = [threads EXCEPT ![t] = Ended(t, "done")]
      BY <1>6, <2>2 DEF Succeed
    <3> QED
      BY <1>2, <1>3, <1>6, <3>1 DEF Succeed
  <2> QED
    BY <2>1, <2>2
<1>7. ASSUME NEW new, threads' = [threads EXCEPT ![t] = new], UNCHANGED metrics,
             new.pc \in {"scale", "sent", "conflict"}, new.own = r.own, r.pc # "children"
      PROVE  Shape
  <2>1. threads'[t] = new /\ Others
    BY <1>2, <1>7
  <2>2. t[3] = 0 => new.own = TRUE
    BY <1>0, <1>7 DEF CycleOK
  <2> QED
    BY <1>7, <2>1, <2>2
<1>8. {"parsingWorkload", "excluded", "invalid", "generic", "conflict", ScaledCounter(t)}
        \subseteq Counter \ {"parsingNamespace"}
  BY DEF Counter, ScaledCounter
<1> SUFFICES Shape
  BY <1>1
<1> HIDE DEF Shape, Others, Clean, Counts, Quiet
<1>9. CASE scanWorkload(t)
  <2> DEFINE new == [r EXCEPT !.pc = "scale",
                       !.scaling = ScanDecision(ScopesOf(t), r.base.created, now),
                       !.replicas = GetDownscaleReplicas(ScopesOf(t)),
                       !.scaleChildren = GetScaleChildren(ScopesOf(t))]
  <2>1. r.pc # "children"
    BY <1>9 DEF scanWorkload
  <2>2. \/ End(t, "parsingWorkload") \/ EndUncounted(t) \/ End(t, "excluded")
        \/ threads' = [threads EXCEPT ![t] = new] /\ UNCHANGED metrics
    BY <1>9 DEF scanWorkload
  <2>3. new.pc = "scale" /\ new.own = r.own
    BY <1>0 DEF ThreadType
  <2> HIDE DEF new
  <2> QED
    BY <1>4, <1>5, <1>7, <1>8, <2>1, <2>2, <2>3
<1>10. CASE scaleWorkload(t)
  <2> DEFINE new == [r EXCEPT !.pc = "sent", !.base = Scaled(t).obj]
  <2>1. r.pc # "children"
    BY <1>10 DEF scaleWorkload
  <2>2. \/ Succeed(t, r.base, "excluded") \/ End(t, "invalid") \/ End(t, "generic")
        \/ Succeed(t, Scaled(t).obj, ScaledCounter(t))
        \/ /\ threads' = [threads EXCEPT ![t].pc = "sent", ![t].base = Scaled(t).obj]
           /\ UNCHANGED metrics
    BY <1>10 DEF scaleWorkload
  <2>3. new.pc = "sent" /\ new.own = r.own
    BY <1>0 DEF ThreadType
  <2>4. [threads EXCEPT ![t].pc = "sent", ![t].base = Scaled(t).obj]
          = [threads EXCEPT ![t] = new]
    BY <1>0
  <2> HIDE DEF new
  <2> QED
    BY <1>4, <1>6, <1>7, <1>8, <2>1, <2>2, <2>3, <2>4
<1>11. CASE UpdateAccepted(t) \/ UpdateFails(t) \/ UpdateReplyLost(t)
  <2>1. r.pc # "children"
    BY <1>11 DEF UpdateAccepted, UpdateFails, UpdateReplyLost
  <2>2. Succeed(t, r.base, ScaledCounter(t)) \/ End(t, "generic")
    BY <1>11 DEF UpdateAccepted, UpdateFails, UpdateReplyLost
  <2> QED
    BY <1>4, <1>6, <1>8, <2>1, <2>2
<1>12. CASE UpdateConflict(t)
  <2> DEFINE new == [r EXCEPT !.pc = "conflict"]
  <2>1. r.pc # "children" /\ threads' = [threads EXCEPT ![t] = new] /\ UNCHANGED metrics
    BY <1>0, <1>12 DEF UpdateConflict
  <2>2. new.pc = "conflict" /\ new.own = r.own
    BY <1>0 DEF ThreadType
  <2> HIDE DEF new
  <2> QED
    BY <1>7, <2>1, <2>2
<1>13. CASE RegetWorkload(t)
  <2> DEFINE new == [r EXCEPT !.pc = "scale", !.base = objs[t[2]], !.ver = version[t[2]],
                              !.retry = @ + 1]
  <2>1. r.pc # "children"
    BY <1>13 DEF RegetWorkload
  <2>2. \/ End(t, "conflict") \/ EndUncounted(t)
        \/ /\ threads' = [threads EXCEPT ![t].pc = "scale", ![t].base = objs[t[2]],
                                         ![t].ver = version[t[2]], ![t].retry = @ + 1]
           /\ UNCHANGED metrics
    BY <1>13 DEF RegetWorkload
  <2>3. new.pc = "scale" /\ new.own = r.own
    BY <1>0 DEF ThreadType
  <2>4. [threads EXCEPT ![t].pc = "scale", ![t].base = objs[t[2]],
                        ![t].ver = version[t[2]], ![t].retry = @ + 1]
          = [threads EXCEPT ![t] = new]
    BY <1>0
  <2> HIDE DEF new
  <2> QED
    BY <1>4, <1>5, <1>7, <1>8, <2>1, <2>2, <2>3, <2>4
<1>14. ASSUME NEW c \in Workload, GetChild(t, c) PROVE Shape
  <2>1. r.pc = "children" /\ UNCHANGED metrics
    BY <1>14 DEF GetChild
  <2>2. ASSUME NEW new, new.pc = "children", new.own = r.own,
               threads'[t] = new, Others
        PROVE  Shape
    <3>1. t[3] = 0 => new.own = TRUE
      BY <1>0, <2>2 DEF CycleOK
    <3> QED
      BY <2>1, <2>2, <3>1 DEF Shape, Clean, Quiet
  <2>3. CASE threads' = [threads EXCEPT ![t].todo = @ \ {c}, ![t].failed = TRUE]
    <3> DEFINE new == [r EXCEPT !.todo = @ \ {c}, !.failed = TRUE]
    <3>1. threads' = [threads EXCEPT ![t] = new]
      BY <1>0, <2>3
    <3>2. new.pc = "children" /\ new.own = r.own
      BY <1>0, <2>1 DEF ThreadType
    <3> HIDE DEF new
    <3> QED
      BY <1>2, <2>2, <3>1, <3>2
  <2>4. ASSUME NEW k \in 1..MaxChildThreads, NEW held,
               threads[<<t[1], c, k>>] = Idle,
               threads' = [threads EXCEPT ![t].todo = @ \ {c}, ![<<t[1], c, k>>] = held]
        PROVE  Shape
    <3> DEFINE new == [r EXCEPT !.todo = @ \ {c}]
               h == <<t[1], c, k>>
    <3>1. h \in Thread /\ h[3] # 0 /\ h # t
      BY <2>1, <2>4, DownscalerAssumption DEF Thread, Idle
    <3>2. threads' = [threads EXCEPT ![t] = new, ![h] = held]
      BY <1>0, <2>4, <3>1
    <3>3. new.pc = "children" /\ new.own = r.own
      BY <1>0, <2>1 DEF ThreadType
    <3> HIDE DEF new, h
    <3>4. threads'[t] = new /\ \A u \in Thread \ {t, h} : threads'[u] = threads[u]
      BY <1>0, <3>1, <3>2
    <3>5. Others
      BY <3>1, <3>4 DEF Others
    <3> QED
      BY <2>2, <3>3, <3>4, <3>5
  <2> QED
    BY <1>14, <2>3, <2>4 DEF GetChild
<1>15. CASE scaleWorkloads(t)
  <2>1. r.pc = "children" /\ UNCHANGED metrics /\ threads'[t] = Ended(t, "done")
    BY <1>15 DEF scaleWorkloads
  <2>2. \A u \in Thread : u # t /\ threads[u].pc # "held" => threads'[u] = threads[u]
    BY <1>15 DEF scaleWorkloads, HeldBy
  <2>3. \A u \in Thread : u[3] = 0 => threads[u].pc # "held"
    BY OwnThreads DEF CycleInv, CycleOK
  <2> QED
    BY <1>3, <2>1, <2>2, <2>3 DEF Shape, Others, Clean, Quiet
<1> QED
  BY <1>9, <1>10, <1>11, <1>12, <1>13, <1>14, <1>15 DEF ThreadStep

\* The steps of a scanner change its own cycle only.
LEMMA ScannerShape ==
  ASSUME Inv, NEW x \in Scanner, ScannerStep(x) \/ Crash(x), NEW s \in Scanner, s # x
  PROVE  /\ phase'[s] = phase[s] /\ metrics'[s] = metrics[s]
         /\ \A u \in Thread : u[1] = s => threads'[u] = threads[u]
<1> DEFINE Same == /\ phase'[s] = phase[s] /\ metrics'[s] = metrics[s]
                   /\ \A u \in Thread : u[1] = s => threads'[u] = threads[u]
<1>1. /\ phase \in [Scanner -> Phase] /\ metrics \in [Scanner -> [Namespace -> [Counter -> Nat]]]
      /\ DOMAIN threads = Thread
  BY DEF Inv, RestOK, ThreadsOK
<1>2. ASSUME NEW end, Exit(x, end) PROVE Same
  BY <1>1, <1>2 DEF Exit
<1>3. CASE GetWorkloadsFails(x) \/ Crash(x)
  BY <1>2, <1>3 DEF GetWorkloadsFails, Crash
<1>4. CASE EndCycle(x)
  <2>1. CASE Exit(x, "finished")
    BY <1>2, <2>1
  <2>2. CASE ~Exit(x, "finished")
    BY <1>1, <1>4, <2>2 DEF EndCycle
  <2> QED
    BY <2>1, <2>2
<1>5. CASE StartCycle(x) \/ StartScan(x) \/ Restart(x)
  BY <1>1, <1>5 DEF StartCycle, StartScan, Restart
<1>6. CASE FilterExcluded(x)
  BY <1>1, <1>6 DEF FilterExcluded
<1>7. ASSUME NEW r \in Resource, GetWorkloads(x, r) PROVE Same
  BY <1>1, <1>7 DEF GetWorkloads
<1>8. ASSUME NEW n \in Namespace, GetNamespaceScope(x, n) PROVE Same
  BY <1>1, <1>8 DEF GetNamespaceScope
<1> QED
  BY <1>3, <1>4, <1>5, <1>6, <1>7, <1>8 DEF ScannerStep

\* Nobody else touches scanners, threads and counters.
LEMMA EverybodyElse ==
  ASSUME Inv, \/ \E r \in late : LateUpdate(r)
              \/ \E w \in Workload : External(w)
              \/ \E n \in Namespace : AnnotateNamespace(n)
              \/ Tick \/ UNCHANGED vars
  PROVE  UNCHANGED <<phase, threads, metrics>>
BY DEF LateUpdate, External, AnnotateNamespace, Tick, local, vars

\* The threads of the workloads keep in step with the cycle.
LEMMA CycleStep ==
  ASSUME Inv, CycleInv, [Next]_vars
  PROVE  CycleInv'
<1> SUFFICES ASSUME NEW s \in Scanner, NEW w \in Workload
             PROVE  CycleOK(phase'[s], threads'[<<s, w, 0>>])
  BY DEF CycleInv
<1> DEFINE t == <<s, w, 0>>
<1>0. /\ phase \in [Scanner -> Phase] /\ phase[s] \in Phase
      /\ DOMAIN threads = Thread /\ t \in Thread /\ t[1] = s /\ t[2] = w /\ t[3] = 0
      /\ CycleOK(phase[s], threads[t])
  BY OwnThreads DEF Inv, RestOK, ThreadsOK, CycleInv
<1> HIDE DEF t
<1>1. ASSUME NEW u \in Thread, ThreadStep(u)
      PROVE  CycleOK(phase'[s], threads'[t])
  <2>1. CASE u # t
    BY <1>0, <1>1, <2>1, ThreadShape DEF CycleOK
  <2>2. CASE u = t
    <3>1. /\ UNCHANGED phase /\ threads'[t].own = TRUE /\ threads'[t].pc # "held"
          /\ threads[t].pc \in {"listed", "scale", "sent", "conflict", "children"}
          /\ threads[t].pc = "listed" => phase[s] = "scan"
      BY <1>0, <1>1, <2>2, ThreadShape
    <3>2. phase[s] = "scan"
      BY <1>0, <3>1 DEF CycleOK, Phase
    <3> QED
      BY <3>1, <3>2 DEF CycleOK
  <2> QED
    BY <2>1, <2>2
<1>2. ASSUME NEW x \in Scanner, ScannerStep(x) \/ Crash(x), x # s
      PROVE  CycleOK(phase'[s], threads'[t])
  <2>1. phase'[s] = phase[s] /\ threads'[t] = threads[t]
    BY <1>0, <1>2, ScannerShape
  <2> QED
    BY <1>0, <2>1
<1>3. Idle.pc = "idle" /\ Idle.own = TRUE
  BY DEF Idle
<1>4. ASSUME ScannerStep(s) \/ Crash(s)
      PROVE  CycleOK(phase'[s], threads'[t])
  <2>1. ASSUME NEW end, Exit(s, end) PROVE CycleOK(phase'[s], threads'[t])
    BY <1>0, <1>3, <2>1 DEF Exit, CycleOK
  <2>2. CASE GetWorkloadsFails(s) \/ Crash(s)
    BY <2>1, <2>2 DEF GetWorkloadsFails, Crash
  <2>3. CASE EndCycle(s)
    <3>1. CASE Exit(s, "finished")
      BY <2>1, <3>1
    <3>2. CASE ~Exit(s, "finished")
      <4>1. threads'[t] = Idle
        BY <1>0, <2>3, <3>2 DEF EndCycle
      <4> QED
        BY <1>3, <4>1 DEF CycleOK
    <3> QED
      BY <3>1, <3>2
  <2>4. CASE StartCycle(s) \/ Restart(s)
    <3>1. /\ phase'[s] = "list" /\ threads'[t] = threads[t]
          /\ phase[s] \in {"sleep", "exited"}
      BY <1>0, <2>4 DEF StartCycle, Restart
    <3> QED
      BY <1>0, <3>1 DEF CycleOK
  <2>5. CASE StartScan(s)
    <3>1. phase'[s] = "scan" /\ threads'[t] = threads[t]
      BY <1>0, <2>5 DEF StartScan
    <3> QED
      BY <1>0, <3>1 DEF CycleOK
  <2>6. CASE FilterExcluded(s)
    <3>1. /\ phase[s] = "list" /\ phase'[s] = "scopes"
          /\ threads'[t] = threads[t] \/ threads'[t] = [Idle EXCEPT !.pc = "done"]
      BY <1>0, <2>6 DEF FilterExcluded
    <3>2. [Idle EXCEPT !.pc = "done"].pc = "done" /\ [Idle EXCEPT !.pc = "done"].own = TRUE
      BY DEF Idle
    <3> QED
      BY <1>0, <3>1, <3>2 DEF CycleOK
  <2>7. ASSUME NEW r \in Resource, GetWorkloads(s, r) PROVE CycleOK(phase'[s], threads'[t])
    <3> DEFINE new == [Idle EXCEPT !.pc = "listed", !.base = objs[w], !.ver = version[w]]
    <3>1. /\ phase[s] = "list" /\ phase'[s] = "list"
          /\ threads'[t] = threads[t] \/ threads'[t] = new
      BY <1>0, <2>7 DEF GetWorkloads
    <3>2. new.pc = "listed" /\ new.own = TRUE
      BY DEF Idle
    <3> HIDE DEF new
    <3> QED
      BY <1>0, <3>1, <3>2 DEF CycleOK
  <2>8. ASSUME NEW n \in Namespace, GetNamespaceScope(s, n)
        PROVE  CycleOK(phase'[s], threads'[t])
    BY <1>0, <2>8 DEF GetNamespaceScope
  <2> QED
    BY <1>4, <2>2, <2>3, <2>4, <2>5, <2>6, <2>7, <2>8 DEF ScannerStep
<1>5. CASE UNCHANGED <<phase, threads>>
  BY <1>0, <1>5 DEF t
<1> QED
  BY <1>1, <1>2, <1>4, <1>5, EverybodyElse DEF Next, t

\* They do so from the start.
LEMMA CycleHolds == Spec => []CycleInv
<1>1. Init => CycleInv
  <2> SUFFICES ASSUME Init, NEW s \in Scanner, NEW w \in Workload
               PROVE  CycleOK(phase[s], threads[<<s, w, 0>>])
    BY DEF CycleInv
  <2>1. phase[s] = "list" /\ threads[<<s, w, 0>>] = Idle
    BY OwnThreads DEF Init
  <2> QED
    BY <2>1 DEF CycleOK, Idle
<1> QED
  BY <1>1, CycleStep, InvHolds, PTL DEF Spec

-----------------------------------------------------------------------------
(* Exclusions.                                                             *)

\* Scaling changes neither the annotations that configure the downscaler nor the
\* active jobs.
LEMMA ScaledKeeps ==
  ASSUME NEW w \in Workload, NEW old, Copy(w, old), NEW new, Cluster!ScaledFrom(new, old)
  PROVE  new.scope = old.scope /\ new.active = old.active
<1> DEFINE k == old.kind
<1>1. k \in Facts!Kinds /\ old \in Facts!Object(k)
  BY ClusterAssumption, SameObjects DEF Copy, Cluster!WorkloadAssumption
<1>2. ASSUME NEW d \in Targets, Cluster!ScaleDown(old, d) = Cluster!Update(new)
      PROVE  new.scope = old.scope /\ new.active = old.active
  <2>1. Facts!ScaleDown(old, d).status = "update" /\ Facts!ScaleDown(old, d).obj = new
    BY <1>2, SameScaling DEF Cluster!Update
  <2>2. Facts!ScaleDown(old, d).obj =
          [old EXCEPT !.val = Facts!Stored(old, Facts!DownValue(old, d)), !.orig = old.val]
    BY <1>1, <2>1, FactsAssumption, Facts!ScaleDownUpdate
  <2> QED
    BY <1>1, <2>1, <2>2 DEF Facts!Object
<1>3. ASSUME Cluster!ScaleUp(old) = Cluster!Update(new)
      PROVE  new.scope = old.scope /\ new.active = old.active
  <2>1. Facts!ScaleUp(old).status = "update" /\ Facts!ScaleUp(old).obj = new
    BY <1>3, SameScaling DEF Cluster!Update
  <2>2. Facts!ScaleUp(old).obj =
          [old EXCEPT !.val = IF k = "nodeselector" THEN FALSE
                              ELSE Facts!Stored(old, old.orig), !.orig = Unset]
    BY <1>1, <2>1, FactsAssumption, Facts!ScaleUpUpdate
  <2> QED
    BY <1>1, <2>1, <2>2 DEF Facts!Object
<1> QED
  BY <1>2, <1>3 DEF Cluster!ScaledFrom

\* An exclude value is a list that is evaluated without error, an exclude-until
\* value is a time.
Evaluable(a) ==
  /\ a.Exclude # Unset => /\ DOMAIN a.Exclude \subseteq Nat
                          /\ \A i \in DOMAIN a.Exclude : a.Exclude[i] # Incomplete
  /\ a.ExcludeUntil \in Int \cup {Unset}

\* Scopes whose exclusions can be evaluated lead to a scaling down only if no
\* exclude-until time is still to come.
LEMMA DownIsNotExcluded ==
  ASSUME NEW ss, DOMAIN ss \subseteq Nat, \A i \in DOMAIN ss : Evaluable(ss[i]),
         NEW created, NEW time \in Int, ScanDecision(ss, created, time) = "down",
         NEW i \in DOMAIN ss
  PROVE  ss[i].ExcludeUntil = Unset \/ ss[i].ExcludeUntil <= time
<1> DEFINE exclude == FirstSet(ss, "Exclude")
<1>1. ~GetExcluded(ss, time)
  BY DEF ScanDecision
<1>2. exclude # Unset => /\ DOMAIN exclude \subseteq Nat
                         /\ \A j \in DOMAIN exclude : exclude[j] # Incomplete
  <2> SUFFICES ASSUME exclude # Unset
               PROVE  /\ DOMAIN exclude \subseteq Nat
                      /\ \A j \in DOMAIN exclude : exclude[j] # Incomplete
    OBVIOUS
  <2>1. PICK k \in DOMAIN ss : exclude = ss[k].Exclude
    BY FirstSetIsFirst
  <2> HIDE DEF exclude
  <2> QED
    BY <2>1 DEF Evaluable
<1> HIDE DEF exclude
<1>3. inTimeSpans(exclude, time) # "error"
  <2> DEFINE Decides(j) == exclude[j] = Incomplete \/ time \in exclude[j]
             S == {j \in DOMAIN exclude : Decides(j)}
             first == CHOOSE k \in DOMAIN exclude :
                        Decides(k) /\ \A j \in DOMAIN exclude : Decides(j) => k <= j
  <2>1. CASE exclude = Unset
    BY <2>1 DEF inTimeSpans
  <2>2. CASE exclude # Unset /\ S = {}
    BY <2>2 DEF inTimeSpans
  <2>3. CASE exclude # Unset /\ S # {}
    <3>1. PICK k \in S : \A j \in S : k <= j
      BY <1>2, <2>3, LeastIndex
    <3>2. first \in DOMAIN exclude
      BY <3>1
    <3> QED
      BY <1>2, <2>3, <3>2 DEF inTimeSpans, First
  <2> QED
    BY <2>1, <2>2, <2>3
<1>4. inTimeSpans(exclude, time) = "out"
  BY <1>1, <1>3, InTimeSpansType DEF GetExcluded, exclude
<1>5. ~(ss[i].ExcludeUntil # Unset /\ ss[i].ExcludeUntil > time)
  BY <1>1, <1>4 DEF GetExcluded, exclude
<1>6. ss[i].ExcludeUntil \in Int \cup {Unset}
  BY DEF Evaluable
<1> QED
  BY <1>5, <1>6

\* The annotations and the settings of the process can be evaluated.
ExclusionsEvaluable ==
  \A a \in Annotations \cup NamespaceAnnotations \cup {scopeCli, scopeEnv, scopeDefault} :
    a # Malformed => Evaluable(a)

\* A first attempt to scale a workload down, be it planned or on its way, was
\* decided from annotations that exclude the workload neither then nor later.
ExclusionOK(r, time) ==
  /\ r.pc \in {"scale", "sent"} /\ r.retry = 0 /\ r.scaling = "down"
  /\ GetScopeFromAnnotations(r.base.scope)
  => r.base.scope.ExcludeUntil = Unset \/ r.base.scope.ExcludeUntil <= time

ExclusionInv ==
  \A s \in Scanner, w \in Workload : ExclusionOK(threads[<<s, w, 0>>], now)

\* Only a decision, an attempt and a retry lead to a thread that is about to
\* scale or has sent its update.
LEMMA AttemptsComeFrom ==
  ASSUME Inv, CycleInv, NEW t \in Thread, t[3] = 0, ThreadStep(t),
         threads'[t].pc \in {"scale", "sent"}
  PROVE  scanWorkload(t) \/ scaleWorkload(t) \/ RegetWorkload(t)
<1>0. DOMAIN threads = Thread /\ ThreadType(t[2], threads[t])
  BY DEF Inv, ThreadsOK, ThreadInv
<1>1. Ended(t, "done").pc = "done"
  BY DEF Ended, Idle
<1>2. CASE UpdateAccepted(t)
  <2>1. threads'[t] = Ended(t, "done") \/ threads'[t].pc = "children"
    BY <1>0, <1>2 DEF UpdateAccepted, Succeed, ThreadType
  <2> QED
    BY <1>1, <2>1
<1>3. CASE UpdateFails(t) \/ UpdateReplyLost(t) \/ scaleWorkloads(t)
  <2>1. threads'[t] = Ended(t, "done")
    BY <1>0, <1>3 DEF UpdateFails, UpdateReplyLost, End, scaleWorkloads
  <2> QED
    BY <1>1, <2>1
<1>4. CASE UpdateConflict(t)
  <2>1. threads'[t].pc = "conflict"
    BY <1>0, <1>4 DEF UpdateConflict, ThreadType
  <2> QED
    BY <2>1
<1>5. ASSUME NEW c \in Workload, GetChild(t, c) PROVE FALSE
  <2>1. threads'[t].pc \in {"done", "children"}
    BY <1>5, ThreadShape DEF GetChild
  <2> QED
    BY <2>1
<1> QED
  BY <1>2, <1>3, <1>4, <1>5 DEF ThreadStep

\* A decision to scale down is not made for a workload that is excluded.
LEMMA DecisionRespects ==
  ASSUME ExclusionsEvaluable, Inv, NEW t \in Thread, scanWorkload(t),
         threads'[t].pc \in {"scale", "sent"}
  PROVE  ExclusionOK(threads'[t], now)
<1> DEFINE r == threads[t]
           new == [r EXCEPT !.pc = "scale",
                     !.scaling = ScanDecision(ScopesOf(t), r.base.created, now),
                     !.replicas = GetDownscaleReplicas(ScopesOf(t)),
                     !.scaleChildren = GetScaleChildren(ScopesOf(t))]
           namespaceScope == nsScopes[t[1]][NamespaceOf[t[2]]]
<1>0. /\ DOMAIN threads = Thread /\ ThreadType(t[2], r)
      /\ t[1] \in Scanner /\ t[2] \in Workload /\ NamespaceOf[t[2]] \in Namespace
      /\ now \in Int
  BY OwnThreads, DownscalerAssumption DEF Inv, ThreadsOK, ThreadInv, RestOK
<1>1. /\ threads'[t] = new /\ r.pc = "listed"
      /\ GetScopeFromAnnotations(r.base.scope) /\ namespaceScope # Unset
  <2>1. Ended(t, "done").pc \notin {"scale", "sent"} /\ Ended(t, "uncounted").pc \notin {"scale", "sent"}
    BY DEF Ended, Idle
  <2> QED
    BY <1>0, <2>1 DEF scanWorkload, End, EndUncounted
<1>2. new.scaling = ScanDecision(ScopesOf(t), r.base.created, now) /\ new.base = r.base
  BY <1>0 DEF ThreadType
<1> HIDE DEF new
<1>3. r.base.scope \in Annotations /\ Evaluable(r.base.scope)
  <2>1. Copy(t[2], r.base)
    BY <1>0, <1>1 DEF ThreadType
  <2>2. r.base.scope \in Annotations
    BY <2>1 DEF Copy, Cluster!Object
  <2> QED
    BY <1>1, <2>2 DEF ExclusionsEvaluable, GetScopeFromAnnotations
<1>4. Evaluable(namespaceScope)
  <2>1. namespaceScope \in NamespaceAnnotations /\ namespaceScope # Malformed
    BY <1>0, <1>1 DEF Inv, RestOK
  <2> QED
    BY <2>1 DEF ExclusionsEvaluable
<1>5. Evaluable(scopeCli) /\ Evaluable(scopeEnv) /\ Evaluable(scopeDefault)
  BY DownscalerAssumption DEF ExclusionsEvaluable
<1>6. /\ DOMAIN ScopesOf(t) = 1..5 /\ ScopesOf(t)[1] = r.base.scope
      /\ \A i \in DOMAIN ScopesOf(t) : Evaluable(ScopesOf(t)[i])
  BY <1>3, <1>4, <1>5 DEF ScopesOf
<1>7. CASE new.scaling = "down"
  <2>1. 1 \in DOMAIN ScopesOf(t) /\ DOMAIN ScopesOf(t) \subseteq Nat
    BY <1>6
  <2>2. r.base.scope.ExcludeUntil = Unset \/ r.base.scope.ExcludeUntil <= now
    BY <1>0, <1>2, <1>6, <1>7, <2>1, DownIsNotExcluded
  <2> QED
    BY <1>1, <1>2, <2>2 DEF ExclusionOK
<1> QED
  BY <1>1, <1>7 DEF ExclusionOK

\* An attempt that is sent is made from the annotations of its copy.
LEMMA AttemptRespects ==
  ASSUME Inv, NEW t \in Thread, scaleWorkload(t), ExclusionOK(threads[t], now),
         threads'[t].pc \in {"scale", "sent"}
  PROVE  ExclusionOK(threads'[t], now)
<1> DEFINE r == threads[t]
           new == [r EXCEPT !.pc = "sent", !.base = Scaled(t).obj]
<1>0. /\ DOMAIN threads = Thread /\ ThreadType(t[2], r) /\ t[2] \in Workload
      /\ r.pc = "scale"
  BY OwnThreads DEF Inv, ThreadsOK, ThreadInv, scaleWorkload
<1>1. /\ threads'[t] = new /\ Scaled(t).status = "update"
      /\ r.scaling \in {"down", "up"}
  <2>1. Ended(t, "done").pc \notin {"scale", "sent"}
    BY DEF Ended, Idle
  <2>2. \A o, c : Succeed(t, o, c) => threads'[t].pc \notin {"scale", "sent"}
    BY <1>0, <2>1 DEF Succeed, ThreadType
  <2>3. \A c : End(t, c) => threads'[t].pc \notin {"scale", "sent"}
    BY <1>0, <2>1 DEF End
  <2> QED
    BY <1>0, <2>2, <2>3 DEF scaleWorkload
<1>2. new.pc = "sent" /\ new.retry = r.retry /\ new.scaling = r.scaling /\ new.base = Scaled(t).obj
  BY <1>0 DEF ThreadType
<1> HIDE DEF new
<1>3. Copy(t[2], r.base) /\ r.replicas \in Targets
  BY <1>0 DEF ThreadType
<1>4. Cluster!ScaledFrom(Scaled(t).obj, r.base)
  <2>1. Scaled(t) = Cluster!Update(Scaled(t).obj)
    BY <1>0, <1>1, <1>3, ScaledCopies DEF Scaled, CopyResult
  <2> QED
    BY <1>3, <2>1 DEF Scaled, Cluster!ScaledFrom
<1>5. Scaled(t).obj.scope = r.base.scope
  BY <1>0, <1>3, <1>4, ScaledKeeps
<1> QED
  BY <1>0, <1>1, <1>2, <1>5 DEF ExclusionOK

\* A retry is not a first attempt.
LEMMA RetryRespects ==
  ASSUME Inv, NEW t \in Thread, RegetWorkload(t), threads'[t].pc \in {"scale", "sent"}
  PROVE  threads'[t].retry # 0
<1>0. /\ DOMAIN threads = Thread /\ ThreadType(t[2], threads[t])
  BY DEF Inv, ThreadsOK, ThreadInv
<1>1. Ended(t, "done").pc \notin {"scale", "sent"} /\ Ended(t, "uncounted").pc \notin {"scale", "sent"}
  BY DEF Ended, Idle
<1>2. threads'[t].retry = threads[t].retry + 1
  BY <1>0, <1>1 DEF RegetWorkload, End, EndUncounted, ThreadType
<1>3. threads[t].retry \in Nat
  BY <1>0, DownscalerAssumption DEF ThreadType
<1> QED
  BY <1>2, <1>3

\* Nothing of what the scanners do leads to an attempt.
LEMMA ScannerAttempts ==
  ASSUME Inv, NEW x \in Scanner, ScannerStep(x) \/ Crash(x),
         NEW s \in Scanner, NEW w \in Workload
  PROVE  \/ threads'[<<s, w, 0>>] = threads[<<s, w, 0>>]
         \/ threads'[<<s, w, 0>>].pc \in {"idle", "listed", "done"}
<1> DEFINE t == <<s, w, 0>>
           Fine == threads'[t] = threads[t] \/ threads'[t].pc \in {"idle", "listed", "done"}
<1>0. DOMAIN threads = Thread /\ t \in Thread /\ t[1] = s /\ t[2] = w /\ t[3] = 0
  BY OwnThreads DEF Inv, ThreadsOK
<1>1. Idle.pc = "idle" /\ [Idle EXCEPT !.pc = "done"].pc = "done"
  BY DEF Idle
<1> HIDE DEF t
<1>2. ASSUME NEW end, Exit(x, end) PROVE Fine
  BY <1>0, <1>1, <1>2 DEF Exit
<1>3. CASE GetWorkloadsFails(x) \/ Crash(x)
  BY <1>2, <1>3 DEF GetWorkloadsFails, Crash, t
<1>4. CASE EndCycle(x)
  <2>1. CASE Exit(x, "finished")
    BY <1>2, <2>1 DEF t
  <2>2. CASE ~Exit(x, "finished")
    <3>1. threads'[t] = threads[t] \/ threads'[t] = Idle
      BY <1>0, <1>4, <2>2 DEF EndCycle
    <3> QED
      BY <1>1, <3>1 DEF t
  <2> QED
    BY <2>1, <2>2
<1>5. CASE StartCycle(x) \/ StartScan(x) \/ Restart(x)
  BY <1>5 DEF StartCycle, StartScan, Restart
<1>6. CASE FilterExcluded(x)
  <2>1. threads'[t] = threads[t] \/ threads'[t] = [Idle EXCEPT !.pc = "done"]
    BY <1>0, <1>6 DEF FilterExcluded
  <2> QED
    BY <1>1, <2>1 DEF t
<1>7. ASSUME NEW r \in Resource, GetWorkloads(x, r) PROVE Fine
  <2> DEFINE new == [Idle EXCEPT !.pc = "listed", !.base = objs[w], !.ver = version[w]]
  <2>1. CASE x = s /\ ResourceOf[w] = r /\ objs[w].live
    <3>1. threads'[t] = new
      BY <1>0, <1>7, <2>1 DEF GetWorkloads
    <3>2. new.pc = "listed"
      BY DEF Idle
    <3> HIDE DEF new
    <3> QED
      BY <3>1, <3>2
  <2>2. CASE ~(x = s /\ ResourceOf[w] = r /\ objs[w].live)
    BY <1>0, <1>7, <2>2 DEF GetWorkloads
  <2> QED
    BY <2>1, <2>2
<1>8. ASSUME NEW n \in Namespace, GetNamespaceScope(x, n) PROVE Fine
  BY <1>8 DEF GetNamespaceScope
<1> QED
  BY <1>3, <1>4, <1>5, <1>6, <1>7, <1>8 DEF ScannerStep, t

\* First attempts respect the exclusions of their copies.
LEMMA ExclusionStep ==
  ASSUME ExclusionsEvaluable, Inv, CycleInv, ExclusionInv, [Next]_vars
  PROVE  ExclusionInv'
<1> SUFFICES ASSUME NEW s \in Scanner, NEW w \in Workload
             PROVE  ExclusionOK(threads'[<<s, w, 0>>], now')
  BY DEF ExclusionInv
<1> DEFINE t == <<s, w, 0>>
<1>0. /\ t \in Thread /\ t[1] = s /\ t[2] = w /\ t[3] = 0
      /\ ExclusionOK(threads[t], now) /\ now \in Nat
  BY OwnThreads, DownscalerAssumption DEF ExclusionInv, Inv, RestOK
<1> HIDE DEF t
<1>1. ASSUME NEW u \in Thread, ThreadStep(u)
      PROVE  ExclusionOK(threads'[t], now')
  <2>0. now' = now
    BY <1>1 DEF ThreadStep, scanWorkload, scaleWorkload, UpdateAccepted, UpdateConflict,
           UpdateFails, UpdateReplyLost, RegetWorkload, GetChild, scaleWorkloads
  <2>1. CASE u # t
    BY <1>0, <1>1, <2>0, <2>1, ThreadShape
  <2>2. CASE u = t /\ threads'[t].pc \in {"scale", "sent"}
    <3>1. scanWorkload(t) \/ scaleWorkload(t) \/ RegetWorkload(t)
      BY <1>0, <1>1, <2>2, AttemptsComeFrom
    <3>2. CASE scanWorkload(t)
      BY <1>0, <2>0, <2>2, <3>2, DecisionRespects
    <3>3. CASE scaleWorkload(t)
      BY <1>0, <2>0, <2>2, <3>3, AttemptRespects
    <3>4. CASE RegetWorkload(t)
      BY <1>0, <2>2, <3>4, RetryRespects DEF ExclusionOK
    <3> QED
      BY <3>1, <3>2, <3>3, <3>4
  <2>3. CASE threads'[t].pc \notin {"scale", "sent"}
    BY <2>3 DEF ExclusionOK
  <2> QED
    BY <2>1, <2>2, <2>3
<1>2. ASSUME NEW x \in Scanner, ScannerStep(x) \/ Crash(x)
      PROVE  ExclusionOK(threads'[t], now')
  <2>1. now' = now
    BY <1>2 DEF ScannerStep, Crash, StartCycle, GetWorkloads, GetWorkloadsFails,
           FilterExcluded, GetNamespaceScope, StartScan, EndCycle, Restart
  <2>2. threads'[t] = threads[t] \/ threads'[t].pc \in {"idle", "listed", "done"}
    BY <1>2, ScannerAttempts DEF t
  <2>3. CASE threads'[t].pc \in {"idle", "listed", "done"}
    BY <2>3 DEF ExclusionOK
  <2> QED
    BY <1>0, <2>1, <2>2, <2>3
<1>3. CASE UNCHANGED <<threads, now>>
  BY <1>0, <1>3 DEF t
<1>4. CASE Tick
  <2>1. threads' = threads /\ now' = now + 1
    BY <1>4 DEF Tick, local
  <2>2. CASE ~( /\ threads[t].pc \in {"scale", "sent"} /\ threads[t].retry = 0
                /\ threads[t].scaling = "down"
                /\ GetScopeFromAnnotations(threads[t].base.scope))
    BY <2>1, <2>2 DEF ExclusionOK, t
  <2>3. CASE /\ threads[t].pc \in {"scale", "sent"} /\ threads[t].retry = 0
             /\ threads[t].scaling = "down"
             /\ GetScopeFromAnnotations(threads[t].base.scope)
    <3> DEFINE until == threads[t].base.scope.ExcludeUntil
    <3>1. until = Unset \/ until <= now
      BY <1>0, <2>3 DEF ExclusionOK
    <3>2. until \in Int \cup {Unset}
      <4>1. Copy(w, threads[t].base)
        BY <1>0, <2>3 DEF Inv, ThreadsOK, ThreadInv, ThreadType
      <4>2. threads[t].base.scope \in Annotations
        BY <4>1 DEF Copy, Cluster!Object
      <4> QED
        BY <2>3, <4>2 DEF ExclusionsEvaluable, Evaluable, GetScopeFromAnnotations
    <3>3. until = Unset \/ until <= now + 1
      BY <1>0, <3>1, <3>2
    <3> QED
      BY <2>1, <3>3 DEF ExclusionOK, t
  <2> QED
    BY <2>2, <2>3
<1>5. ASSUME \/ \E r \in late : LateUpdate(r)
             \/ \E x \in Workload : External(x)
             \/ \E n \in Namespace : AnnotateNamespace(n)
             \/ UNCHANGED vars
      PROVE  UNCHANGED <<threads, now>>
  BY <1>5 DEF LateUpdate, External, AnnotateNamespace, local, vars
<1> QED
  BY <1>1, <1>2, <1>3, <1>4, <1>5 DEF Next, t

\* A scan never scales down a workload whose own annotations, as they are when
\* the update takes effect, exclude it until a later time: the optimistic lock
\* makes a first attempt as good as its decision was, and time only ends such an
\* exclusion. Only retries, which do not decide again, are left out.
THEOREM ExclusionRespected ==
  ASSUME ExclusionsEvaluable
  PROVE  Spec => RespectsExclusion
<1> DEFINE Respects(s, w) ==
             LET t == <<s, w, 0>>
             IN /\ threads[t].pc = "sent" /\ threads'[t] # threads[t]
                /\ threads[t].retry = 0 /\ threads[t].scaling = "down" /\ objs'[w] # objs[w]
                /\ GetScopeFromAnnotations(objs[w].scope)
                => objs[w].scope.ExcludeUntil = Unset \/ objs[w].scope.ExcludeUntil <= now
<1>1. Init => ExclusionInv
  <2> SUFFICES ASSUME Init, NEW s \in Scanner, NEW w \in Workload
               PROVE  ExclusionOK(threads[<<s, w, 0>>], now)
    BY DEF ExclusionInv
  <2>1. threads[<<s, w, 0>>] = Idle
    BY OwnThreads DEF Init
  <2> QED
    BY <2>1 DEF ExclusionOK, Idle
<1>2. ASSUME Inv, CycleInv, ExclusionInv, [Next]_vars, NEW s \in Scanner, NEW w \in Workload
      PROVE  Respects(s, w)
  <2> DEFINE t == <<s, w, 0>>
  <2> SUFFICES ASSUME threads[t].pc = "sent", threads'[t] # threads[t],
                      threads[t].retry = 0, threads[t].scaling = "down",
                      objs'[w] # objs[w], GetScopeFromAnnotations(objs[w].scope)
               PROVE  objs[w].scope.ExcludeUntil = Unset \/ objs[w].scope.ExcludeUntil <= now
    BY DEF Respects
  <2>0. /\ t \in Thread /\ t[1] = s /\ t[2] = w /\ t[3] = 0
        /\ ExclusionOK(threads[t], now)
    BY <1>2, OwnThreads DEF ExclusionInv
  <2> HIDE DEF t
  <2>1. ~ \E x \in Scanner : ScannerStep(x) \/ Crash(x)
    BY DEF ScannerStep, Crash, StartCycle, GetWorkloads, GetWorkloadsFails,
           FilterExcluded, GetNamespaceScope, StartScan, EndCycle, Restart, cluster
  <2>2. PICK u \in Thread : ThreadStep(u)
    BY <1>2, <2>1, EverybodyElse DEF Next
  <2>3. u = t
    BY <1>2, <2>0, <2>2, ThreadShape
  <2>4. UpdateAccepted(t) \/ UpdateReplyLost(t)
    BY <2>2, <2>3 DEF ThreadStep, scanWorkload, scaleWorkload, UpdateConflict,
           UpdateFails, RegetWorkload, GetChild, scaleWorkloads, cluster
  <2>5. Accepts(w, threads[t].ver)
    BY <2>0, <2>4 DEF UpdateAccepted, UpdateReplyLost
  <2>6. Cluster!ScaledFrom(threads[t].base, objs[w]) /\ Copy(w, objs[w])
    BY <1>2, <2>0, <2>5, AcceptedIsScaled, ObjectsAreCopies
  <2>7. threads[t].base.scope = objs[w].scope
    BY <2>6, ScaledKeeps
  <2> QED
    BY <2>0, <2>7 DEF ExclusionOK
<1>3. ASSUME Inv, CycleInv, ExclusionInv, [Next]_vars
      PROVE  [\A s \in Scanner, w \in Workload : Respects(s, w)]_vars
  BY <1>2, <1>3
<1> QED
  BY <1>1, <1>3, ExclusionStep, CycleHolds, InvHolds, PTL DEF Spec, RespectsExclusion

-----------------------------------------------------------------------------
(* Counters. Where no workload has an owner there are no children.         *)

\* The record of a thread that has no children and is nobody's child.
ChildlessOK(t, r) ==
  /\ r.pc \in {"listed", "scale", "sent", "conflict", "held", "children"} => r.base.active = {}
  /\ r.todo = {}
  /\ t[3] # 0 => r = Idle

Childless ==
  /\ \A w \in Workload : objs[w].active = {}
  /\ \A t \in Thread : ChildlessOK(t, threads[t])

\* Without owned workloads nothing gets active jobs.
LEMMA ChildlessObjects ==
  ASSUME Owned = {}, Inv, Childless, [Next]_vars, NEW w \in Workload
  PROVE  objs'[w].active = {}
<1>0. /\ DOMAIN objs = Workload /\ objs[w].active = {} /\ Copy(w, objs[w])
      /\ Children[w] = {}
  BY ObjectsAreCopies, DownscalerAssumption DEF Inv, Cluster!TypeOK, Childless
<1>1. objs[w] \in Cluster!Object(objs[w].kind)
  BY <1>0 DEF Copy
<1>2. [Cluster!Next]_Cluster!vars
  BY ClusterStep
<1>3. ASSUME NEW o, Cluster!ScaledFrom(o, objs[w]) PROVE o.active = {}
  BY <1>0, <1>3, ScaledKeeps
<1>4. ASSUME NEW x \in Workload, NEW d \in Targets, Cluster!Downscale(x, d)
      PROVE  objs'[w].active = {}
  <2> DEFINE result == Cluster!ScaleDown(objs[x], d)
  <2>1. result.status = "update" /\ objs' = [objs EXCEPT ![x] = result.obj]
    BY <1>4 DEF Cluster!Downscale
  <2>2. result = Cluster!Update(result.obj)
    BY <2>1, ObjectsAreCopies, ScaledCopies DEF CopyResult
  <2>3. Cluster!ScaledFrom(result.obj, objs[x])
    BY <2>2 DEF Cluster!ScaledFrom
  <2> QED
    BY <1>0, <1>3, <2>1, <2>3
<1>5. ASSUME NEW x \in Workload, Cluster!Upscale(x)
      PROVE  objs'[w].active = {}
  <2> DEFINE result == Cluster!ScaleUp(objs[x])
  <2>1. result.status = "update" /\ objs' = [objs EXCEPT ![x] = result.obj]
    BY <1>5 DEF Cluster!Upscale
  <2>2. CASE x = w /\ Targets # {}
    <3>1. result = Cluster!Update(result.obj)
      BY <2>1, <2>2, ObjectsAreCopies, ScaledCopies DEF CopyResult
    <3>2. Cluster!ScaledFrom(result.obj, objs[x])
      BY <3>1 DEF Cluster!ScaledFrom
    <3> QED
      BY <1>0, <1>3, <2>1, <2>2, <3>2
  <2>3. Targets # {}
    BY DownscalerAssumption
  <2>4. CASE x # w
    BY <1>0, <2>1, <2>4
  <2> QED
    BY <2>2, <2>3, <2>4
<1>6. ASSUME NEW x \in Workload, Cluster!SetValue(x) \/ Cluster!Annotate(x) \/ Cluster!Delete(x)
      PROVE  objs'[w].active = {}
  <2>1. objs'[w].active = objs[w].active
    <3>1. CASE Cluster!SetValue(x)
      BY <1>0, <1>1, <3>1 DEF Cluster!SetValue, Cluster!Object
    <3>2. CASE Cluster!Annotate(x)
      BY <1>0, <1>1, <3>2 DEF Cluster!Annotate, Cluster!Object
    <3>3. CASE Cluster!Delete(x)
      BY <1>0, <1>1, <3>3 DEF Cluster!Delete, Cluster!Object
    <3> QED
      BY <1>6, <3>1, <3>2, <3>3
  <2> QED
    BY <1>0, <2>1
<1>7. ASSUME NEW x \in Workload, Cluster!SetActive(x)
      PROVE  objs'[w].active = {}
  BY <1>0, <1>1, <1>7 DEF Cluster!SetActive, Cluster!Object
<1>8. ASSUME NEW x \in Workload, NEW created, Cluster!Create(x, created)
      PROVE  objs'[w].active = {}
  BY <1>0, <1>8 DEF Cluster!Create, Cluster!NewObject
<1>9. CASE UNCHANGED Cluster!vars
  BY <1>0, <1>9 DEF Cluster!vars
<1> QED
  BY <1>2, <1>4, <1>5, <1>6, <1>7, <1>8, <1>9 DEF Cluster!Next

\* The threads of workloads without children stay childless.
LEMMA ChildlessThread ==
  ASSUME Inv, Childless, NEW t \in Thread, ThreadStep(t), NEW u \in Thread
  PROVE  ChildlessOK(u, threads'[u])
<1> DEFINE r == threads[t]
           Old == {"listed", "scale", "sent", "conflict", "held", "children"}
<1>0. /\ DOMAIN threads = Thread /\ ThreadType(t[2], r) /\ t[2] \in Workload
      /\ ChildlessOK(t, r) /\ ChildlessOK(u, threads[u])
      /\ objs[t[2]].active = {}
  BY OwnThreads DEF Inv, ThreadsOK, ThreadInv, Childless
<1>1. r.pc \in {"listed", "scale", "sent", "conflict", "children"}
  BY DEF ThreadStep, scanWorkload, scaleWorkload, UpdateAccepted, UpdateConflict,
         UpdateFails, UpdateReplyLost, RegetWorkload, GetChild, scaleWorkloads
<1>2. /\ t[3] = 0 /\ r.base.active = {} /\ r.todo = {}
  BY <1>0, <1>1 DEF ChildlessOK, Idle
<1>3. ASSUME NEW new, threads' = [threads EXCEPT ![t] = new], new.base.active = {},
             new.todo = {}
      PROVE  ChildlessOK(u, threads'[u])
  <2>1. threads'[u] = IF u = t THEN new ELSE threads[u]
    BY <1>0, <1>3
  <2> QED
    BY <1>0, <1>2, <1>3, <2>1 DEF ChildlessOK
<1>4. ASSUME NEW pc \in {"done", "uncounted"}, threads' = [threads EXCEPT ![t] = Ended(t, pc)]
      PROVE  ChildlessOK(u, threads'[u])
  <2>1. Ended(t, pc).pc = pc /\ Ended(t, pc).todo = {}
    BY <1>2 DEF Ended, Idle
  <2>2. threads'[u] = IF u = t THEN Ended(t, pc) ELSE threads[u]
    BY <1>0, <1>4
  <2> QED
    BY <1>0, <1>2, <1>4, <2>1, <2>2 DEF ChildlessOK
<1>5. ASSUME NEW o, o.active = {}, NEW c, Succeed(t, o, c)
      PROVE  ChildlessOK(u, threads'[u])
  <2> DEFINE new == [r EXCEPT !.pc = "children", !.base = o, !.ver = Unset,
                              !.todo = o.active]
  <2>1. new.base.active = {} /\ new.todo = {}
    BY <1>0, <1>5 DEF ThreadType
  <2>2. threads' = [threads EXCEPT ![t] = new] \/ threads' = [threads EXCEPT ![t] = Ended(t, "done")]
    BY <1>5 DEF Succeed
  <2> HIDE DEF new
  <2> QED
    BY <1>3, <1>4, <2>1, <2>2
<1>6. ASSUME NEW c, End(t, c) PROVE ChildlessOK(u, threads'[u])
  BY <1>4, <1>6 DEF End
<1>7. ASSUME EndUncounted(t) PROVE ChildlessOK(u, threads'[u])
  BY <1>4, <1>7 DEF EndUncounted
<1>8. CASE scanWorkload(t)
  <2> DEFINE new == [r EXCEPT !.pc = "scale",
                       !.scaling = ScanDecision(ScopesOf(t), r.base.created, now),
                       !.replicas = GetDownscaleReplicas(ScopesOf(t)),
                       !.scaleChildren = GetScaleChildren(ScopesOf(t))]
  <2>1. \/ End(t, "parsingWorkload") \/ EndUncounted(t) \/ End(t, "excluded")
        \/ threads' = [threads EXCEPT ![t] = new]
    BY <1>8 DEF scanWorkload
  <2>2. new.base.active = {} /\ new.todo = {}
    BY <1>0, <1>2 DEF ThreadType
  <2> HIDE DEF new
  <2> QED
    BY <1>3, <1>6, <1>7, <2>1, <2>2
<1>9. CASE scaleWorkload(t)
  <2> DEFINE new == [r EXCEPT !.pc = "sent", !.base = Scaled(t).obj]
  <2>1. Copy(t[2], r.base) /\ r.replicas \in Targets
    BY <1>0, <1>9 DEF ThreadType, scaleWorkload
  <2>2. Scaled(t).status \in {"update", "skip"} => Scaled(t).obj.active = {}
    <3>1. CopyResult(t[2], r.base, Scaled(t))
      BY <1>0, <2>1, ScaledCopies DEF Scaled
    <3>2. CASE Scaled(t).status = "update"
      <4>1. Scaled(t) = Cluster!Update(Scaled(t).obj)
        BY <3>1, <3>2 DEF CopyResult
      <4>2. Cluster!ScaledFrom(Scaled(t).obj, r.base)
        BY <2>1, <4>1 DEF Scaled, Cluster!ScaledFrom
      <4> QED
        BY <1>0, <1>2, <2>1, <4>2, ScaledKeeps
    <3> QED
      BY <1>2, <3>1, <3>2 DEF CopyResult
  <2>3. \/ Succeed(t, r.base, "excluded") \/ End(t, "invalid") \/ End(t, "generic")
        \/ /\ Scaled(t).status \in {"update", "skip"}
           /\ Succeed(t, Scaled(t).obj, ScaledCounter(t))
        \/ /\ Scaled(t).status = "update"
           /\ threads' = [threads EXCEPT ![t].pc = "sent", ![t].base = Scaled(t).obj]
    BY <1>9 DEF scaleWorkload
  <2>4. Scaled(t).status = "update" => new.base.active = {} /\ new.todo = {}
    BY <1>0, <1>2, <2>2 DEF ThreadType
  <2>5. [threads EXCEPT ![t].pc = "sent", ![t].base = Scaled(t).obj]
          = [threads EXCEPT ![t] = new]
    BY <1>0
  <2> HIDE DEF new
  <2> QED
    BY <1>2, <1>3, <1>5, <1>6, <2>2, <2>3, <2>4, <2>5
<1>10. CASE UpdateAccepted(t) \/ UpdateFails(t) \/ UpdateReplyLost(t)
  <2>1. Succeed(t, r.base, ScaledCounter(t)) \/ End(t, "generic")
    BY <1>10 DEF UpdateAccepted, UpdateFails, UpdateReplyLost
  <2> QED
    BY <1>2, <1>5, <1>6, <2>1
<1>11. CASE UpdateConflict(t)
  <2> DEFINE new == [r EXCEPT !.pc = "conflict"]
  <2>1. threads' = [threads EXCEPT ![t] = new]
    BY <1>0, <1>11 DEF UpdateConflict
  <2>2. new.base.active = {} /\ new.todo = {}
    BY <1>0, <1>2 DEF ThreadType
  <2> HIDE DEF new
  <2> QED
    BY <1>3, <2>1, <2>2
<1>12. CASE RegetWorkload(t)
  <2> DEFINE new == [r EXCEPT !.pc = "scale", !.base = objs[t[2]], !.ver = version[t[2]],
                              !.retry = @ + 1]
  <2>1. \/ End(t, "conflict") \/ EndUncounted(t)
        \/ threads' = [threads EXCEPT ![t].pc = "scale", ![t].base = objs[t[2]],
                                      ![t].ver = version[t[2]], ![t].retry = @ + 1]
    BY <1>12 DEF RegetWorkload
  <2>2. new.base.active = {} /\ new.todo = {}
    BY <1>0, <1>2 DEF ThreadType
  <2>3. [threads EXCEPT ![t].pc = "scale", ![t].base = objs[t[2]],
                        ![t].ver = version[t[2]], ![t].retry = @ + 1]
          = [threads EXCEPT ![t] = new]
    BY <1>0
  <2> HIDE DEF new
  <2> QED
    BY <1>3, <1>6, <1>7, <2>1, <2>2, <2>3
<1>13. ~ \E c \in Workload : GetChild(t, c)
  BY <1>2 DEF GetChild
<1>14. CASE scaleWorkloads(t)
  <2>1. HeldBy(t) = {}
    BY <1>2 DEF HeldBy
  <2>2. threads' = [threads EXCEPT ![t] = Ended(t, "done")]
    BY <1>0, <1>14, <2>1 DEF scaleWorkloads
  <2> QED
    BY <1>4, <2>2
<1> QED
  BY <1>8, <1>9, <1>10, <1>11, <1>12, <1>13, <1>14 DEF ThreadStep

\* Scanners start no thread with children.
LEMMA ChildlessScanner ==
  ASSUME Inv, Childless, NEW x \in Scanner, ScannerStep(x) \/ Crash(x), NEW u \in Thread
  PROVE  ChildlessOK(u, threads'[u])
<1>0. /\ DOMAIN threads = Thread /\ u[2] \in Workload /\ ChildlessOK(u, threads[u])
      /\ objs[u[2]].active = {}
  BY OwnThreads DEF Inv, ThreadsOK, Childless
<1>1. ChildlessOK(u, Idle)
  BY DEF ChildlessOK, Idle
<1>2. ASSUME NEW end, Exit(x, end) PROVE ChildlessOK(u, threads'[u])
  BY <1>0, <1>1, <1>2 DEF Exit
<1>3. CASE GetWorkloadsFails(x) \/ Crash(x)
  BY <1>2, <1>3 DEF GetWorkloadsFails, Crash
<1>4. CASE EndCycle(x)
  <2>1. CASE Exit(x, "finished")
    BY <1>2, <2>1
  <2>2. CASE ~Exit(x, "finished")
    <3>1. CASE u[3] = 0 \/ threads[u] = Idle
      BY <1>0, <1>1, <1>4, <2>2, <3>1 DEF EndCycle
    <3> QED
      BY <1>0, <3>1 DEF ChildlessOK
  <2> QED
    BY <2>1, <2>2
<1>5. CASE StartCycle(x) \/ StartScan(x) \/ Restart(x)
  BY <1>0, <1>5 DEF StartCycle, StartScan, Restart
<1>6. CASE FilterExcluded(x)
  <2> DEFINE new == [Idle EXCEPT !.pc = "done"]
  <2>1. threads'[u] = threads[u] \/ (u[3] = 0 /\ threads'[u] = new)
    BY <1>0, <1>6 DEF FilterExcluded
  <2>2. u[3] = 0 => ChildlessOK(u, new)
    BY DEF ChildlessOK, Idle
  <2> QED
    BY <1>0, <2>1, <2>2
<1>7. ASSUME NEW r \in Resource, GetWorkloads(x, r) PROVE ChildlessOK(u, threads'[u])
  <2> DEFINE new == [Idle EXCEPT !.pc = "listed", !.base = objs[u[2]], !.ver = version[u[2]]]
  <2>1. threads'[u] = threads[u] \/ (u[3] = 0 /\ threads'[u] = new)
    BY <1>0, <1>7 DEF GetWorkloads
  <2>2. u[3] = 0 => ChildlessOK(u, new)
    BY <1>0 DEF ChildlessOK, Idle
  <2> HIDE DEF new
  <2> QED
    BY <1>0, <2>1, <2>2
<1>8. ASSUME NEW n \in Namespace, GetNamespaceScope(x, n) PROVE ChildlessOK(u, threads'[u])
  BY <1>0, <1>8 DEF GetNamespaceScope
<1> QED
  BY <1>3, <1>4, <1>5, <1>6, <1>7, <1>8 DEF ScannerStep

\* Where no workload has an owner, no goroutine for a child ever runs.
LEMMA ChildlessHolds ==
  ASSUME Owned = {}
  PROVE  Spec => []Childless
<1>1. Init => Childless
  <2> SUFFICES ASSUME Init PROVE Childless
    OBVIOUS
  <2>1. \A w \in Workload : objs[w].active = {}
    BY DownscalerAssumption DEF Init, Cluster!Init
  <2>2. \A t \in Thread : ChildlessOK(t, threads[t])
    BY DEF Init, ChildlessOK, Idle
  <2> QED
    BY <2>1, <2>2 DEF Childless
<1>2. ASSUME Inv, Childless, [Next]_vars PROVE Childless'
  <2>1. \A w \in Workload : objs'[w].active = {}
    BY <1>2, ChildlessObjects
  <2>2. CASE UNCHANGED <<phase, threads, metrics>>
    BY <1>2, <2>1, <2>2 DEF Childless
  <2>3. ASSUME NEW u \in Thread,
               \/ \E t \in Thread : ThreadStep(t)
               \/ \E x \in Scanner : ScannerStep(x) \/ Crash(x)
        PROVE  ChildlessOK(u, threads'[u])
    BY <1>2, <2>3, ChildlessThread, ChildlessScanner
  <2>4. CASE \/ \E t \in Thread : ThreadStep(t)
             \/ \E x \in Scanner : ScannerStep(x) \/ Crash(x)
    BY <2>1, <2>3, <2>4 DEF Childless
  <2> QED
    BY <1>2, <2>2, <2>4, EverybodyElse DEF Next
<1> QED
  BY <1>1, <1>2, InvHolds, PTL DEF Spec

\* What the counters of one namespace add up to.
Total(m) == m["downscaled"] + m["upscaled"] + m["excluded"] + m["invalid"]
            + m["conflict"] + m["generic"] + m["parsingWorkload"]

\* The workloads of namespace n that scanner s is done with.
CountedIn(s, n) == {w \in Workload : /\ NamespaceOf[w] = n
                                     /\ threads[<<s, w, 0>>].pc \in {"done", "children"}}

\* The counters m of a namespace account for the workloads counted, in phase p.
AccountOK(p, m, counted) ==
  /\ Total(m) >= Cardinality(counted)
  /\ Owned = {} /\ p # "sleep" => Total(m) = Cardinality(counted)

\* MetricsAccount, in every phase.
AccountInv == \A s \in Scanner, n \in Namespace :
                AccountOK(phase[s], metrics[s][n], CountedIn(s, n))

\* Counters add up to a number.
LEMMA TotalType ==
  ASSUME NEW m \in [Counter -> Nat]
  PROVE  /\ Total(m) \in Nat
         /\ \A c \in {"downscaled", "upscaled", "excluded", "invalid", "conflict",
                      "generic", "parsingWorkload"} : m[c] \in Nat
<1>1. \A c \in {"downscaled", "upscaled", "excluded", "invalid", "conflict",
                "generic", "parsingWorkload"} : m[c] \in Nat
  BY DEF Counter
<1> QED
  BY <1>1 DEF Total

\* A counter that is raised raises the total.
LEMMA TotalGrows ==
  ASSUME NEW m \in [Counter -> Nat], NEW c \in Counter \ {"parsingNamespace"},
         NEW k \in Nat, NEW new, new = [m EXCEPT ![c] = m[c] + k]
  PROVE  Total(new) = Total(m) + k
BY TotalType DEF Total, Counter

\* The mark for a namespace that could not be read is not part of it.
LEMMA TotalStays ==
  ASSUME NEW m \in [Counter -> Nat], NEW k, NEW new,
         new = [m EXCEPT !["parsingNamespace"] = k]
  PROVE  Total(new) = Total(m)
BY TotalType DEF Total, Counter

\* The workloads a scanner is done with are finitely many.
LEMMA CountedIsFinite ==
  ASSUME NEW S \in SUBSET Workload
  PROVE  IsFiniteSet(S) /\ Cardinality(S) \in Nat
BY DownscalerAssumption, FS_Subset, FS_CardinalityType

\* A step of a thread keeps the account.
LEMMA AccountThread ==
  ASSUME Inv, CycleInv, AccountInv, Owned = {} => Childless,
         NEW t \in Thread, ThreadStep(t), NEW s \in Scanner, NEW n \in Namespace
  PROVE  AccountOK(phase'[s], metrics'[s][n], CountedIn(s, n)')
<1> DEFINE r == threads[t]
           N == NamespaceOf[t[2]]
<1>0. /\ AccountOK(phase[s], metrics[s][n], CountedIn(s, n)) /\ UNCHANGED phase
      /\ metrics \in [Scanner -> [Namespace -> [Counter -> Nat]]]
      /\ metrics[s][n] \in [Counter -> Nat]
      /\ t[1] \in Scanner /\ t[2] \in Workload /\ N \in Namespace
      /\ t[3] = 0 => t = <<t[1], t[2], 0>>
  <2>1. UNCHANGED phase
    BY ThreadShape
  <2>2. t[1] \in Scanner /\ t[2] \in Workload /\ (t[3] = 0 => t = <<t[1], t[2], 0>>)
    BY OwnThreads
  <2> QED
    BY <2>1, <2>2, DownscalerAssumption DEF AccountInv, Inv, RestOK
<1>1. /\ \A u \in Thread : u # t /\ u[3] = 0 => threads'[u] = threads[u]
      /\ r.pc \in {"listed", "scale", "sent", "conflict", "children"}
  BY ThreadShape
<1>2. /\ CountedIn(s, n)' = {w \in Workload : /\ NamespaceOf[w] = n
                               /\ threads'[<<s, w, 0>>].pc \in {"done", "children"}}
      /\ CountedIn(s, n) \in SUBSET Workload
  BY DEF CountedIn
<1>3. Cardinality(CountedIn(s, n)) \in Nat /\ Total(metrics[s][n]) \in Nat
  BY <1>0, <1>2, CountedIsFinite, TotalType
<1>4. t[3] # 0 \/ s # t[1] \/ n # N => CountedIn(s, n)' = CountedIn(s, n)
  <2> SUFFICES ASSUME t[3] # 0 \/ s # t[1] \/ n # N, NEW w \in Workload, NamespaceOf[w] = n
               PROVE  threads'[<<s, w, 0>>] = threads[<<s, w, 0>>]
    BY <1>2 DEF CountedIn
  <2>1. <<s, w, 0>> # t
    BY OwnThreads
  <2> QED
    BY <1>1, <2>1, OwnThreads
<1>5. CASE UNCHANGED metrics /\ (t[3] = 0 => (threads'[t].pc \in {"done", "children"}
                                              <=> r.pc = "children"))
  <2>1. CountedIn(s, n)' = CountedIn(s, n)
    <3>1. CASE t[3] = 0 /\ s = t[1]
      <4> SUFFICES ASSUME NEW w \in Workload
                   PROVE  threads'[<<s, w, 0>>].pc \in {"done", "children"}
                            <=> threads[<<s, w, 0>>].pc \in {"done", "children"}
        BY <1>2 DEF CountedIn
      <4>1. CASE w # t[2]
        <5>1. <<s, w, 0>> # t
          BY <4>1, OwnThreads
        <5> QED
          BY <1>1, <5>1, OwnThreads
      <4>2. CASE w = t[2]
        BY <1>0, <1>1, <1>5, <3>1, <4>2
      <4> QED
        BY <4>1, <4>2
    <3> QED
      BY <1>4, <3>1
  <2> QED
    BY <1>0, <1>5, <2>1
<1>6. ASSUME r.pc # "children", NEW c \in Counter \ {"parsingNamespace"}, Count(t, c),
             t[3] = 0 => threads'[t].pc \in {"done", "children"}
      PROVE  AccountOK(phase'[s], metrics'[s][n], CountedIn(s, n)')
  <2>0. c \in Counter \ {"parsingNamespace"} /\ 1 \in Nat
    BY <1>6
  <2>1. \/ metrics'[s][n] = metrics[s][n]
        \/ metrics'[s][n] = [metrics[s][n] EXCEPT ![c] = metrics[s][n][c] + 1]
    BY <1>0, <1>6 DEF Count
  <2>2. Total(metrics'[s][n]) \in {Total(metrics[s][n]), Total(metrics[s][n]) + 1}
    <3> DEFINE m == metrics[s][n]
               new == metrics'[s][n]
    <3>1. m \in [Counter -> Nat]
      BY <1>0
    <3>2. new = m \/ new = [m EXCEPT ![c] = m[c] + 1]
      BY <2>1
    <3> HIDE DEF m, new
    <3>3. Total(new) \in {Total(m), Total(m) + 1}
      <4>1. CASE new = m
        BY <4>1
      <4>2. CASE new = [m EXCEPT ![c] = m[c] + 1]
        <5>1. Total(new) = Total(m) + 1
          BY <2>0, <3>1, <4>2, TotalGrows
        <5> QED
          BY <5>1
      <4> QED
        BY <3>2, <4>1, <4>2
    <3> QED
      BY <3>3 DEF m, new
  <2>3. CASE t[3] # 0
    <3>1. Owned # {}
      BY <1>1, <2>3 DEF Childless, ChildlessOK, Idle
    <3> QED
      BY <1>0, <1>3, <1>4, <2>2, <2>3, <3>1 DEF AccountOK
  <2>4. CASE t[3] = 0 /\ (s # t[1] \/ n # N)
    <3>1. metrics'[s][n] = metrics[s][n]
      BY <1>0, <1>6, <2>4 DEF Count
    <3> QED
      BY <1>0, <1>4, <2>4, <3>1
  <2>5. CASE t[3] = 0 /\ s = t[1] /\ n = N
    <3>1. r.own = TRUE
      BY <1>0, <2>5 DEF CycleInv, CycleOK
    <3>2. metrics'[s][n] = [metrics[s][n] EXCEPT ![c] = metrics[s][n][c] + 1]
      BY <1>0, <1>6, <2>5, <3>1 DEF Count
    <3>3. Total(metrics'[s][n]) = Total(metrics[s][n]) + 1
      <4> DEFINE m == metrics[s][n]
                 new == metrics'[s][n]
      <4>1. m \in [Counter -> Nat] /\ new = [m EXCEPT ![c] = m[c] + 1]
        BY <1>0, <3>2
      <4> HIDE DEF m, new
      <4>2. Total(new) = Total(m) + 1
        BY <2>0, <4>1, TotalGrows
      <4> QED
        BY <4>2 DEF m, new
    <3>4. t[2] \notin CountedIn(s, n)
      BY <1>0, <1>1, <1>6, <2>5 DEF CountedIn
    <3>5. CountedIn(s, n)' = CountedIn(s, n) \cup {t[2]}
      <4> SUFFICES ASSUME NEW w \in Workload, NamespaceOf[w] = n
                   PROVE  threads'[<<s, w, 0>>].pc \in {"done", "children"}
                            <=> \/ threads[<<s, w, 0>>].pc \in {"done", "children"}
                                \/ w = t[2]
        BY <1>0, <1>2, <2>5 DEF CountedIn
      <4>1. CASE w # t[2]
        <5>1. <<s, w, 0>> # t
          BY <4>1, OwnThreads
        <5> QED
          BY <1>1, <4>1, <5>1, OwnThreads
      <4>2. CASE w = t[2]
        BY <1>0, <1>6, <2>5, <4>2
      <4> QED
        BY <4>1, <4>2
    <3>6. Cardinality(CountedIn(s, n)') = Cardinality(CountedIn(s, n)) + 1
      BY <1>2, <3>4, <3>5, CountedIsFinite, FS_AddElement
    <3> QED
      BY <1>0, <1>3, <3>3, <3>6 DEF AccountOK
  <2> QED
    BY <2>3, <2>4, <2>5
<1> QED
  BY <1>5, <1>6, ThreadShape

\* So does a step of a scanner.
LEMMA AccountScanner ==
  ASSUME Inv, CycleInv, CycleInv', AccountInv,
         NEW x \in Scanner, ScannerStep(x) \/ Crash(x), NEW s \in Scanner, NEW n \in Namespace
  PROVE  AccountOK(phase'[s], metrics'[s][n], CountedIn(s, n)')
<1>0. /\ AccountOK(phase[s], metrics[s][n], CountedIn(s, n))
      /\ phase \in [Scanner -> Phase]
      /\ metrics \in [Scanner -> [Namespace -> [Counter -> Nat]]]
      /\ metrics[s] \in [Namespace -> [Counter -> Nat]]
      /\ metrics[s][n] \in [Counter -> Nat]
  BY DEF AccountInv, Inv, RestOK
<1>1. /\ CountedIn(s, n)' = {w \in Workload : /\ NamespaceOf[w] = n
                               /\ threads'[<<s, w, 0>>].pc \in {"done", "children"}}
      /\ CountedIn(s, n) \in SUBSET Workload
  BY DEF CountedIn
<1>2. Cardinality(CountedIn(s, n)) \in Nat /\ Total(metrics[s][n]) \in Nat
  BY <1>0, <1>1, CountedIsFinite, TotalType
<1>3. Total(NoMetrics[n]) = 0
  BY DEF NoMetrics, Total, Counter
<1>4. Cardinality({}) = 0
  BY FS_EmptySet
<1>5. /\ phase[s] \in {"sleep", "list", "exited", "finished"} => CountedIn(s, n) = {}
      /\ phase'[s] \in {"sleep", "list", "exited", "finished"} => CountedIn(s, n)' = {}
  BY <1>1 DEF CountedIn, CycleInv, CycleOK
<1>6. CASE x # s
  <2>1. /\ phase'[s] = phase[s] /\ metrics'[s] = metrics[s]
        /\ \A w \in Workload : threads'[<<s, w, 0>>] = threads[<<s, w, 0>>]
    BY <1>6, ScannerShape, OwnThreads
  <2>2. CountedIn(s, n)' = CountedIn(s, n)
    BY <1>1, <2>1 DEF CountedIn
  <2> QED
    BY <1>0, <2>1, <2>2
<1>7. ASSUME NEW end \in {"exited", "finished"}, Exit(s, end)
      PROVE  AccountOK(phase'[s], metrics'[s][n], CountedIn(s, n)')
  <2>1. phase'[s] = end /\ metrics'[s][n] = NoMetrics[n]
    BY <1>0, <1>7 DEF Exit
  <2> QED
    BY <1>3, <1>4, <1>5, <1>7, <2>1 DEF AccountOK
<1>8. CASE GetWorkloadsFails(s) \/ Crash(s)
  BY <1>7, <1>8 DEF GetWorkloadsFails, Crash
<1>9. CASE EndCycle(s)
  <2>1. CASE Exit(s, "finished")
    BY <1>7, <2>1
  <2>2. CASE ~Exit(s, "finished")
    <3>1. phase'[s] = "sleep" /\ metrics' = metrics
      BY <1>0, <1>9, <2>2 DEF EndCycle
    <3> QED
      BY <1>2, <1>4, <1>5, <3>1 DEF AccountOK
  <2> QED
    BY <2>1, <2>2
<1>10. CASE StartCycle(s)
  <2>1. phase'[s] = "list" /\ metrics'[s][n] = NoMetrics[n]
    BY <1>0, <1>10 DEF StartCycle
  <2> QED
    BY <1>3, <1>4, <1>5, <2>1 DEF AccountOK
<1>11. CASE StartScan(s) \/ Restart(s)
  <2>1. /\ phase[s] # "sleep" /\ phase'[s] # "sleep"
        /\ threads' = threads /\ metrics' = metrics
    BY <1>0, <1>11 DEF StartScan, Restart
  <2>2. CountedIn(s, n)' = CountedIn(s, n)
    BY <1>1, <2>1 DEF CountedIn
  <2> QED
    BY <1>0, <2>1, <2>2 DEF AccountOK
<1>12. CASE FilterExcluded(s)
  <2> DEFINE excluded == {w \in Listed(s) : Excluded(s, w)}
             new == {w \in excluded : NamespaceOf[w] = n}
  <2>1. /\ phase[s] = "list" /\ phase'[s] = "scopes"
        /\ threads' = [t \in Thread |-> IF t[1] = s /\ t[3] = 0 /\ t[2] \in excluded
                                        THEN [Idle EXCEPT !.pc = "done"] ELSE threads[t]]
        /\ metrics'[s][n] = [metrics[s][n] EXCEPT
             !["excluded"] = metrics[s][n]["excluded"] + Cardinality(new)]
    BY <1>0, <1>12 DEF FilterExcluded
  <2>2. new \in SUBSET Workload /\ Cardinality(new) \in Nat
    <3>1. new \in SUBSET Workload
      BY DEF Listed
    <3> QED
      BY <3>1, CountedIsFinite
  <2>3. Total(metrics'[s][n]) = Total(metrics[s][n]) + Cardinality(new)
    <3>1. "excluded" \in Counter \ {"parsingNamespace"}
      BY DEF Counter
    <3> DEFINE m == metrics[s][n]
               m2 == metrics'[s][n]
               k == Cardinality(new)
    <3>2. /\ m \in [Counter -> Nat] /\ k \in Nat
          /\ m2 = [m EXCEPT !["excluded"] = m["excluded"] + k]
      BY <1>0, <2>1, <2>2
    <3> HIDE DEF m, m2, k
    <3>3. Total(m2) = Total(m) + k
      BY <3>1, <3>2, TotalGrows
    <3> QED
      BY <3>3 DEF m, m2, k
  <2>4. CountedIn(s, n)' = new
    <3> SUFFICES ASSUME NEW w \in Workload
                 PROVE  threads'[<<s, w, 0>>].pc \in {"done", "children"} <=> w \in excluded
      BY <1>1, <2>2
    <3>1. /\ <<s, w, 0>> \in Thread /\ <<s, w, 0>>[1] = s /\ <<s, w, 0>>[2] = w
          /\ <<s, w, 0>>[3] = 0
      BY OwnThreads
    <3>2. CASE w \in excluded
      <4>1. threads'[<<s, w, 0>>] = [Idle EXCEPT !.pc = "done"]
        BY <2>1, <3>1, <3>2
      <4>2. [Idle EXCEPT !.pc = "done"].pc = "done"
        BY DEF Idle
      <4> QED
        BY <3>2, <4>1, <4>2
    <3>3. CASE w \notin excluded
      <4>1. threads'[<<s, w, 0>>] = threads[<<s, w, 0>>]
        BY <2>1, <3>1, <3>3
      <4>2. threads[<<s, w, 0>>].pc \in {"idle", "listed"}
        BY <2>1 DEF CycleInv, CycleOK
      <4> QED
        BY <3>3, <4>1, <4>2
    <3> QED
      BY <3>2, <3>3
  <2>5. CountedIn(s, n) = {}
    BY <1>5, <2>1
  <2> HIDE DEF new, excluded
  <2> QED
    BY <1>0, <1>2, <1>4, <2>1, <2>2, <2>3, <2>4, <2>5 DEF AccountOK
<1>13. ASSUME NEW r \in Resource, GetWorkloads(s, r)
       PROVE  AccountOK(phase'[s], metrics'[s][n], CountedIn(s, n)')
  <2>1. phase[s] = "list" /\ phase' = phase /\ metrics' = metrics
    BY <1>13 DEF GetWorkloads
  <2> QED
    BY <1>0, <1>5, <2>1
<1>14. ASSUME NEW k \in Namespace, GetNamespaceScope(s, k)
       PROVE  AccountOK(phase'[s], metrics'[s][n], CountedIn(s, n)')
  <2>1. /\ phase' = phase /\ threads' = threads
        /\ \/ metrics'[s][n] = metrics[s][n]
           \/ metrics'[s][n] = [metrics[s][n] EXCEPT !["parsingNamespace"] = 1]
    <3>1. CASE UNCHANGED metrics
      BY <1>14, <3>1 DEF GetNamespaceScope
    <3>2. CASE metrics' = [metrics EXCEPT ![s][k]["parsingNamespace"] = 1] /\ n = k
      BY <1>0, <1>14, <3>2 DEF GetNamespaceScope
    <3>3. CASE metrics' = [metrics EXCEPT ![s][k]["parsingNamespace"] = 1] /\ n # k
      BY <1>0, <1>14, <3>3 DEF GetNamespaceScope
    <3> QED
      BY <1>14, <3>1, <3>2, <3>3 DEF GetNamespaceScope
  <2>2. Total(metrics'[s][n]) = Total(metrics[s][n])
    BY <1>0, <2>1, TotalStays
  <2>3. CountedIn(s, n)' = CountedIn(s, n)
    BY <1>1, <2>1 DEF CountedIn
  <2> QED
    BY <1>0, <2>1, <2>2, <2>3 DEF AccountOK
<1> QED
  BY <1>6, <1>8, <1>9, <1>10, <1>11, <1>12, <1>13, <1>14 DEF ScannerStep

\* Whatever retries, conflicts, failures and children a cycle meets, the counters
\* of a namespace account for every workload that has been scanned, and for
\* nothing else where there are no children.
THEOREM CountersAccount == Spec => []MetricsAccount
<1>1. Init => AccountInv
  <2> SUFFICES ASSUME Init, NEW s \in Scanner, NEW n \in Namespace
               PROVE  AccountOK(phase[s], metrics[s][n], CountedIn(s, n))
    BY DEF AccountInv
  <2>1. metrics[s][n] = NoMetrics[n] /\ \A w \in Workload : threads[<<s, w, 0>>] = Idle
    BY OwnThreads DEF Init
  <2>2. CountedIn(s, n) = {}
    BY <2>1 DEF CountedIn, Idle
  <2>3. Total(NoMetrics[n]) = 0
    BY DEF NoMetrics, Total, Counter
  <2> QED
    BY <2>1, <2>2, <2>3, FS_EmptySet DEF AccountOK
<1>2. ASSUME Inv, CycleInv, CycleInv', Owned = {} => Childless, AccountInv, [Next]_vars
      PROVE  AccountInv'
  <2> SUFFICES ASSUME NEW s \in Scanner, NEW n \in Namespace
               PROVE  AccountOK(phase'[s], metrics'[s][n], CountedIn(s, n)')
    BY DEF AccountInv
  <2>1. CASE \E t \in Thread : ThreadStep(t)
    BY <1>2, <2>1, AccountThread
  <2>2. CASE \E x \in Scanner : ScannerStep(x) \/ Crash(x)
    BY <1>2, <2>2, AccountScanner
  <2>3. CASE UNCHANGED <<phase, threads, metrics>>
    <3>1. CountedIn(s, n)' = CountedIn(s, n)
      BY <2>3 DEF CountedIn
    <3> QED
      BY <1>2, <2>3, <3>1 DEF AccountInv
  <2> QED
    BY <1>2, <2>1, <2>2, <2>3, EverybodyElse DEF Next
<1>3. AccountInv => MetricsAccount
  BY DEF AccountInv, AccountOK, MetricsAccount, Total, CountedIn
<1>4. Spec => [](Owned = {} => Childless)
  <2>1. CASE Owned = {}
    BY <2>1, ChildlessHolds, PTL
  <2>2. CASE Owned # {}
    <3>1. Owned = {} => Childless
      BY <2>2
    <3> QED
      BY <3>1, PTL
  <2> QED
    BY <2>1, <2>2
<1> QED
  BY <1>1, <1>2, <1>3, <1>4, CycleHolds, InvHolds, PTL DEF Spec
=============================================================================
