------------------------ MODULE WorkloadScalingProofs ------------------------
(***************************************************************************)
(* What holds of the objects of the cluster, for any workloads and values: *)
(* they keep their types, scaling settles, an hpa keeps its bounds, the    *)
(* original state of a workload is lost to nothing but another downscale   *)
(* replicas value, and what a scan reports as saved is steady.             *)
(***************************************************************************)
EXTENDS WorkloadScaling, TLAPS

USE DEF Undefined, ReplicaKinds

-----------------------------------------------------------------------------
(* ScaleDown and ScaleUp keep an object of its kind.                       *)

\* What ScaleDown writes is a value of the kind.
LEMMA DownValueType ==
  ASSUME NEW k \in Kinds, NEW o \in Object(k), NEW d \in Targets,
         ScaleDown(o, d).status = "update"
  PROVE  Stored(o, DownValue(o, d)) \in Values(k)
<1>1. o.kind = k
  BY DEF Object
<1>2. CASE k \in {"replicas", "scaledobject"}
  BY <1>1, <1>2, WorkloadAssumption
  DEF ScaleDown, replicaScaleDown, Error, Stored, DownValue, Values
<1>3. CASE k = "hpa"
  BY <1>1, <1>3, WorkloadAssumption
  DEF ScaleDown, replicaScaleDown, Error, Stored, DownValue, Values, Object, Maxima
<1>4. CASE k = "suspend"
  BY <1>1, <1>4 DEF Stored, DownValue, Values
<1>5. CASE k = "nodeselector"
  BY <1>1, <1>5 DEF Stored, DownValue, Values
<1>6. CASE k = "service"
  BY <1>1, <1>6 DEF Stored, DownValue, Values, ServiceTypes
<1>7. CASE k = "class"
  BY <1>1, <1>7, WorkloadAssumption DEF Stored, DownValue, Values
<1>8. CASE k = "pdb"
  BY <1>1, <1>8, WorkloadAssumption DEF Stored, DownValue, Values
<1> QED
  BY <1>2, <1>3, <1>4, <1>5, <1>6, <1>7, <1>8 DEF Kinds

\* What ScaleUp restores is a value of the kind.
LEMMA UpValueType ==
  ASSUME NEW k \in Kinds, NEW o \in Object(k), o.orig # Unset
  PROVE  Stored(o, o.orig) \in Values(k)
<1>1. o.kind = k /\ o.orig \in Values(k) /\ o.max \in Maxima(k)
  BY DEF Object
<1>2. CASE k = "hpa"
  BY <1>1, <1>2, WorkloadAssumption DEF Stored, Values, Maxima
<1>3. CASE k # "hpa"
  BY <1>1, <1>3 DEF Stored
<1> QED
  BY <1>2, <1>3

\* An update by ScaleDown changes the value and the annotation only: the value
\* becomes the downscaled one, the annotation takes the old value.
LEMMA ScaleDownUpdate ==
  ASSUME NEW k \in Kinds, NEW o \in Object(k), NEW d \in Targets,
         ScaleDown(o, d).status = "update"
  PROVE  /\ ScaleDown(o, d).obj =
              [o EXCEPT !.val = Stored(o, DownValue(o, d)), !.orig = o.val]
         /\ ScaleDown(o, d).obj \in Object(k)
         /\ ~IsDown(o, d) /\ o.val # Unset
<1>0. o.kind = k /\ o.val \in Current(k)
  BY DEF Object
<1>1. /\ ScaleDown(o, d) =
           Update(setOriginalReplicas(o.val,
                    [o EXCEPT !.val = Stored(o, DownValue(o, d))]))
      /\ ~IsDown(o, d)
      /\ k \in ReplicaKinds \cup {"class", "pdb"} => o.val # Unset
  <2> USE DEF ScaleDown, AlreadyDown, Replace, Error, Skip, Update
  <2>1. CASE k \in ReplicaKinds
    BY <1>0, <2>1 DEF replicaScaleDown
  <2>2. CASE k = "suspend"
    BY <1>0, <2>2 DEF suspendScaleDown
  <2>3. CASE k = "nodeselector"
    <3>1. ~IsDown(o, d) /\ ScaleDown(o, d) =
            Update(setOriginalReplicas(FALSE, [o EXCEPT !.val = TRUE]))
      BY <1>0, <2>3 DEF nodeSelectorScaleDown
    <3>2. o.val = FALSE /\ Stored(o, DownValue(o, d)) = TRUE
      BY <1>0, <2>3, <3>1 DEF IsDown, DownValue, Stored, Current, Values
    <3> QED
      BY <2>3, <3>1, <3>2
  <2>4. CASE k \in {"service", "class"}
    BY <1>0, <2>4 DEF valueScaleDown
  <2>5. CASE k = "pdb"
    BY <1>0, <2>5 DEF pdbScaleDown
  <2> QED
    BY <2>1, <2>2, <2>3, <2>4, <2>5 DEF Kinds
<1>2. ScaleDown(o, d).obj =
        [o EXCEPT !.val = Stored(o, DownValue(o, d)), !.orig = o.val]
  BY <1>1 DEF Update, setOriginalReplicas, Object
<1>3. Stored(o, DownValue(o, d)) \in Values(k)
  BY DownValueType
<1>4. o.val \in Values(k) /\ o.val # Unset
  BY <1>1, WorkloadAssumption DEF Object, Current
<1>5. ScaleDown(o, d).obj \in Object(k)
  BY <1>2, <1>3, <1>4 DEF Object, Current
<1> QED
  BY <1>1, <1>2, <1>4, <1>5

\* An update by ScaleUp removes the annotation and restores its value, the
\* unsuspended node selector or, for an hpa, at most the maximum.
LEMMA ScaleUpUpdate ==
  ASSUME NEW k \in Kinds, NEW o \in Object(k), ScaleUp(o).status = "update"
  PROVE  /\ ScaleUp(o).obj =
              [o EXCEPT !.val = IF k = "nodeselector" THEN FALSE
                                ELSE Stored(o, o.orig),
                        !.orig = Unset]
         /\ ScaleUp(o).obj \in Object(k)
         /\ o.orig # Unset
<1> DEFINE v == IF k = "nodeselector" THEN FALSE ELSE Stored(o, o.orig)
<1>0. o.kind = k
  BY DEF Object
<1>1. /\ ScaleUp(o).obj = removeOriginalReplicas([o EXCEPT !.val = v])
      /\ o.orig # Unset
  <2> USE DEF ScaleUp, Restore, Error, Skip, Update
  <2>1. CASE k \in ReplicaKinds
    BY <1>0, <2>1 DEF replicaScaleUp
  <2>2. CASE k = "suspend"
    BY <1>0, <2>2 DEF suspendScaleUp
  <2>3. CASE k = "nodeselector"
    BY <1>0, <2>3 DEF nodeSelectorScaleUp
  <2>4. CASE k \in {"service", "class"}
    BY <1>0, <2>4 DEF valueScaleUp
  <2>5. CASE k = "pdb"
    BY <1>0, <2>5 DEF pdbScaleUp
  <2> QED
    BY <2>1, <2>2, <2>3, <2>4, <2>5 DEF Kinds
<1>2. o.orig # Unset
  BY <1>1
<1>3. ScaleUp(o).obj = [o EXCEPT !.val = v, !.orig = Unset]
  BY <1>1 DEF removeOriginalReplicas, Object
<1>4. v \in Values(k)
  <2>1. CASE k = "nodeselector"
    BY <2>1 DEF Values
  <2>2. CASE k # "nodeselector"
    BY <1>2, <2>2, UpValueType
  <2> QED
    BY <2>1, <2>2
<1>5. ScaleUp(o).obj \in Object(k)
  BY <1>3, <1>4 DEF Object, Current
<1> QED
  BY <1>2, <1>3, <1>5

-----------------------------------------------------------------------------
(* Type correctness.                                                       *)

\* Every step of the downscaler and of everybody else leaves objects of their
\* kind.
LEMMA TypeStep ==
  ASSUME TypeOK, [Next]_vars
  PROVE  TypeOK'
<1>1. CASE UNCHANGED vars
  BY <1>1 DEF TypeOK, vars
<1> SUFFICES ASSUME NEW w \in Workload,
                    \/ \E d \in Targets : Downscale(w, d)
                    \/ Upscale(w)
                    \/ SetValue(w)
                    \/ Annotate(w)
                    \/ SetActive(w)
                    \/ Delete(w)
                    \/ \E created \in CreationTimes : Create(w, created)
             PROVE  TypeOK'
  BY <1>1 DEF Next
<1> DEFINE k == objs[w].kind
<1>2. k \in KindsOf[w] /\ k \in Kinds /\ objs[w] \in Object(k)
  BY WorkloadAssumption DEF TypeOK
<1>3. ASSUME NEW d \in Targets, Downscale(w, d) PROVE TypeOK'
  <2>1. objs' = [objs EXCEPT ![w] = ScaleDown(objs[w], d).obj] /\ chosen' = chosen
    BY <1>3 DEF Downscale
  <2>2. ScaleDown(objs[w], d).obj \in Object(k)
    BY <1>2, <1>3, ScaleDownUpdate DEF Downscale
  <2>3. ScaleDown(objs[w], d).obj.kind = k
    BY <2>2 DEF Object
  <2> QED
    BY <1>2, <2>1, <2>2, <2>3 DEF TypeOK
<1>4. CASE Upscale(w)
  <2>1. objs' = [objs EXCEPT ![w] = ScaleUp(objs[w]).obj] /\ chosen' = chosen
    BY <1>4 DEF Upscale
  <2>2. ScaleUp(objs[w]).obj \in Object(k)
    BY <1>2, <1>4, ScaleUpUpdate DEF Upscale
  <2>3. ScaleUp(objs[w]).obj.kind = k
    BY <2>2 DEF Object
  <2> QED
    BY <1>2, <2>1, <2>2, <2>3 DEF TypeOK
<1>5. CASE SetValue(w)
  <2>1. PICK v \in UserValues[k], m \in Maxima(k) :
          /\ objs' = [objs EXCEPT ![w].val = v, ![w].max = m]
          /\ chosen' = [chosen EXCEPT ![w] = @ \cup {v, m}]
    BY <1>5 DEF SetValue
  <2>2. objs'[w] = [objs[w] EXCEPT !.val = v, !.max = m]
    BY <2>1 DEF TypeOK, Object
  <2>3. v \in Current(k) /\ v \in Values(k) \cup {Unset}
    BY <1>2, WorkloadAssumption DEF Current
  <2>4. objs'[w] \in Object(k) /\ objs'[w].kind = k
    BY <1>2, <2>2, <2>3 DEF Object
  <2> QED
    BY <1>2, <2>1, <2>3, <2>4 DEF TypeOK
<1>6. CASE Annotate(w)
  <2>1. PICK a \in Annotations : objs' = [objs EXCEPT ![w].scope = a]
    BY <1>6 DEF Annotate
  <2>2. objs'[w] \in Object(k) /\ objs'[w].kind = k
    BY <1>2, <2>1 DEF TypeOK, Object
  <2> QED
    BY <1>2, <1>6, <2>1, <2>2 DEF TypeOK, Annotate
<1>7. CASE SetActive(w)
  <2>1. PICK jobs \in SUBSET Children[w] : objs' = [objs EXCEPT ![w].active = jobs]
    BY <1>7 DEF SetActive
  <2>2. objs'[w] \in Object(k) /\ objs'[w].kind = k
    BY <1>2, <2>1, WorkloadAssumption DEF TypeOK, Object
  <2> QED
    BY <1>2, <1>7, <2>1, <2>2 DEF TypeOK, SetActive
<1>8. CASE Delete(w)
  <2>1. objs'[w] \in Object(k) /\ objs'[w].kind = k
    BY <1>2, <1>8 DEF TypeOK, Object, Delete
  <2> QED
    BY <1>2, <1>8, <2>1 DEF TypeOK, Delete
<1>9. ASSUME NEW created \in CreationTimes, Create(w, created) PROVE TypeOK'
  <2>0. PICK l \in KindsOf[w] :
          \E v \in UserValues[l], m \in Maxima(l), a \in Annotations :
            /\ l = "hpa" => v <= m
            /\ objs' = [objs EXCEPT ![w] = NewObject(l, v, m, a, created)]
            /\ chosen' = [chosen EXCEPT ![w] = {v, m}]
    BY <1>9, Zenon DEF Create
  <2>1. PICK v \in UserValues[l], m \in Maxima(l), a \in Annotations :
          /\ objs' = [objs EXCEPT ![w] = NewObject(l, v, m, a, created)]
          /\ chosen' = [chosen EXCEPT ![w] = {v, m}]
    BY <2>0
  <2>2. l \in Kinds /\ v \in Current(l) /\ v \in Values(l) \cup {Unset}
    BY WorkloadAssumption DEF Current
  <2>3. objs'[w] \in Object(l) /\ objs'[w].kind = l
    BY <2>1, <2>2 DEF TypeOK, Object, NewObject
  <2> QED
    BY <2>1, <2>2, <2>3 DEF TypeOK
<1> QED
  BY <1>3, <1>4, <1>5, <1>6, <1>7, <1>8, <1>9

\* The objects of the cluster stay objects of their kind under every step of
\* the downscaler and of everybody else.
THEOREM TypeCorrect == Spec => []TypeOK
<1>1. Init => TypeOK
  BY WorkloadAssumption
  DEF Init, TypeOK, ChosenIn, Object, Current
<1>2. TypeOK /\ [Next]_vars => TypeOK'
  BY TypeStep
<1> QED
  BY <1>1, <1>2, PTL DEF Spec

-----------------------------------------------------------------------------
(* The original state.                                                     *)

\* What ScaleDown has written counts as down for the value it was written for.
LEMMA DownAfterScaleDown ==
  ASSUME NEW k \in Kinds, NEW o \in Object(k), NEW d \in Targets,
         ScaleDown(o, d).status = "update"
  PROVE  IsDown(ScaleDown(o, d).obj, d)
<1> DEFINE n == ScaleDown(o, d).obj
<1>1. /\ n = [o EXCEPT !.val = Stored(o, DownValue(o, d)), !.orig = o.val]
      /\ n \in Object(k)
  BY ScaleDownUpdate
<1>2. n.kind = k /\ o.kind = k /\ n.val = Stored(o, DownValue(o, d))
  BY <1>1 DEF Object
<1>3. CASE k \in ReplicaKinds
  <2>1. d \in Nat
    BY <1>2, <1>3, WorkloadAssumption DEF ScaleDown, replicaScaleDown, Error
  <2>2. k = "hpa" => o.max \in Nat
    BY WorkloadAssumption DEF Object, Maxima
  <2>3. n.val = IF k = "hpa" /\ d > o.max THEN o.max ELSE d
    BY <1>2, <1>3 DEF Stored, DownValue
  <2>4. n.val \in Nat /\ n.val <= d
    BY <2>1, <2>2, <2>3
  <2>5. n.val # Undefined /\ n.val <= d
    BY <2>4
  <2> QED
    BY <1>2, <1>3, <2>5 DEF IsDown
<1>4. CASE k \notin ReplicaKinds
  <2>1. n.val = DownValue(o, d)
    BY <1>2, <1>4 DEF Stored
  <2>2. DownValue(n, d) = DownValue(o, d)
    BY <1>2 DEF DownValue
  <2> QED
    BY <1>2, <1>4, <2>1, <2>2 DEF IsDown
<1> QED
  BY <1>3, <1>4

\* Whether a value is down depends on the kind and the value only.
LEMMA IsDownDepends ==
  ASSUME NEW o, NEW n, NEW d, n.kind = o.kind, n.val = o.val, IsDown(o, d)
  PROVE  IsDown(n, d)
BY DEF IsDown, DownValue

\* What ScaleDown has written is superseded, if the configuration has a value that
\* would replace it, or else down for every target.
LEMMA DownOrSuperseded ==
  ASSUME NEW k \in Kinds, NEW o \in Object(k), NEW d \in Targets,
         ScaleDown(o, d).status = "update"
  PROVE  LET n == ScaleDown(o, d).obj
         IN \/ n.val \in {o.max} \cup Superseded(k)
            \/ \A e \in Applicable(k) : IsDown(n, e)
<1> DEFINE n == ScaleDown(o, d).obj
<1>1. /\ n = [o EXCEPT !.val = Stored(o, DownValue(o, d)), !.orig = o.val]
      /\ n \in Object(k)
  BY ScaleDownUpdate
<1>2. n.kind = k /\ o.kind = k /\ n.val = Stored(o, DownValue(o, d))
  BY <1>1 DEF Object
<1>3. k = "hpa" => o.max \in Nat
  BY WorkloadAssumption DEF Object, Maxima
<1> HIDE DEF n
<1>4. CASE k \in ReplicaKinds
  <2>1. d \in Nat /\ d \in Applicable(k)
    BY <1>2, <1>4, WorkloadAssumption DEF ScaleDown, replicaScaleDown, Error, Applicable
  <2>2. n.val = IF k = "hpa" /\ d > o.max THEN o.max ELSE d
    BY <1>2, <1>4 DEF Stored, DownValue
  <2>3. CASE \E e \in Applicable(k) : e < d
    <3>1. d \in Superseded(k)
      BY <1>4, <2>1, <2>3 DEF Superseded
    <3> QED
      BY <2>2, <3>1 DEF n
  <2>4. CASE ~\E e \in Applicable(k) : e < d
    <3>1. \A e \in Applicable(k) : e \in Nat /\ d <= e
      BY <1>4, <2>1, <2>4, WorkloadAssumption DEF Applicable
    <3>2. n.val \in Nat /\ n.val <= d
      BY <1>3, <2>1, <2>2
    <3>3. n.val # Undefined /\ \A e \in Applicable(k) : n.val <= e
      BY <2>1, <3>1, <3>2
    <3>4. \A e \in Applicable(k) : IsDown(n, e)
      BY <1>2, <1>4, <3>3 DEF IsDown
    <3> QED
      BY <3>4 DEF n
  <2> QED
    BY <2>3, <2>4
<1>5. CASE k = "pdb"
  <2>1. n.val = d /\ d \in Applicable(k) /\ Applicable(k) = Targets
    BY <1>2, <1>5 DEF Stored, DownValue, Applicable
  <2>2. d \in Superseded(k) \/ \A e \in Applicable(k) : e = d
    BY <1>5, <2>1 DEF Superseded
  <2>3. (\A e \in Applicable(k) : e = d) => \A e \in Applicable(k) : IsDown(n, e)
    BY <1>2, <1>5, <2>1 DEF IsDown, DownValue
  <2> QED
    BY <2>1, <2>2, <2>3 DEF n
<1>6. CASE k \notin ReplicaKinds \cup {"pdb"}
  <2>1. \A e \in Applicable(k) : DownValue(n, e) = n.val
    BY <1>2, <1>6 DEF Stored, DownValue, Kinds
  <2>2. \A e \in Applicable(k) : IsDown(n, e)
    BY <1>2, <1>6, <2>1 DEF IsDown
  <2> QED
    BY <2>2 DEF n
<1> QED
  BY <1>4, <1>5, <1>6

\* A step of the downscaler keeps the original state of the object it updates.
LEMMA DownscaleKeeps ==
  ASSUME NEW k \in Kinds, NEW o \in Object(k), NEW d \in Targets, NEW c,
         ObjectInv(o, c), ScaleDown(o, d).status = "update"
  PROVE  ObjectInv(ScaleDown(o, d).obj, c)
<1> DEFINE n == ScaleDown(o, d).obj
<1>1. /\ n = [o EXCEPT !.val = Stored(o, DownValue(o, d)), !.orig = o.val]
      /\ n \in Object(k) /\ ~IsDown(o, d) /\ o.val # Unset
  BY ScaleDownUpdate
<1>2. n.kind = k /\ o.kind = k /\ n.orig = o.val /\ n.max = o.max
  BY <1>1 DEF Object
<1>3. \/ n.val \in {o.max} \cup Superseded(k)
      \/ \A e \in Applicable(k) : IsDown(n, e)
  BY DownOrSuperseded
<1>4. o.val \in c \cup Superseded(k)
  <2>1. d \in Applicable(k)
    BY <1>2 DEF ScaleDown, replicaScaleDown, Error, Applicable
  <2> QED
    BY <1>1, <1>2, <2>1 DEF ObjectInv
<1>5. k = "nodeselector" => o.val = FALSE
  BY <1>1, <1>2 DEF IsDown, DownValue, Object, Current, Values
<1> HIDE DEF n
<1>6. ObjectInv(n, c)
  BY <1>1, <1>2, <1>3, <1>4, <1>5 DEF ObjectInv
<1> QED
  BY <1>6 DEF n

\* An upscale of any object leaves nothing for a later scan to lose either: what it
\* restores was chosen by somebody else, or superseded.
LEMMA UpscaleKeeps ==
  ASSUME NEW k \in Kinds, NEW o \in Object(k), NEW c,
         ObjectInv(o, c), ScaleUp(o).status = "update"
  PROVE  ObjectInv(ScaleUp(o).obj, c)
<1> DEFINE n == ScaleUp(o).obj
           v == IF k = "nodeselector" THEN FALSE ELSE Stored(o, o.orig)
<1>1. /\ n = [o EXCEPT !.val = v, !.orig = Unset]
      /\ n \in Object(k) /\ o.orig # Unset
  BY ScaleUpUpdate
<1>2. n.kind = k /\ o.kind = k /\ n.orig = Unset /\ n.max = o.max /\ n.val = v
  BY <1>1 DEF Object
<1>3. v \in c \cup Superseded(k)
  BY <1>1, <1>2 DEF ObjectInv, Stored
<1> QED
  BY <1>2, <1>3 DEF ObjectInv

\* No step loses the original state of a workload.
LEMMA OriginalStep ==
  ASSUME TypeOK, OriginalInv, [Next]_vars
  PROVE  OriginalInv'
<1>1. CASE UNCHANGED vars
  BY <1>1 DEF OriginalInv, vars
<1> SUFFICES ASSUME NEW w \in Workload,
                    \/ \E d \in Targets : Downscale(w, d)
                    \/ Upscale(w)
                    \/ SetValue(w)
                    \/ Annotate(w)
                    \/ SetActive(w)
                    \/ Delete(w)
                    \/ \E created \in CreationTimes : Create(w, created)
             PROVE  OriginalInv'
  BY <1>1 DEF Next
<1> DEFINE k == objs[w].kind
           o == objs[w]
           n == objs'[w]
<1>2. /\ k \in Kinds /\ o \in Object(k)
      /\ ObjectInv(o, chosen[w])
      /\ DOMAIN objs = Workload /\ DOMAIN chosen = Workload
  BY WorkloadAssumption DEF TypeOK, OriginalInv
\* The step changes w only, so it is enough to look at w.
<1>3. ASSUME \A x \in Workload \ {w} : objs'[x] = objs[x] /\ chosen'[x] = chosen[x],
             ObjectInv(objs'[w], chosen'[w])
      PROVE  OriginalInv'
  BY <1>3 DEF OriginalInv
<1>4. ASSUME NEW d \in Targets, Downscale(w, d) PROVE OriginalInv'
  <2>1. /\ objs' = [objs EXCEPT ![w] = ScaleDown(o, d).obj] /\ chosen' = chosen
        /\ ScaleDown(o, d).status = "update"
    BY <1>4 DEF Downscale
  <2>2. n = ScaleDown(o, d).obj
    BY <1>2, <2>1
  <2>3. ObjectInv(ScaleDown(o, d).obj, chosen[w])
    BY <1>2, <2>1, DownscaleKeeps
  <2> QED
    BY <1>2, <1>3, <2>1, <2>2, <2>3
<1>5. CASE Upscale(w)
  <2>1. /\ objs' = [objs EXCEPT ![w] = ScaleUp(o).obj] /\ chosen' = chosen
        /\ ScaleUp(o).status = "update"
    BY <1>5 DEF Upscale
  <2>2. n = ScaleUp(o).obj
    BY <1>2, <2>1
  <2>3. ObjectInv(ScaleUp(o).obj, chosen[w])
    BY <1>2, <2>1, UpscaleKeeps
  <2> QED
    BY <1>2, <1>3, <2>1, <2>2, <2>3
<1>6. CASE SetValue(w)
  <2>1. PICK v \in UserValues[k], m \in Maxima(k) :
          /\ objs' = [objs EXCEPT ![w].val = v, ![w].max = m]
          /\ chosen' = [chosen EXCEPT ![w] = @ \cup {v, m}]
    BY <1>6 DEF SetValue
  <2>2. n = [o EXCEPT !.val = v, !.max = m] /\ chosen'[w] = chosen[w] \cup {v, m}
    BY <1>2, <2>1 DEF Object
  <2>3. ObjectInv(n, chosen'[w])
    BY <1>2, <2>2 DEF ObjectInv, Object
  <2> QED
    BY <1>2, <1>3, <2>1, <2>3
<1>7. CASE Annotate(w) \/ SetActive(w) \/ Delete(w)
  <2>1. /\ n.kind = o.kind /\ n.val = o.val /\ n.orig = o.orig /\ n.max = o.max
        /\ chosen' = chosen
        /\ \A x \in Workload \ {w} : objs'[x] = objs[x]
    BY <1>2, <1>7 DEF Annotate, SetActive, Delete, Object
  <2>2. \A d \in Applicable(o.kind) : IsDown(o, d) => IsDown(n, d)
    BY <2>1, IsDownDepends
  <2>3. ObjectInv(n, chosen'[w])
    BY <1>2, <2>1, <2>2 DEF ObjectInv
  <2> QED
    BY <1>3, <2>1, <2>3
<1>8. ASSUME NEW created \in CreationTimes, Create(w, created) PROVE OriginalInv'
  <2>0. PICK l \in KindsOf[w] :
          \E v \in UserValues[l], m \in Maxima(l), a \in Annotations :
            /\ l = "hpa" => v <= m
            /\ objs' = [objs EXCEPT ![w] = NewObject(l, v, m, a, created)]
            /\ chosen' = [chosen EXCEPT ![w] = {v, m}]
    BY <1>8, Zenon DEF Create
  <2>1. PICK v \in UserValues[l], m \in Maxima(l), a \in Annotations :
          /\ objs' = [objs EXCEPT ![w] = NewObject(l, v, m, a, created)]
          /\ chosen' = [chosen EXCEPT ![w] = {v, m}]
    BY <2>0
  <2>2. ObjectInv(n, chosen'[w])
    BY <1>2, <2>1 DEF ObjectInv, NewObject
  <2> QED
    BY <1>2, <1>3, <2>1, <2>2
<1> QED
  BY <1>4, <1>5, <1>6, <1>7, <1>8

\* No step leaves a workload in a state from which a later scan would lose the
\* original to anything but a changed downscale replicas value.
THEOREM OriginalInvariant == Spec => []OriginalInv
<1>1. Init => OriginalInv
  <2> SUFFICES ASSUME Init, NEW w \in Workload
               PROVE  ObjectInv(objs[w], chosen[w])
    BY DEF OriginalInv
  <2>1. objs[w] = InitialObjects[w] /\ chosen[w] = ChosenIn(objs[w])
    BY DEF Init
  <2> QED
    BY <2>1, WorkloadAssumption DEF ObjectInv, ChosenIn
<1>2. TypeOK /\ OriginalInv /\ [Next]_vars => OriginalInv'
  BY OriginalStep
<1> QED
  BY <1>1, <1>2, TypeCorrect, PTL DEF Spec

\* No sequence of downscales, upscales and edits in between loses the value that
\* somebody else gave to a workload, except to a downscaled value that a lower
\* downscale replicas value (for a budget: another one) has superseded.
THEOREM OriginalKept == Spec => []OriginalChosen
<1>1. OriginalInv => OriginalChosen
  BY DEF OriginalInv, OriginalChosen, ObjectInv
<1> QED
  BY <1>1, OriginalInvariant, PTL

\* With a single downscale replicas value no value is superseded: the original
\* state is never lost.
THEOREM NothingSuperseded ==
  ASSUME \A d, e \in Targets : d = e, NEW k \in Kinds
  PROVE  Superseded(k) = {}
<1>1. ASSUME NEW d \in Applicable(k), NEW e \in Applicable(k),
             IF k \in ReplicaKinds THEN e < d ELSE k = "pdb" /\ e # d
      PROVE  FALSE
  <2>1. d = e /\ (k \in ReplicaKinds => d \in Nat)
    BY <1>1, WorkloadAssumption DEF Applicable
  <2> QED
    BY <1>1, <2>1
<1> QED
  BY <1>1 DEF Superseded

-----------------------------------------------------------------------------
(* Scanning settles.                                                       *)

\* Whatever the targets and the objects are, scaling an object twice in the same
\* direction updates it at most once: what ScaleDown has written counts as down,
\* and ScaleUp has nothing left to restore.
THEOREM ScanningSettles == Spec => []Settles
<1>1. TypeOK => Settles
  <2> SUFFICES ASSUME TypeOK, NEW w \in Workload
               PROVE  /\ \A d \in Targets :
                           ScaleDown(objs[w], d).status = "update" =>
                             ScaleDown(ScaleDown(objs[w], d).obj, d).status # "update"
                      /\ ScaleUp(objs[w]).status = "update" =>
                           ScaleUp(ScaleUp(objs[w]).obj).status # "update"
    BY DEF Settles
  <2> DEFINE k == objs[w].kind
             o == objs[w]
  <2>1. k \in Kinds /\ o \in Object(k)
    BY WorkloadAssumption DEF TypeOK
  <2> HIDE DEF k, o
  <2>2. ASSUME NEW d \in Targets, ScaleDown(o, d).status = "update"
        PROVE  ScaleDown(ScaleDown(o, d).obj, d).status # "update"
    <3> DEFINE n == ScaleDown(o, d).obj
    <3>1. n \in Object(k)
      BY <2>1, <2>2, ScaleDownUpdate
    <3>2. IsDown(n, d)
      BY <2>1, <2>2, DownAfterScaleDown
    <3> HIDE DEF n
    <3>3. ScaleDown(n, d).status # "update"
      BY <2>1, <3>1, <3>2, ScaleDownUpdate
    <3> QED
      BY <3>3 DEF n
  <2>3. ASSUME ScaleUp(o).status = "update"
        PROVE  ScaleUp(ScaleUp(o).obj).status # "update"
    <3> DEFINE n == ScaleUp(o).obj
    <3>0. /\ n = [o EXCEPT !.val = IF k = "nodeselector" THEN FALSE ELSE Stored(o, o.orig),
                           !.orig = Unset]
          /\ n \in Object(k)
      BY <2>1, <2>3, ScaleUpUpdate
    <3> HIDE DEF n
    <3>1. n \in Object(k) /\ n.orig = Unset
      BY <2>1, <3>0 DEF Object
    <3>2. ScaleUp(n).status # "update"
      BY <2>1, <3>1, ScaleUpUpdate
    <3> QED
      BY <3>2 DEF n
  <2> QED
    BY <2>2, <2>3 DEF o
<1> QED
  BY <1>1, TypeCorrect, PTL

-----------------------------------------------------------------------------
(* The bounds of an hpa.                                                   *)

\* What the API server accepts for the minimum of an hpa from somebody else.
HpaWithin(o) == o.kind = "hpa" => o.val >= 1 /\ o.val <= o.max

\* ScaleDown writes a minimum of at least 1, whatever the downscale replicas are,
\* and at most the maximum.
LEMMA ScaleDownWithin ==
  ASSUME NEW k \in Kinds, NEW o \in Object(k), NEW d \in Targets,
         ScaleDown(o, d).status = "update"
  PROVE  HpaWithin(ScaleDown(o, d).obj)
<1> DEFINE n == ScaleDown(o, d).obj
<1>1. /\ n = [o EXCEPT !.val = Stored(o, DownValue(o, d)), !.orig = o.val]
      /\ n \in Object(k)
  BY ScaleDownUpdate
<1>2. n.kind = k /\ o.kind = k /\ n.val = Stored(o, DownValue(o, d)) /\ n.max = o.max
  BY <1>1 DEF Object
<1>3. CASE k = "hpa"
  <2>1. d \in Nat
    BY <1>2, <1>3, WorkloadAssumption DEF ScaleDown, replicaScaleDown, Error
  <2>2. d >= 1
    BY <1>2, <1>3, <2>1 DEF ScaleDown, replicaScaleDown, Error, Skip, AlreadyDown, Replace,
                            Settable, DownValue
  <2>3. o.max \in Nat /\ o.max >= 1
    <3>1. o.max \in UserMaxima
      BY <1>3 DEF Object, Maxima
    <3>2. o.max \in Nat \ {0}
      BY <3>1, WorkloadAssumption
    <3> QED
      BY <3>2
  <2>4. n.val = IF d > o.max THEN o.max ELSE d
    BY <1>2, <1>3 DEF Stored, DownValue
  <2> QED
    BY <1>2, <2>1, <2>2, <2>3, <2>4 DEF HpaWithin
<1> QED
  BY <1>2, <1>3 DEF HpaWithin

\* ScaleUp restores a minimum within the bounds, whatever the annotation says and
\* however the maximum was lowered since.
LEMMA ScaleUpWithin ==
  ASSUME NEW k \in Kinds, NEW o \in Object(k), ScaleUp(o).status = "update"
  PROVE  HpaWithin(ScaleUp(o).obj)
<1> DEFINE n == ScaleUp(o).obj
<1>1. /\ n = [o EXCEPT !.val = IF k = "nodeselector" THEN FALSE ELSE Stored(o, o.orig),
                       !.orig = Unset]
      /\ n \in Object(k) /\ o.orig # Unset
  BY ScaleUpUpdate
<1>2. /\ n.kind = k /\ o.kind = k /\ n.max = o.max
      /\ k = "hpa" => n.val = Stored(o, o.orig)
  BY <1>1 DEF Object
<1>3. CASE k = "hpa"
  <2>1. o.orig \in Nat
    BY <1>1, <1>3 DEF Object, Values
  <2>2. o.orig >= 1
    BY <1>2, <1>3, <2>1 DEF ScaleUp, replicaScaleUp, Restore, Error, Skip, Settable
  <2>3. o.max \in Nat /\ o.max >= 1
    <3>1. o.max \in UserMaxima
      BY <1>3 DEF Object, Maxima
    <3>2. o.max \in Nat \ {0}
      BY <3>1, WorkloadAssumption
    <3> QED
      BY <3>2
  <2>4. n.val = IF o.orig > o.max THEN o.max ELSE o.orig
    BY <1>2, <1>3 DEF Stored
  <2> QED
    BY <1>2, <2>1, <2>2, <2>3, <2>4 DEF HpaWithin
<1> QED
  BY <1>2, <1>3 DEF HpaWithin

\* No step takes an hpa out of its bounds, if nobody else asks for a minimum that
\* the API server refuses.
LEMMA HpaStep ==
  ASSUME UserValues["hpa"] \subseteq Nat \ {0}, TypeOK, HpaWithinBounds, [Next]_vars
  PROVE  HpaWithinBounds'
<1>0. HpaWithinBounds <=> \A w \in Workload : HpaWithin(objs[w])
  BY DEF HpaWithinBounds, HpaWithin
<1>1. CASE UNCHANGED vars
  BY <1>1 DEF HpaWithinBounds, vars
<1> SUFFICES ASSUME NEW w \in Workload,
                    \/ \E d \in Targets : Downscale(w, d)
                    \/ Upscale(w)
                    \/ SetValue(w)
                    \/ Annotate(w)
                    \/ SetActive(w)
                    \/ Delete(w)
                    \/ \E created \in CreationTimes : Create(w, created)
             PROVE  HpaWithinBounds'
  BY <1>1 DEF Next
<1> DEFINE k == objs[w].kind
           o == objs[w]
           n == objs'[w]
<1>2. k \in Kinds /\ o \in Object(k) /\ HpaWithin(o) /\ DOMAIN objs = Workload
  BY <1>0, WorkloadAssumption DEF TypeOK
\* The step changes w only, so it is enough to look at w.
<1>3. ASSUME \A x \in Workload \ {w} : objs'[x] = objs[x], HpaWithin(objs'[w])
      PROVE  HpaWithinBounds'
  BY <1>3 DEF HpaWithinBounds, HpaWithin
<1>4. ASSUME NEW d \in Targets, Downscale(w, d) PROVE HpaWithinBounds'
  <2>1. /\ objs' = [objs EXCEPT ![w] = ScaleDown(o, d).obj]
        /\ ScaleDown(o, d).status = "update"
    BY <1>4 DEF Downscale
  <2>2. HpaWithin(ScaleDown(o, d).obj)
    BY <1>2, <2>1, ScaleDownWithin
  <2> QED
    BY <1>2, <1>3, <2>1, <2>2
<1>5. CASE Upscale(w)
  <2>1. /\ objs' = [objs EXCEPT ![w] = ScaleUp(o).obj]
        /\ ScaleUp(o).status = "update"
    BY <1>5 DEF Upscale
  <2>2. HpaWithin(ScaleUp(o).obj)
    BY <1>2, <2>1, ScaleUpWithin
  <2> QED
    BY <1>2, <1>3, <2>1, <2>2
<1>6. CASE SetValue(w)
  <2>1. PICK v \in UserValues[k], m \in Maxima(k) :
          /\ k = "hpa" => v <= m
          /\ objs' = [objs EXCEPT ![w].val = v, ![w].max = m]
    BY <1>6 DEF SetValue
  <2>2. n.kind = k /\ n.val = v /\ n.max = m
    BY <1>2, <2>1 DEF Object
  <2>3. HpaWithin(n)
    BY <2>1, <2>2 DEF HpaWithin
  <2> QED
    BY <1>2, <1>3, <2>1, <2>3
<1>7. CASE Annotate(w) \/ SetActive(w) \/ Delete(w)
  <2>1. /\ n.kind = o.kind /\ n.val = o.val /\ n.max = o.max
        /\ \A x \in Workload \ {w} : objs'[x] = objs[x]
    BY <1>2, <1>7 DEF Annotate, SetActive, Delete, Object
  <2>2. HpaWithin(n)
    BY <1>2, <2>1 DEF HpaWithin
  <2> QED
    BY <1>3, <2>1, <2>2
<1>8. ASSUME NEW created \in CreationTimes, Create(w, created) PROVE HpaWithinBounds'
  <2>0. PICK l \in KindsOf[w] :
          \E v \in UserValues[l], m \in Maxima(l), a \in Annotations :
            /\ l = "hpa" => v <= m
            /\ objs' = [objs EXCEPT ![w] = NewObject(l, v, m, a, created)]
            /\ chosen' = [chosen EXCEPT ![w] = {v, m}]
    BY <1>8, Zenon DEF Create
  <2>1. PICK v \in UserValues[l], m \in Maxima(l), a \in Annotations :
          /\ l = "hpa" => v <= m
          /\ objs' = [objs EXCEPT ![w] = NewObject(l, v, m, a, created)]
    BY <2>0
  <2>2. n.kind = l /\ n.val = v /\ n.max = m
    BY <1>2, <2>1 DEF NewObject
  <2>3. HpaWithin(n)
    BY <2>1, <2>2 DEF HpaWithin
  <2> QED
    BY <1>2, <1>3, <2>1, <2>3
<1> QED
  BY <1>4, <1>5, <1>6, <1>7, <1>8

\* The minimum of an hpa stays within 1 and its maximum, whatever the downscale
\* replicas are, whatever the annotation says and however the maximum is lowered
\* while the hpa is scaled down, if everybody else asks for minima that the API
\* server accepts.
THEOREM HpaStaysWithinBounds ==
  ASSUME UserValues["hpa"] \subseteq Nat \ {0},
         \A w \in Workload : HpaWithin(InitialObjects[w])
  PROVE  Spec => []HpaWithinBounds
<1>1. Init => HpaWithinBounds
  BY DEF Init, HpaWithinBounds, HpaWithin
<1>2. TypeOK /\ HpaWithinBounds /\ [Next]_vars => HpaWithinBounds'
  BY HpaStep
<1> QED
  BY <1>1, <1>2, TypeCorrect, PTL DEF Spec

-----------------------------------------------------------------------------
(* The saved resources.                                                    *)

\* The original replicas of a workload are above the target for which ScaleDown
\* recorded them.
OriginalIsAbove(o) ==
  o.kind = "replicas" /\ o.orig # Unset => \E e \in Applicable(o.kind) : e < o.orig

SavingsInv == \A w \in Workload : OriginalIsAbove(objs[w])

\* ScaleDown records an original above its target.
LEMMA DownscaleRecordsAbove ==
  ASSUME NEW k \in Kinds, NEW o \in Object(k), NEW d \in Targets,
         ScaleDown(o, d).status = "update"
  PROVE  OriginalIsAbove(ScaleDown(o, d).obj)
<1> DEFINE n == ScaleDown(o, d).obj
<1>1. /\ n = [o EXCEPT !.val = Stored(o, DownValue(o, d)), !.orig = o.val]
      /\ n \in Object(k) /\ ~IsDown(o, d) /\ o.val # Unset
  BY ScaleDownUpdate
<1>2. n.kind = k /\ o.kind = k /\ n.orig = o.val
  BY <1>1 DEF Object
<1> HIDE DEF n
<1>3. CASE k = "replicas"
  <2>1. d \in Nat /\ d \in Applicable(k)
    BY <1>2, <1>3, WorkloadAssumption DEF ScaleDown, replicaScaleDown, Error, Applicable
  <2>2. o.val \in Nat
    BY <1>1, <1>3 DEF Object, Current, Values
  <2>3. d < o.val
    BY <1>1, <1>2, <1>3, <2>1, <2>2 DEF IsDown
  <2>4. OriginalIsAbove(n)
    BY <1>2, <2>1, <2>3 DEF OriginalIsAbove
  <2> QED
    BY <2>4 DEF n
<1>4. CASE k # "replicas"
  <2>1. OriginalIsAbove(n)
    BY <1>2, <1>4 DEF OriginalIsAbove
  <2> QED
    BY <2>1 DEF n
<1> QED
  BY <1>3, <1>4

\* No step records an original at or below its target: the annotation is written
\* by ScaleDown only.
LEMMA SavingsStep ==
  ASSUME TypeOK, SavingsInv, [Next]_vars
  PROVE  SavingsInv'
<1>1. CASE UNCHANGED vars
  BY <1>1 DEF SavingsInv, vars
<1> SUFFICES ASSUME NEW w \in Workload,
                    \/ \E d \in Targets : Downscale(w, d)
                    \/ Upscale(w)
                    \/ SetValue(w)
                    \/ Annotate(w)
                    \/ SetActive(w)
                    \/ Delete(w)
                    \/ \E created \in CreationTimes : Create(w, created)
             PROVE  SavingsInv'
  BY <1>1 DEF Next
<1> DEFINE k == objs[w].kind
           o == objs[w]
           n == objs'[w]
<1>2. k \in Kinds /\ o \in Object(k) /\ OriginalIsAbove(o) /\ DOMAIN objs = Workload
  BY WorkloadAssumption DEF TypeOK, SavingsInv
\* The step changes w only, so it is enough to look at w.
<1>3. ASSUME \A x \in Workload \ {w} : objs'[x] = objs[x], OriginalIsAbove(objs'[w])
      PROVE  SavingsInv'
  BY <1>3 DEF SavingsInv
<1>4. ASSUME NEW d \in Targets, Downscale(w, d) PROVE SavingsInv'
  <2>1. /\ objs' = [objs EXCEPT ![w] = ScaleDown(o, d).obj]
        /\ ScaleDown(o, d).status = "update"
    BY <1>4 DEF Downscale
  <2>2. OriginalIsAbove(ScaleDown(o, d).obj)
    BY <1>2, <2>1, DownscaleRecordsAbove
  <2> QED
    BY <1>2, <1>3, <2>1, <2>2
<1>5. CASE Upscale(w)
  <2>1. /\ objs' = [objs EXCEPT ![w] = ScaleUp(o).obj]
        /\ ScaleUp(o).status = "update"
    BY <1>5 DEF Upscale
  <2>2. ScaleUp(o).obj = [o EXCEPT !.val = IF k = "nodeselector" THEN FALSE
                                           ELSE Stored(o, o.orig),
                                   !.orig = Unset]
    BY <1>2, <2>1, ScaleUpUpdate
  <2>3. n.orig = Unset
    BY <1>2, <2>1, <2>2 DEF Object
  <2>4. OriginalIsAbove(n)
    BY <2>3 DEF OriginalIsAbove
  <2> QED
    BY <1>2, <1>3, <2>1, <2>4
<1>6. CASE SetValue(w) \/ Annotate(w) \/ SetActive(w) \/ Delete(w)
  <2>1. /\ n.kind = o.kind /\ n.orig = o.orig
        /\ \A x \in Workload \ {w} : objs'[x] = objs[x]
    BY <1>2, <1>6 DEF SetValue, Annotate, SetActive, Delete, Object
  <2>2. OriginalIsAbove(n)
    BY <1>2, <2>1 DEF OriginalIsAbove
  <2> QED
    BY <1>3, <2>1, <2>2
<1>7. ASSUME NEW created \in CreationTimes, Create(w, created) PROVE SavingsInv'
  <2>0. PICK l \in KindsOf[w] :
          \E v \in UserValues[l], m \in Maxima(l), a \in Annotations :
            /\ l = "hpa" => v <= m
            /\ objs' = [objs EXCEPT ![w] = NewObject(l, v, m, a, created)]
            /\ chosen' = [chosen EXCEPT ![w] = {v, m}]
    BY <1>7, Zenon DEF Create
  <2>1. PICK v \in UserValues[l], m \in Maxima(l), a \in Annotations :
          objs' = [objs EXCEPT ![w] = NewObject(l, v, m, a, created)]
    BY <2>0
  <2>2. OriginalIsAbove(n)
    BY <1>2, <2>1 DEF OriginalIsAbove, NewObject
  <2> QED
    BY <1>2, <1>3, <2>1, <2>2
<1> QED
  BY <1>4, <1>5, <1>6, <1>7

\* A negative saving is reported only where the target was raised above the
\* recorded original.
LEMMA NegativeIsRaised ==
  ASSUME NEW k \in Kinds, NEW o \in Object(k), NEW d \in Targets, OriginalIsAbove(o),
         SavedResources(o, d) < 0
  PROVE  o.kind = "replicas" /\ o.orig # Unset /\ Raised(o, d)
<1>1. o.kind = k /\ o.val \in Current(k) /\ o.orig \in Values(k) \cup {Unset}
  BY DEF Object
<1>2. ScaleDown(o, d).status # "error" /\ FormerValue(o, d) # Unset
  BY DEF SavedResources
<1>3. SavedResources(o, d) = getSavedResourcesRequests(o, FormerValue(o, d), d)
  BY <1>2 DEF SavedResources
<1>4. k = "replicas"
  <2>1. k # "replicas" => getSavedResourcesRequests(o, FormerValue(o, d), d) \in {0, 1}
    BY <1>1 DEF getSavedResourcesRequests
  <2> QED
    BY <1>3, <2>1
<1>5. d \in Nat /\ o.val # Unset
  BY <1>1, <1>2, <1>4, WorkloadAssumption DEF ScaleDown, replicaScaleDown, Error
<1>6. FormerValue(o, d) \in Nat
  BY <1>1, <1>2, <1>4, <1>5, WorkloadAssumption DEF FormerValue, Current, Values
<1>7. FormerValue(o, d) < d
  <2>1. getSavedResourcesRequests(o, FormerValue(o, d), d) = FormerValue(o, d) - d
    BY <1>1, <1>4 DEF getSavedResourcesRequests
  <2> QED
    BY <1>3, <1>5, <1>6, <2>1
<1>8. FormerValue(o, d) = o.orig
  <2>1. CASE ~IsDown(o, d)
    <3>1. FormerValue(o, d) = o.val
      BY <2>1 DEF FormerValue
    <3> QED
      BY <1>1, <1>4, <1>5, <1>6, <1>7, <2>1, <3>1 DEF IsDown
  <2> QED
    BY <2>1 DEF FormerValue
<1>9. PICK e \in Applicable(o.kind) : e < o.orig
  BY <1>1, <1>2, <1>4, <1>8 DEF OriginalIsAbove
<1> QED
  BY <1>1, <1>2, <1>4, <1>7, <1>8, <1>9 DEF Raised

\* The scan that scales a workload down and the scans that find it down report
\* the same saving.
LEMMA SavingsStay ==
  ASSUME NEW k \in Kinds, NEW o \in Object(k), NEW d \in Targets, k # "nodeselector",
         ScaleDown(o, d).status = "update"
  PROVE  SavedResources(ScaleDown(o, d).obj, d) = SavedResources(o, d)
<1> DEFINE n == ScaleDown(o, d).obj
<1>1. /\ n = [o EXCEPT !.val = Stored(o, DownValue(o, d)), !.orig = o.val]
      /\ n \in Object(k) /\ ~IsDown(o, d) /\ o.val # Unset
  BY ScaleDownUpdate
<1>2. n.kind = k /\ o.kind = k /\ n.orig = o.val /\ n.val = Stored(o, DownValue(o, d))
  BY <1>1 DEF Object
<1>3. IsDown(n, d)
  BY DownAfterScaleDown
<1>4. n.val # Unset
  BY <1>2, DownValueType, WorkloadAssumption
<1> HIDE DEF n
<1>5. FormerValue(n, d) = o.val /\ FormerValue(o, d) = o.val
  BY <1>1, <1>2, <1>3 DEF FormerValue
<1>6. SavedResources(o, d) = getSavedResourcesRequests(o, o.val, d)
  BY <1>1, <1>5 DEF SavedResources
<1>7. getSavedResourcesRequests(n, o.val, d) = getSavedResourcesRequests(o, o.val, d)
  BY <1>2 DEF getSavedResourcesRequests
<1>8. CASE k \in {"replicas", "suspend"}
  <2>1. k = "replicas" => d \notin Percents
    BY <1>2 DEF ScaleDown, replicaScaleDown, Error
  <2>2. ScaleDown(n, d).status # "error"
    BY <1>2, <1>3, <1>4, <1>8, <2>1
    DEF ScaleDown, replicaScaleDown, suspendScaleDown, AlreadyDown, OriginalParses, Skip
  <2>3. SavedResources(n, d) = getSavedResourcesRequests(n, o.val, d)
    BY <1>1, <1>5, <2>2 DEF SavedResources
  <2> QED
    BY <1>6, <1>7, <2>3 DEF n
<1>9. CASE k \notin {"replicas", "suspend"}
  <2>1. getSavedResourcesRequests(o, o.val, d) = 0
    BY <1>2, <1>9 DEF getSavedResourcesRequests
  <2>2. SavedResources(n, d) = 0
    BY <1>5, <1>7, <2>1 DEF SavedResources
  <2> QED
    BY <1>6, <2>1, <2>2 DEF n
<1> QED
  BY <1>8, <1>9

\* A scan reports a negative saving only if the target was raised above the
\* replicas recorded for a lower one, and the scans that find a workload scaled
\* down report what its downscale did, whatever sizes it is given in between.
THEOREM SavingsStaySteady == Spec => []SavingsAreSteady
<1>1. Init => SavingsInv
  BY WorkloadAssumption DEF Init, SavingsInv, OriginalIsAbove
<1>2. TypeOK /\ SavingsInv /\ [Next]_vars => SavingsInv'
  BY SavingsStep
<1>3. TypeOK /\ SavingsInv => SavingsAreSteady
  <2> SUFFICES ASSUME TypeOK, SavingsInv, NEW w \in Workload, NEW d \in Targets
               PROVE  /\ SavedResources(objs[w], d) < 0 =>
                           objs[w].kind = "replicas" /\ objs[w].orig # Unset
                             /\ Raised(objs[w], d)
                      /\ ScaleDown(objs[w], d).status = "update"
                           /\ objs[w].kind # "nodeselector" =>
                           SavedResources(ScaleDown(objs[w], d).obj, d)
                             = SavedResources(objs[w], d)
    BY DEF SavingsAreSteady
  <2>1. objs[w].kind \in Kinds /\ objs[w] \in Object(objs[w].kind) /\ OriginalIsAbove(objs[w])
    BY WorkloadAssumption DEF TypeOK, SavingsInv
  <2> QED
    BY <2>1, NegativeIsRaised, SavingsStay
<1> QED
  BY <1>1, <1>2, <1>3, TypeCorrect, PTL DEF Spec
=============================================================================
