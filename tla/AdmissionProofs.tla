--------------------------- MODULE AdmissionProofs ---------------------------
(***************************************************************************)
(* The webhook next to the scans, for any cluster, any number of requests  *)
(* in flight and any schedule: requests and objects keep their types, the  *)
(* webhook patches only what a scan would scale down, what it answered is  *)
(* not scaled down by the next scan, and the two of them together lose no  *)
(* original state.                                                         *)
(***************************************************************************)
EXTENDS Admission, ScopesProofs, TLAPS

(* What is proved about WorkloadScaling, for the cluster of this module.   *)
Facts == INSTANCE WorkloadScalingProofs

-----------------------------------------------------------------------------
(* The operators of Facts are those of Cluster.                            *)

\* The objects are the same.
LEMMA SameObjects ==
  /\ Facts!Kinds = Cluster!Kinds
  /\ \A k : /\ Facts!Object(k) = Cluster!Object(k)
            /\ Facts!Values(k) = Cluster!Values(k)
            /\ Facts!Current(k) = Cluster!Current(k)
            /\ Facts!Maxima(k) = Cluster!Maxima(k)
BY DEF Facts!Kinds, Cluster!Kinds, Facts!Object, Cluster!Object,
       Facts!Current, Cluster!Current, Facts!Values, Cluster!Values,
       Facts!Maxima, Cluster!Maxima, Facts!Undefined, Cluster!Undefined,
       Facts!ServiceTypes, Cluster!ServiceTypes,
       Facts!ReplicaKinds, Cluster!ReplicaKinds

\* What is assumed of the cluster is what the facts rest on.
LEMMA FactsAssumption == Facts!WorkloadAssumption
BY ClusterAssumption, SameObjects
DEF Facts!WorkloadAssumption, Cluster!WorkloadAssumption,
    Facts!DownscalerClass, Cluster!DownscalerClass

\* Scaling is the same.
LEMMA SameScaling ==
  \A o, d : /\ Facts!ScaleDown(o, d) = Cluster!ScaleDown(o, d)
            /\ Facts!ScaleUp(o) = Cluster!ScaleUp(o)
            /\ Facts!IsDown(o, d) = Cluster!IsDown(o, d)
BY DEF Facts!ScaleDown, Cluster!ScaleDown, Facts!ScaleUp, Cluster!ScaleUp,
       Facts!replicaScaleDown, Cluster!replicaScaleDown,
       Facts!suspendScaleDown, Cluster!suspendScaleDown,
       Facts!nodeSelectorScaleDown, Cluster!nodeSelectorScaleDown,
       Facts!valueScaleDown, Cluster!valueScaleDown,
       Facts!pdbScaleDown, Cluster!pdbScaleDown,
       Facts!replicaScaleUp, Cluster!replicaScaleUp,
       Facts!suspendScaleUp, Cluster!suspendScaleUp,
       Facts!nodeSelectorScaleUp, Cluster!nodeSelectorScaleUp,
       Facts!valueScaleUp, Cluster!valueScaleUp,
       Facts!pdbScaleUp, Cluster!pdbScaleUp,
       Facts!IsDown, Cluster!IsDown, Facts!DownValue, Cluster!DownValue,
       Facts!Replace, Cluster!Replace, Facts!Restore, Cluster!Restore,
       Facts!AlreadyDown, Cluster!AlreadyDown, Facts!Stored, Cluster!Stored,
       Facts!Settable, Cluster!Settable,
       Facts!OriginalParses, Cluster!OriginalParses,
       Facts!Error, Cluster!Error, Facts!Skip, Cluster!Skip,
       Facts!Update, Cluster!Update,
       Facts!setOriginalReplicas, Cluster!setOriginalReplicas,
       Facts!removeOriginalReplicas, Cluster!removeOriginalReplicas,
       Facts!Undefined, Cluster!Undefined,
       Facts!DownscalerClass, Cluster!DownscalerClass,
       Facts!ReplicaKinds, Cluster!ReplicaKinds

-----------------------------------------------------------------------------
(* The inductive invariant.                                                *)

\* The scopes of a request whose record is q.
ScopesIn(q) == <<q.new.scope, q.nsScope, scopeCli, scopeEnv, scopeDefault>>

\* Whether the webhook scales the request q down at the time t.
Down(q, t) == ~GetExcluded(ScopesIn(q), t) /\ GetCurrentScaling(ScopesIn(q), t) = "down"

\* The object of a request is one of its workload, and is not being deleted; what
\* it asks for are values of its kind.
RequestType(q) ==
  /\ q \in [pc : RequestPc, w : {q.w}, new : {q.new}, asked : {q.asked}, outdated : BOOLEAN,
            nsScope : NamespaceAnnotations \cup {Unset}, at : (0..MaxTime) \cup {Unset},
            patched : BOOLEAN, failed : BOOLEAN]
  /\ q.pc # "idle" =>
       /\ q.w \in Workload /\ q.new.kind \in KindsOf[q.w]
       /\ q.new \in Cluster!Object(q.new.kind) /\ q.new.live
       /\ \A v \in q.asked :
            v \in Cluster!Values(q.new.kind) \cup Cluster!Maxima(q.new.kind) \cup {Unset}

\* Where the webhook decides, it has scopes; what it patched, it had decided to
\* scale down.
RequestDecided(q) ==
  /\ q.pc = "decide" => /\ GetScopeFromAnnotations(q.new.scope)
                        /\ q.nsScope # Unset /\ GetScopeFromAnnotations(q.nsScope)
  /\ q.patched => /\ q.pc = "answered" /\ q.at # Unset
                  /\ q.new.scope # Malformed
                  /\ q.nsScope \notin {Unset, Malformed}
                  /\ Down(q, q.at)

\* Why a request was answered as it was.
RequestAnswered(q) ==
  q.pc = "answered" =>
    \/ q.failed \/ q.w \in Unparsable \cup Filtered \/ config.IncludeScaledObjects
    \/ ~GetScopeFromAnnotations(q.new.scope)
    \/ q.nsScope # Unset /\ ~GetScopeFromAnnotations(q.nsScope)
    \/ /\ q.nsScope # Unset /\ q.at # Unset
       /\ \/ config.DryRun
          \/ ~Down(q, q.at)
          \/ Cluster!ScaleDown(q.new, GetDownscaleReplicas(ScopesIn(q))).status # "update"

\* A request that is not outdated is for an object of the kind that is there.
Follows(q, o) == q.pc # "idle" /\ ~q.outdated /\ o.live => q.new.kind = o.kind

RequestInv(q) == RequestType(q) /\ RequestDecided(q) /\ RequestAnswered(q)

RequestsOK ==
  /\ DOMAIN req = Request
  /\ \A r \in Request : RequestInv(req[r]) /\ Follows(req[r], objs[req[r].w])

RestOK ==
  /\ annotations \in [Namespace -> NamespaceAnnotations]
  /\ now \in 0..MaxTime /\ failures \in 0..MaxFailures
  /\ config \in Configurations

Inv == Cluster!TypeOK /\ RestOK /\ RequestsOK

-----------------------------------------------------------------------------
(* Scopes.                                                                 *)

\* Scopes that parse lead to downscale replicas of the configuration.
LEMMA ReplicasAreTargets ==
  ASSUME NEW q, q.new.scope \in Annotations, q.nsScope \in NamespaceAnnotations,
         q.new.scope # Malformed, q.nsScope # Malformed
  PROVE  /\ GetDownscaleReplicas(ScopesIn(q)) \in Targets
         /\ \A i \in 1..5 : DOMAIN ScopesIn(q)[i] = ScopeFields
<1> DEFINE scopes == ScopesIn(q)
<1>1. DOMAIN scopes = 1..5 /\ 1..5 \subseteq Nat
  BY DEF ScopesIn
<1>2. /\ scopes[1] = q.new.scope /\ scopes[2] = q.nsScope
      /\ scopes[3] = scopeCli /\ scopes[4] = scopeEnv /\ scopes[5] = scopeDefault
  BY DEF ScopesIn
<1>3. \A i \in 1..5 : i \in {1, 2, 3, 4, 5}
  OBVIOUS
<1> HIDE DEF scopes
<1>4. \A i \in {1, 2, 3, 4, 5} : /\ DOMAIN scopes[i] = ScopeFields
                                 /\ scopes[i].DownscaleReplicas \in Targets \cup {Unset}
  <2>1. /\ DOMAIN scopes[1] = ScopeFields /\ scopes[1].DownscaleReplicas \in Targets \cup {Unset}
        /\ DOMAIN scopes[2] = ScopeFields /\ scopes[2].DownscaleReplicas \in Targets \cup {Unset}
    BY <1>2, AdmissionAssumption
  <2>2. /\ DOMAIN scopes[3] = ScopeFields /\ scopes[3].DownscaleReplicas \in Targets \cup {Unset}
        /\ DOMAIN scopes[4] = ScopeFields /\ scopes[4].DownscaleReplicas \in Targets \cup {Unset}
        /\ DOMAIN scopes[5] = ScopeFields /\ scopes[5].DownscaleReplicas \in Targets \cup {Unset}
    BY <1>2, AdmissionAssumption
  <2> QED
    BY <2>1, <2>2
<1>5. scopes[5].DownscaleReplicas # Unset /\ 5 \in DOMAIN scopes
  BY <1>1, <1>2, AdmissionAssumption
<1>6. PICK i \in DOMAIN scopes : /\ GetDownscaleReplicas(scopes) = scopes[i].DownscaleReplicas
                                 /\ scopes[i].DownscaleReplicas # Unset
  BY <1>1, <1>5, DownscaleReplicasAreSet
<1>7. GetDownscaleReplicas(scopes) \in Targets /\ \A j \in 1..5 : DOMAIN scopes[j] = ScopeFields
  BY <1>1, <1>3, <1>4, <1>6
<1> QED
  BY <1>7 DEF scopes

-----------------------------------------------------------------------------
(* Scaling the object of a request.                                        *)

\* ScaleDown leaves an object alone, fails or updates it.
LEMMA ScaleDownResults ==
  ASSUME NEW k \in Cluster!Kinds, NEW o \in Cluster!Object(k), NEW d
  PROVE  \/ Cluster!ScaleDown(o, d) = Cluster!Skip(o)
         \/ Cluster!ScaleDown(o, d) = Cluster!Error(o)
         \/ Cluster!ScaleDown(o, d).status = "update"
<1>0. o.kind = k
  BY DEF Cluster!Object
<1> USE DEF Cluster!Skip, Cluster!Error, Cluster!Update, Cluster!Replace,
            Cluster!AlreadyDown, Cluster!ScaleDown, Cluster!ReplicaKinds
<1>1. CASE k \in Cluster!ReplicaKinds
  BY <1>0, <1>1 DEF Cluster!replicaScaleDown
<1>2. CASE k = "suspend"
  BY <1>0, <1>2 DEF Cluster!suspendScaleDown
<1>3. CASE k = "nodeselector"
  BY <1>0, <1>3 DEF Cluster!nodeSelectorScaleDown
<1>4. CASE k \in {"service", "class"}
  BY <1>0, <1>4 DEF Cluster!valueScaleDown
<1>5. CASE k = "pdb"
  BY <1>0, <1>5 DEF Cluster!pdbScaleDown
<1> QED
  BY <1>1, <1>2, <1>3, <1>4, <1>5 DEF Cluster!Kinds

\* ScaleDown returns the object as it was, or scaled and of its kind; either way
\* a second call has nothing to update.
LEMMA PatchedObject ==
  ASSUME NEW k \in Cluster!Kinds, NEW o \in Cluster!Object(k), NEW d \in Targets,
         Cluster!ScaleDown(o, d).status # "error"
  PROVE  LET n == Cluster!ScaleDown(o, d).obj
         IN /\ n \in Cluster!Object(k) /\ n.kind = k
            /\ n.live = o.live /\ n.scope = o.scope
            /\ Cluster!ScaleDown(n, d).status # "update"
<1> DEFINE down == Cluster!ScaleDown(o, d)
           n == down.obj
<1>0. k \in Facts!Kinds /\ o \in Facts!Object(k) /\ o.kind = k
  BY SameObjects DEF Cluster!Object
<1>1. down = Cluster!Skip(o) \/ down = Cluster!Error(o) \/ down.status = "update"
  BY ScaleDownResults
<1>2. CASE down = Cluster!Skip(o)
  <2>1. n = o /\ down.status = "skip"
    BY <1>2 DEF Cluster!Skip
  <2> QED
    BY <1>0, <2>1
<1>3. CASE down.status = "update"
  <2>0. Facts!ScaleDown(o, d) = down /\ Facts!ScaleDown(o, d).status = "update"
    BY <1>3, SameScaling
  <2>1. /\ Facts!ScaleDown(o, d).obj =
             [o EXCEPT !.val = Facts!Stored(o, Facts!DownValue(o, d)), !.orig = o.val]
        /\ Facts!ScaleDown(o, d).obj \in Facts!Object(k)
    BY <1>0, <2>0, FactsAssumption, Facts!ScaleDownUpdate
  <2>2. Facts!IsDown(Facts!ScaleDown(o, d).obj, d)
    BY <1>0, <2>0, FactsAssumption, Facts!DownAfterScaleDown
  <2>3. n = [o EXCEPT !.val = Facts!Stored(o, Facts!DownValue(o, d)), !.orig = o.val]
        /\ n \in Facts!Object(k) /\ Facts!IsDown(n, d)
    BY <2>0, <2>1, <2>2
  <2> HIDE DEF n
  <2>4. n \in Cluster!Object(k) /\ n.kind = k
    BY <2>3, SameObjects DEF Cluster!Object
  <2>5. n.live = o.live /\ n.scope = o.scope
    BY <2>3 DEF Cluster!Object
  <2>6. Facts!ScaleDown(n, d).status # "update"
    BY <1>0, <2>3, FactsAssumption, Facts!ScaleDownUpdate
  <2>7. Cluster!ScaleDown(n, d).status # "update"
    BY <2>6, SameScaling
  <2> QED
    BY <2>4, <2>5, <2>7 DEF n
<1> QED
  BY <1>1, <1>2, <1>3 DEF Cluster!Error

-----------------------------------------------------------------------------
(* The steps of a request.                                                 *)

\* An empty slot keeps the invariant.
LEMMA IdleRecord == RequestInv(NoRequest) /\ \A o : Follows(NoRequest, o)
<1>1. RequestType(NoRequest)
  BY DEF NoRequest, RequestType, RequestPc
<1>2. RequestDecided(NoRequest) /\ RequestAnswered(NoRequest)
  BY DEF NoRequest, RequestDecided, RequestAnswered
<1>3. \A o : Follows(NoRequest, o)
  BY DEF NoRequest, Follows
<1> QED
  BY <1>1, <1>2, <1>3 DEF RequestInv

\* A step of one request that touches no object.
LEMMA OneRequest ==
  ASSUME RequestsOK, NEW r \in Request, UNCHANGED <<objs, config>>,
         DOMAIN req' = Request, \A x \in Request \ {r} : req'[x] = req[x],
         RequestInv(req'[r]), Follows(req'[r], objs[req'[r].w])
  PROVE  RequestsOK'
<1> SUFFICES ASSUME NEW x \in Request
             PROVE  (RequestInv(req[x]) /\ Follows(req[x], objs[req[x].w]))'
  BY DEF RequestsOK
<1>1. /\ RequestType(req'[x]) /\ RequestDecided(req'[x]) /\ RequestAnswered(req'[x])
      /\ Follows(req'[x], objs[req'[x].w])
  <2>1. CASE x = r
    BY <2>1 DEF RequestInv
  <2>2. CASE x # r
    BY <2>2 DEF RequestsOK, RequestInv
  <2> QED
    BY <2>1, <2>2
<1> QED
  BY <1>1 DEF RequestInv, RequestAnswered

\* Where a record n continues a request q: for the same object, or one of its kind.
Continues(n, q) ==
  /\ n \in [pc : RequestPc \ {"idle"}, w : {q.w}, new : {n.new}, asked : {q.asked},
            outdated : {q.outdated}, nsScope : NamespaceAnnotations \cup {Unset},
            at : (0..MaxTime) \cup {Unset}, patched : BOOLEAN, failed : BOOLEAN]
  /\ n.new \in Cluster!Object(q.new.kind) /\ n.new.kind = q.new.kind /\ n.new.live

\* Such a record has the right types.
LEMMA ContinuedRecord ==
  ASSUME NEW q, RequestType(q), q.pc # "idle", NEW n, Continues(n, q), NEW o, Follows(q, o)
  PROVE  RequestType(n) /\ n.w = q.w /\ Follows(n, o)
<1>1. /\ n.w = q.w /\ n.asked = q.asked /\ n.outdated = q.outdated /\ n.pc \in RequestPc
      /\ q.outdated \in BOOLEAN
  BY DEF Continues, RequestType
<1>2. n \in [pc : RequestPc, w : {n.w}, new : {n.new}, asked : {n.asked}, outdated : BOOLEAN,
             nsScope : NamespaceAnnotations \cup {Unset}, at : (0..MaxTime) \cup {Unset},
             patched : BOOLEAN, failed : BOOLEAN]
  BY <1>1 DEF Continues
<1>3. RequestType(n)
  BY <1>1, <1>2 DEF RequestType, Continues
<1>4. Follows(n, o)
  BY <1>1 DEF Follows, Continues
<1> QED
  BY <1>1, <1>3, <1>4

\* An object that parses or not, is filtered or not: the first step of the
\* handler.
LEMMA HandleKeeps ==
  ASSUME Inv, NEW r \in Request, HandleWorkloadMutation(r)
  PROVE  RequestsOK'
<1> DEFINE q == req[r]
           n == req'[r]
<1>1. /\ q.pc = "received" /\ UNCHANGED <<objs, config>> /\ DOMAIN req = Request
      /\ RequestInv(q) /\ Follows(q, objs[q.w])
  BY DEF HandleWorkloadMutation, Inv, RequestsOK
<1>2. ASSUME NEW p \in {"answered", "scopes"}, req' = [req EXCEPT ![r].pc = p],
             p = "answered" => q.w \in Unparsable \cup Filtered \/ config.IncludeScaledObjects
      PROVE  RequestsOK'
  <2>1. /\ n = [q EXCEPT !.pc = p] /\ DOMAIN req' = Request
        /\ \A x \in Request \ {r} : req'[x] = req[x]
    BY <1>1, <1>2
  <2>2. /\ Continues(n, q) /\ n.pc = p /\ n.patched = q.patched
        /\ n.w = q.w
    BY <1>1, <1>2, <2>1 DEF RequestInv, RequestType, Continues, RequestPc
  <2>3. ~n.patched
    BY <1>1, <2>2 DEF RequestInv, RequestDecided
  <2> HIDE DEF q, n
  <2>4. RequestType(n) /\ Follows(n, objs[n.w])
    BY <1>1, <2>2, ContinuedRecord DEF RequestInv
  <2>5. RequestDecided(n) /\ RequestAnswered(n)
    BY <1>2, <2>2, <2>3 DEF RequestDecided, RequestAnswered
  <2> QED
    BY <1>1, <2>1, <2>4, <2>5, OneRequest DEF Inv, RequestInv, n
<1> QED
  BY <1>2 DEF HandleWorkloadMutation, Allow, ExternalScaling

\* The scopes of the object and its namespace, or a failure to read them.
LEMMA NamespaceKeeps ==
  ASSUME Inv, NEW r \in Request, GetNamespaceScope(r)
  PROVE  RequestsOK'
<1> DEFINE q == req[r]
           n == req'[r]
           a == annotations[NamespaceOf[q.w]]
<1>1. /\ q.pc = "scopes" /\ UNCHANGED <<objs, config>> /\ DOMAIN req = Request
      /\ RequestInv(q) /\ Follows(q, objs[q.w])
  BY DEF GetNamespaceScope, Inv, RequestsOK
<1>2. a \in NamespaceAnnotations /\ a # Unset
  BY <1>1, AdmissionAssumption DEF Inv, RestOK, RequestInv, RequestType
<1>3. ~q.patched
  BY <1>1 DEF RequestInv, RequestDecided
<1>4. CASE ~GetScopeFromAnnotations(q.new.scope) /\ req' = [req EXCEPT ![r].pc = "answered"]
  <2>1. /\ n = [q EXCEPT !.pc = "answered"] /\ DOMAIN req' = Request
        /\ \A x \in Request \ {r} : req'[x] = req[x]
    BY <1>1, <1>4
  <2>2. /\ Continues(n, q) /\ n.pc = "answered" /\ n.patched = q.patched
        /\ n.w = q.w /\ n.new = q.new
    BY <1>1, <2>1 DEF RequestInv, RequestType, Continues, RequestPc
  <2> HIDE DEF q, n
  <2>3. RequestType(n) /\ Follows(n, objs[n.w])
    BY <1>1, <2>2, ContinuedRecord DEF RequestInv
  <2>4. RequestDecided(n) /\ RequestAnswered(n)
    BY <1>3, <1>4, <2>2 DEF RequestDecided, RequestAnswered
  <2> QED
    BY <1>1, <2>1, <2>3, <2>4, OneRequest DEF Inv, RequestInv, n
<1>5. CASE /\ GetScopeFromAnnotations(q.new.scope)
           /\ req' = [req EXCEPT ![r].nsScope = a, ![r].pc =
                        IF GetScopeFromAnnotations(a) THEN "decide" ELSE "answered"]
  <2> DEFINE p == IF GetScopeFromAnnotations(a) THEN "decide" ELSE "answered"
  <2>0. p \in RequestPc \ {"idle"}
    BY DEF RequestPc
  <2> HIDE DEF p
  <2>1. /\ n = [q EXCEPT !.nsScope = a, !.pc = p] /\ DOMAIN req' = Request
        /\ \A x \in Request \ {r} : req'[x] = req[x]
    BY <1>1, <1>5 DEF p, RequestInv, RequestType
  <2>2. /\ Continues(n, q) /\ n.pc = p /\ n.patched = q.patched
        /\ n.w = q.w /\ n.new = q.new /\ n.nsScope = a
    BY <1>1, <1>2, <2>0, <2>1 DEF RequestInv, RequestType, Continues
  <2> HIDE DEF q, n, a
  <2>3. RequestType(n) /\ Follows(n, objs[n.w])
    BY <1>1, <2>2, ContinuedRecord DEF RequestInv
  <2>4. RequestDecided(n) /\ RequestAnswered(n)
    BY <1>2, <1>3, <1>5, <2>2 DEF RequestDecided, RequestAnswered, p
  <2> QED
    BY <1>1, <2>1, <2>3, <2>4, OneRequest DEF Inv, RequestInv, n
<1>6. CASE req' = [req EXCEPT ![r].pc = "answered", ![r].failed = TRUE]
  <2>1. /\ n = [q EXCEPT !.pc = "answered", !.failed = TRUE] /\ DOMAIN req' = Request
        /\ \A x \in Request \ {r} : req'[x] = req[x]
    BY <1>1, <1>6 DEF RequestInv, RequestType
  <2>2. Continues(n, q) /\ n.failed /\ n.pc = "answered" /\ n.patched = q.patched /\ n.w = q.w
    BY <1>1, <2>1 DEF RequestInv, RequestType, Continues, RequestPc
  <2> HIDE DEF q, n
  <2>3. RequestType(n) /\ Follows(n, objs[n.w])
    BY <1>1, <2>2, ContinuedRecord DEF RequestInv
  <2>4. RequestDecided(n) /\ RequestAnswered(n)
    BY <1>3, <2>2 DEF RequestDecided, RequestAnswered
  <2> QED
    BY <1>1, <2>1, <2>3, <2>4, OneRequest DEF Inv, RequestInv, n
<1> QED
  BY <1>4, <1>5, <1>6 DEF GetNamespaceScope, Allow

\* A call that times out is let through or denied.
LEMMA TimeOutKeeps ==
  ASSUME Inv, NEW r \in Request, TimeOut(r)
  PROVE  RequestsOK'
<1> DEFINE q == req[r]
           n == req'[r]
<1>1. /\ q.pc \notin {"idle", "answered"} /\ UNCHANGED <<objs, config>> /\ DOMAIN req = Request
      /\ RequestInv(q) /\ Follows(q, objs[q.w])
  BY DEF TimeOut, Inv, RequestsOK
<1>2. CASE req' = [req EXCEPT ![r].pc = "answered", ![r].failed = TRUE]
  <2>1. ~q.patched
    BY <1>1 DEF RequestInv, RequestDecided
  <2>2. /\ n = [q EXCEPT !.pc = "answered", !.failed = TRUE] /\ DOMAIN req' = Request
        /\ \A x \in Request \ {r} : req'[x] = req[x]
    BY <1>1, <1>2 DEF RequestInv, RequestType
  <2>3. Continues(n, q) /\ n.failed /\ n.pc = "answered" /\ n.patched = q.patched /\ n.w = q.w
    BY <1>1, <2>2 DEF RequestInv, RequestType, Continues, RequestPc
  <2> HIDE DEF q, n
  <2>4. RequestType(n) /\ Follows(n, objs[n.w])
    BY <1>1, <2>3, ContinuedRecord DEF RequestInv
  <2>5. RequestDecided(n) /\ RequestAnswered(n)
    BY <2>1, <2>3 DEF RequestDecided, RequestAnswered
  <2> QED
    BY <1>1, <2>2, <2>4, <2>5, OneRequest DEF Inv, RequestInv, n
<1>3. CASE req' = [req EXCEPT ![r] = NoRequest]
  <2>1. /\ DOMAIN req' = Request /\ req'[r] = NoRequest
        /\ \A x \in Request \ {r} : req'[x] = req[x]
    BY <1>1, <1>3
  <2> QED
    BY <1>1, <2>1, IdleRecord, OneRequest DEF Inv
<1> QED
  BY <1>2, <1>3 DEF TimeOut

\* The decision: a request that is scaled down gets an object of its kind with the
\* same scopes, which a second ScaleDown would leave alone.
LEMMA MutateKeeps ==
  ASSUME Inv, NEW r \in Request, mutateWorkload(r)
  PROVE  RequestsOK'
<1> DEFINE q == req[r]
           n == req'[r]
           k == q.new.kind
           d == GetDownscaleReplicas(ScopesIn(q))
           down == Cluster!ScaleDown(q.new, d)
<1>1. /\ q.pc = "decide" /\ UNCHANGED <<objs, config>> /\ DOMAIN req = Request
      /\ RequestInv(q) /\ Follows(q, objs[q.w])
  BY DEF mutateWorkload, Inv, RequestsOK
<1>2. /\ k \in Cluster!Kinds /\ q.new \in Cluster!Object(k) /\ q.new.live
      /\ q.new.scope \in Annotations /\ q.w \in Workload
  <2>1. q.w \in Workload /\ k \in KindsOf[q.w] /\ q.new \in Cluster!Object(k) /\ q.new.live
    BY <1>1 DEF RequestInv, RequestType
  <2> QED
    BY <2>1, ClusterAssumption DEF Cluster!WorkloadAssumption, Cluster!Object
<1>3. /\ q.new.scope # Malformed /\ q.nsScope \notin {Malformed, Unset}
      /\ q.nsScope \in NamespaceAnnotations /\ ~q.patched
  BY <1>1 DEF RequestInv, RequestType, RequestDecided, GetScopeFromAnnotations
<1>4. d \in Targets
  BY <1>2, <1>3, ReplicasAreTargets
<1>5. now \in 0..MaxTime /\ now # Unset
  <2>1. Unset \notin Nat
    BY ClusterAssumption DEF Cluster!WorkloadAssumption, Cluster!Kinds, Cluster!Values
  <2>2. now \in 0..MaxTime
    BY DEF Inv, RestOK
  <2> QED
    BY <2>1, <2>2, AdmissionAssumption
<1>6. Patch(r) = down /\ (ScalesDown(r) <=> Down(q, now))
  BY DEF Patch, ScalesDown, ScopesOf, ScopesIn, Down
<1>7. CASE /\ ScalesDown(r) /\ Patch(r).status # "error" /\ ~config.DryRun
           /\ req' = [req EXCEPT ![r].pc = "answered", ![r].at = now,
                                 ![r].new = Patch(r).obj, ![r].patched = TRUE]
  <2> HIDE DEF d
  <2>1. /\ n = [q EXCEPT !.pc = "answered", !.at = now, !.new = down.obj, !.patched = TRUE]
        /\ DOMAIN req' = Request /\ \A x \in Request \ {r} : req'[x] = req[x]
    BY <1>1, <1>6, <1>7 DEF RequestInv, RequestType
  <2>2. /\ down.obj \in Cluster!Object(k) /\ down.obj.kind = k
        /\ down.obj.live = q.new.live /\ down.obj.scope = q.new.scope
        /\ Cluster!ScaleDown(down.obj, d).status # "update"
    <3>1. down.status # "error"
      BY <1>6, <1>7
    <3> HIDE DEF q, k
    <3> QED
      BY <1>2, <1>4, <3>1, PatchedObject
  <2> HIDE DEF down
  <2>3. /\ Continues(n, q) /\ n.pc = "answered" /\ n.patched /\ n.w = q.w
        /\ n.nsScope = q.nsScope /\ n.new = down.obj /\ n.at = now
    <3>1. q \in [pc : RequestPc, w : {q.w}, new : {q.new}, asked : {q.asked}, outdated : BOOLEAN,
                 nsScope : NamespaceAnnotations \cup {Unset}, at : (0..MaxTime) \cup {Unset},
                 patched : BOOLEAN, failed : BOOLEAN]
      BY <1>1 DEF RequestInv, RequestType
    <3> HIDE DEF q, k
    <3>2. /\ n \in [pc : RequestPc \ {"idle"}, w : {q.w}, new : {n.new}, asked : {q.asked},
                    outdated : {q.outdated}, nsScope : NamespaceAnnotations \cup {Unset},
                    at : (0..MaxTime) \cup {Unset}, patched : BOOLEAN, failed : BOOLEAN]
          /\ n.pc = "answered" /\ n.patched = TRUE /\ n.w = q.w
          /\ n.nsScope = q.nsScope /\ n.new = down.obj /\ n.at = now
      BY <1>5, <2>1, <3>1 DEF RequestPc
    <3>3. Continues(n, q)
      BY <1>2, <2>2, <3>2 DEF Continues, k
    <3> QED
      BY <3>2, <3>3
  <2> HIDE DEF q, n, k
  <2>4. ScopesIn(n) = ScopesIn(q)
    BY <2>2, <2>3 DEF ScopesIn
  <2>5. RequestType(n) /\ Follows(n, objs[n.w])
    BY <1>1, <2>3, ContinuedRecord DEF RequestInv
  <2>6. Down(n, n.at)
    BY <1>6, <1>7, <2>3, <2>4 DEF Down
  <2>7. RequestDecided(n)
    BY <1>3, <1>5, <2>2, <2>3, <2>6 DEF RequestDecided
  <2>8. Cluster!ScaleDown(n.new, GetDownscaleReplicas(ScopesIn(n))).status # "update"
    BY <2>2, <2>3, <2>4 DEF d
  <2>9. RequestAnswered(n)
    BY <1>3, <1>5, <2>3, <2>8 DEF RequestAnswered
  <2> QED
    BY <1>1, <2>1, <2>5, <2>7, <2>9, OneRequest DEF Inv, RequestInv, n
<1>8. CASE /\ ~ScalesDown(r) \/ Patch(r).status = "error" \/ config.DryRun
           /\ req' = [req EXCEPT ![r].pc = "answered", ![r].at = now]
  <2>1. /\ n = [q EXCEPT !.pc = "answered", !.at = now]
        /\ DOMAIN req' = Request /\ \A x \in Request \ {r} : req'[x] = req[x]
    BY <1>1, <1>8 DEF RequestInv, RequestType
  <2>2. /\ Continues(n, q) /\ n.pc = "answered" /\ n.patched = q.patched /\ n.w = q.w
        /\ n.nsScope = q.nsScope /\ n.new = q.new /\ n.at = now
    BY <1>1, <1>2, <1>5, <2>1 DEF RequestInv, RequestType, Continues, RequestPc
  <2> HIDE DEF q, n, k, d, down
  <2>3. ScopesIn(n) = ScopesIn(q)
    BY <2>2 DEF ScopesIn
  <2>4. RequestType(n) /\ Follows(n, objs[n.w])
    BY <1>1, <2>2, ContinuedRecord DEF RequestInv
  <2>5. RequestDecided(n)
    BY <1>3, <2>2 DEF RequestDecided
  <2>6. \/ config.DryRun \/ ~Down(n, n.at)
        \/ Cluster!ScaleDown(n.new, GetDownscaleReplicas(ScopesIn(n))).status # "update"
    <3>1. CASE config.DryRun
      BY <3>1
    <3>2. CASE ~ScalesDown(r)
      BY <1>6, <2>2, <2>3, <3>2 DEF Down
    <3>3. CASE Patch(r).status = "error"
      BY <1>6, <2>2, <2>3, <3>3 DEF d, down
    <3> QED
      BY <1>8, <3>1, <3>2, <3>3
  <2>7. RequestAnswered(n)
    BY <1>3, <1>5, <2>2, <2>6 DEF RequestAnswered
  <2> QED
    BY <1>1, <2>1, <2>4, <2>5, <2>7, OneRequest DEF Inv, RequestInv, n
<1> QED
  BY <1>7, <1>8 DEF mutateWorkload

\* What somebody may propose for the object o of w: an object of its kind, or a
\* new one, that is there.
LEMMA ProposalType ==
  ASSUME Inv, NEW w \in Workload, NEW o \in Proposals(w, objs[w])
  PROVE  /\ o.kind \in KindsOf[w] /\ o \in Cluster!Object(o.kind) /\ o.live
         /\ objs[w].live => /\ o.kind = objs[w].kind /\ o.orig = objs[w].orig
         /\ ~objs[w].live => o.orig = Unset
         /\ \A v \in Asked(objs[w], o) :
              v \in Cluster!Values(o.kind) \cup Cluster!Maxima(o.kind) \cup {Unset}
<1> DEFINE old == objs[w]
<1>1. old.kind \in KindsOf[w] /\ old \in Cluster!Object(old.kind)
  BY DEF Inv, Cluster!TypeOK
<1>2. \A k \in KindsOf[w] : /\ UserValues[k] \subseteq Cluster!Current(k)
                            /\ Cluster!Current(k) \subseteq Cluster!Values(k) \cup {Unset}
  <2>1. KindsOf[w] \subseteq Cluster!Kinds
    BY ClusterAssumption DEF Cluster!WorkloadAssumption
  <2> QED
    BY <2>1, ClusterAssumption DEF Cluster!WorkloadAssumption, Cluster!Current
<1>3. now \in CreationTimes
  BY AdmissionAssumption DEF Inv, RestOK
<1>4. CASE old.live
  <2>1. PICK v \in UserValues[old.kind] \cup {old.val}, m \in Cluster!Maxima(old.kind),
             a \in Annotations :
          o = Edited(old, v, m, a)
    BY <1>4 DEF Proposals
  <2>2. v \in Cluster!Current(old.kind)
    BY <1>1, <1>2 DEF Cluster!Object
  <2>3. /\ o \in Cluster!Object(old.kind) /\ o.kind = old.kind /\ o.live = old.live
        /\ o.val = v /\ o.max = m /\ o.orig = old.orig
    BY <1>1, <2>1, <2>2 DEF Edited, Cluster!Object
  <2> QED
    BY <1>1, <1>2, <1>4, <2>2, <2>3 DEF Asked
<1>5. CASE ~old.live
  <2>1. PICK k \in KindsOf[w] :
          o \in {Cluster!NewObject(k, v, m, a, now) :
                   v \in UserValues[k], m \in Cluster!Maxima(k), a \in Annotations}
    BY <1>5 DEF Proposals
  <2>2. PICK v \in UserValues[k], m \in Cluster!Maxima(k), a \in Annotations :
          o = Cluster!NewObject(k, v, m, a, now)
    BY <2>1
  <2>3. v \in Cluster!Current(k)
    BY <1>2
  <2>4. /\ o \in Cluster!Object(k) /\ o.kind = k /\ o.live = TRUE
        /\ o.val = v /\ o.max = m /\ o.orig = Unset
    BY <1>3, <2>2, <2>3 DEF Cluster!Object, Cluster!NewObject
  <2> QED
    BY <1>2, <1>5, <2>3, <2>4 DEF Asked
<1> QED
  BY <1>4, <1>5

\* A request comes in.
LEMMA SubmitKeeps ==
  ASSUME Inv, NEW r \in Request, NEW w \in Workload, Submit(r, w)
  PROVE  RequestsOK'
<1> DEFINE n == req'[r]
<1>1. DOMAIN req = Request /\ UNCHANGED <<objs, config>>
  BY DEF Inv, RequestsOK, Submit
<1>2. PICK o \in Proposals(w, objs[w]) :
        req' = [req EXCEPT ![r] = [NoRequest EXCEPT !.pc = "received", !.w = w, !.new = o,
                                                    !.asked = Asked(objs[w], o)]]
  BY DEF Submit
<1>3. /\ DOMAIN req' = Request /\ \A x \in Request \ {r} : req'[x] = req[x]
      /\ n = [NoRequest EXCEPT !.pc = "received", !.w = w, !.new = o,
                               !.asked = Asked(objs[w], o)]
  BY <1>1, <1>2
<1>4. /\ n \in [pc : RequestPc, w : {n.w}, new : {n.new}, asked : {n.asked}, outdated : BOOLEAN,
                nsScope : NamespaceAnnotations \cup {Unset}, at : (0..MaxTime) \cup {Unset},
                patched : BOOLEAN, failed : BOOLEAN]
      /\ n.pc = "received" /\ n.w = w /\ n.new = o /\ n.asked = Asked(objs[w], o)
      /\ ~n.patched
  BY <1>3 DEF NoRequest, RequestPc
<1> HIDE DEF n
<1>5. RequestType(n) /\ Follows(n, objs[n.w])
  BY <1>4, ProposalType DEF RequestType, Follows
<1>6. RequestDecided(n) /\ RequestAnswered(n)
  BY <1>4 DEF RequestDecided, RequestAnswered
<1> QED
  BY <1>1, <1>3, <1>5, <1>6, OneRequest DEF Inv, RequestInv, n

\* A request is refused.
LEMMA RefuseKeeps ==
  ASSUME Inv, NEW r \in Request, Refuse(r)
  PROVE  RequestsOK'
<1>1. /\ UNCHANGED <<objs, config>> /\ DOMAIN req' = Request /\ req'[r] = NoRequest
      /\ \A x \in Request \ {r} : req'[x] = req[x]
  BY DEF Inv, RequestsOK, Refuse
<1> QED
  BY <1>1, IdleRecord, OneRequest DEF Inv

-----------------------------------------------------------------------------
(* The steps that change an object.                                        *)

\* To be outdated changes nothing else about a request.
LEMMA OutdatedRecord ==
  ASSUME NEW q, RequestInv(q)
  PROVE  LET n == [q EXCEPT !.outdated = TRUE]
         IN /\ RequestInv(n) /\ n.outdated = TRUE
            /\ n.pc = q.pc /\ n.w = q.w /\ n.new = q.new /\ n.asked = q.asked
<1> DEFINE n == [q EXCEPT !.outdated = TRUE]
<1>1. q \in [pc : RequestPc, w : {q.w}, new : {q.new}, asked : {q.asked}, outdated : BOOLEAN,
             nsScope : NamespaceAnnotations \cup {Unset}, at : (0..MaxTime) \cup {Unset},
             patched : BOOLEAN, failed : BOOLEAN]
  BY DEF RequestInv, RequestType
<1>2. /\ n \in [pc : RequestPc, w : {n.w}, new : {n.new}, asked : {n.asked}, outdated : BOOLEAN,
                nsScope : NamespaceAnnotations \cup {Unset}, at : (0..MaxTime) \cup {Unset},
                patched : BOOLEAN, failed : BOOLEAN]
      /\ n.pc = q.pc /\ n.w = q.w /\ n.new = q.new /\ n.asked = q.asked
      /\ n.nsScope = q.nsScope /\ n.at = q.at /\ n.patched = q.patched /\ n.failed = q.failed
      /\ n.outdated = TRUE
  BY <1>1
<1> HIDE DEF n
<1>3. RequestType(n)
  BY <1>2 DEF RequestInv, RequestType
<1>4. ScopesIn(n) = ScopesIn(q)
  BY <1>2 DEF ScopesIn
<1>5. RequestDecided(n) /\ RequestAnswered(n)
  BY <1>2, <1>4 DEF RequestInv, RequestDecided, RequestAnswered, Down
<1> QED
  BY <1>2, <1>3, <1>5 DEF RequestInv, n

\* Somebody changes the object of w: the requests that started from it are
\* outdated, the others do not notice.
LEMMA OutdateKeeps ==
  ASSUME Inv, NEW w \in Workload, \A x \in Workload \ {w} : objs'[x] = objs[x],
         NEW x \in Request
  PROVE  LET n == Outdate(w)[x]
         IN /\ RequestInv(n) /\ Follows(n, objs'[n.w])
            /\ n.pc = req[x].pc /\ n.w = req[x].w /\ n.new = req[x].new
            /\ n.asked = req[x].asked
            /\ n.pc # "idle" /\ ~n.outdated => ~req[x].outdated /\ objs'[n.w] = objs[n.w]
<1> DEFINE q == req[x]
           n == Outdate(w)[x]
<1>1. RequestInv(q) /\ Follows(q, objs[q.w])
  BY DEF Inv, RequestsOK
<1>2. n = IF q.pc # "idle" /\ q.w = w /\ objs'[w] # objs[w]
          THEN [q EXCEPT !.outdated = TRUE] ELSE q
  BY DEF Outdate
<1>3. q.pc # "idle" => q.w \in Workload
  BY <1>1 DEF RequestInv, RequestType
<1> HIDE DEF q, n
<1>4. CASE q.pc # "idle" /\ q.w = w /\ objs'[w] # objs[w]
  <2>1. n = [q EXCEPT !.outdated = TRUE]
    BY <1>2, <1>4
  <2>2. /\ RequestInv(n) /\ n.outdated = TRUE
        /\ n.pc = q.pc /\ n.w = q.w /\ n.new = q.new /\ n.asked = q.asked
    BY <1>1, <2>1, OutdatedRecord
  <2>3. Follows(n, objs'[n.w])
    BY <2>2 DEF Follows
  <2> QED
    BY <2>2, <2>3 DEF q, n
<1>5. CASE ~(q.pc # "idle" /\ q.w = w /\ objs'[w] # objs[w])
  <2>1. n = q
    BY <1>2, <1>5
  <2>2. q.pc # "idle" => objs'[q.w] = objs[q.w]
    BY <1>3, <1>5
  <2>3. Follows(q, objs'[q.w])
    BY <1>1, <2>2 DEF Follows
  <2> QED
    BY <1>1, <2>1, <2>2, <2>3 DEF q, n
<1> QED
  BY <1>4, <1>5

\* The invariant of a request only depends on the configuration, which stays.
LEMMA RequestStays ==
  ASSUME UNCHANGED config, DOMAIN req' = Request,
         \A x \in Request : RequestInv(req'[x]) /\ Follows(req'[x], objs'[req'[x].w])
  PROVE  RequestsOK'
BY DEF RequestsOK, RequestInv, RequestAnswered

\* A request is persisted.
LEMMA PersistKeeps ==
  ASSUME Inv, NEW r \in Request, Persist(r)
  PROVE  Cluster!TypeOK' /\ RequestsOK'
<1> DEFINE q == req[r]
           w == req[r].w
<1>1. /\ q.pc = "answered" /\ ~q.outdated
      /\ objs' = [objs EXCEPT ![w] = q.new]
      /\ chosen' = [chosen EXCEPT ![w] = (IF objs[w].live THEN @ ELSE {}) \cup q.asked]
      /\ req' = [Outdate(w) EXCEPT ![r] = NoRequest]
      /\ UNCHANGED config
  BY DEF Persist
<1>2. /\ w \in Workload /\ q.new.kind \in KindsOf[w] /\ q.new \in Cluster!Object(q.new.kind)
      /\ \A v \in q.asked :
           v \in Cluster!Values(q.new.kind) \cup Cluster!Maxima(q.new.kind) \cup {Unset}
      /\ objs[w].live => q.new.kind = objs[w].kind
  BY <1>1 DEF Inv, RequestsOK, RequestInv, RequestType, Follows
<1>3. /\ DOMAIN objs' = Workload /\ DOMAIN chosen' = Workload
      /\ objs'[w] = q.new /\ chosen'[w] = (IF objs[w].live THEN chosen[w] ELSE {}) \cup q.asked
      /\ \A x \in Workload \ {w} : objs'[x] = objs[x] /\ chosen'[x] = chosen[x]
  BY <1>1, <1>2 DEF Inv, Cluster!TypeOK
<1>4. Cluster!TypeOK'
  <2> SUFFICES ASSUME NEW x \in Workload
               PROVE  /\ objs'[x].kind \in KindsOf[x]
                      /\ objs'[x] \in Cluster!Object(objs'[x].kind)
                      /\ \A v \in chosen'[x] :
                           v \in Cluster!Values(objs'[x].kind) \cup Cluster!Maxima(objs'[x].kind)
                                 \cup {Unset}
    BY <1>3 DEF Cluster!TypeOK
  <2>1. CASE x = w
    BY <1>2, <1>3, <2>1 DEF Inv, Cluster!TypeOK
  <2>2. CASE x # w
    BY <1>3, <2>2 DEF Inv, Cluster!TypeOK
  <2> QED
    BY <2>1, <2>2
<1>5. DOMAIN req' = Request /\ req'[r] = NoRequest /\ \A x \in Request \ {r} : req'[x] = Outdate(w)[x]
  BY <1>1 DEF Outdate
<1>6. \A x \in Request : RequestInv(req'[x]) /\ Follows(req'[x], objs'[req'[x].w])
  <2> SUFFICES ASSUME NEW x \in Request
               PROVE  RequestInv(req'[x]) /\ Follows(req'[x], objs'[req'[x].w])
    OBVIOUS
  <2>1. CASE x = r
    BY <1>5, <2>1, IdleRecord
  <2>2. CASE x # r
    <3>1. RequestInv(Outdate(w)[x]) /\ Follows(Outdate(w)[x], objs'[Outdate(w)[x].w])
      BY <1>2, <1>3, OutdateKeeps
    <3> QED
      BY <1>5, <2>2, <3>1
  <2> QED
    BY <2>1, <2>2
<1> QED
  BY <1>1, <1>4, <1>5, <1>6, RequestStays

\* A scan scales an object, or somebody deletes it.
LEMMA ScanKeeps ==
  ASSUME Inv, NEW w \in Workload, Scan(w) \/ Delete(w)
  PROVE  /\ Cluster!TypeOK' /\ RequestsOK'
         /\ Facts!TypeOK /\ [Facts!Next]_Facts!vars
         /\ \A x \in Workload \ {w} : objs'[x] = objs[x]
         /\ req' = Outdate(w) /\ chosen' = chosen
<1>1. Facts!TypeOK <=> Cluster!TypeOK
  BY SameObjects DEF Facts!TypeOK, Cluster!TypeOK
<1>2. Facts!Next
  <2>1. CASE \E d \in Targets : Cluster!Downscale(w, d)
    BY <2>1, SameScaling DEF Facts!Next, Facts!Downscale, Cluster!Downscale
  <2>2. CASE Cluster!Upscale(w)
    <3>1. Facts!Upscale(w)
      BY <2>2, SameScaling DEF Facts!Upscale, Cluster!Upscale
    <3> QED
      BY <3>1 DEF Facts!Next
  <2>3. CASE Cluster!Delete(w)
    BY <2>3 DEF Facts!Next, Facts!Delete, Cluster!Delete
  <2> QED
    BY <2>1, <2>2, <2>3 DEF Scan, Delete
<1>3. Facts!TypeOK'
  BY <1>1, <1>2, FactsAssumption, Facts!TypeStep DEF Inv
<1>4. Cluster!TypeOK'
  BY <1>3, SameObjects DEF Facts!TypeOK, Cluster!TypeOK
<1>5. /\ \A x \in Workload \ {w} : objs'[x] = objs[x]
      /\ req' = Outdate(w) /\ UNCHANGED <<chosen, config>>
  BY DEF Inv, Cluster!TypeOK, Scan, Delete, Cluster!Downscale, Cluster!Upscale, Cluster!Delete
<1>6. \A x \in Request : RequestInv(Outdate(w)[x]) /\ Follows(Outdate(w)[x], objs'[Outdate(w)[x].w])
  BY <1>5, OutdateKeeps
<1>7. RequestsOK'
  <2>1. DOMAIN req' = Request
    BY <1>5 DEF Outdate
  <2> QED
    BY <1>5, <1>6, <2>1, RequestStays
<1> QED
  BY <1>1, <1>2, <1>4, <1>5, <1>7 DEF Inv

-----------------------------------------------------------------------------
(* The theorems.                                                           *)

\* Every step keeps the invariant.
LEMMA InvStep ==
  ASSUME Inv, [Next]_vars
  PROVE  Inv'
<1>0. CASE UNCHANGED vars
  BY <1>0 DEF vars, Inv, Cluster!TypeOK, RestOK, RequestsOK, RequestInv, RequestAnswered
<1>1. ASSUME NEW r \in Request, NEW w \in Workload, Submit(r, w) PROVE Inv'
  BY <1>1, SubmitKeeps DEF Submit, Inv, RestOK, Cluster!TypeOK
<1>2. ASSUME NEW r \in Request, HandleWorkloadMutation(r) PROVE Inv'
  BY <1>2, HandleKeeps DEF HandleWorkloadMutation, Inv, RestOK, Cluster!TypeOK
<1>3. ASSUME NEW r \in Request, GetNamespaceScope(r) PROVE Inv'
  <2>1. failures' \in 0..MaxFailures /\ UNCHANGED <<objs, chosen, annotations, now, config>>
    BY <1>3, AdmissionAssumption DEF GetNamespaceScope, Fail, Inv, RestOK
  <2> QED
    BY <1>3, <2>1, NamespaceKeeps DEF Inv, RestOK, Cluster!TypeOK
<1>4. ASSUME NEW r \in Request, mutateWorkload(r) PROVE Inv'
  BY <1>4, MutateKeeps DEF mutateWorkload, Inv, RestOK, Cluster!TypeOK
<1>5. ASSUME NEW r \in Request, Persist(r) PROVE Inv'
  BY <1>5, PersistKeeps DEF Persist, Inv, RestOK
<1>6. ASSUME NEW r \in Request, Refuse(r) PROVE Inv'
  BY <1>6, RefuseKeeps DEF Refuse, Inv, RestOK, Cluster!TypeOK
<1>7. ASSUME NEW r \in Request, TimeOut(r) PROVE Inv'
  <2>1. failures' \in 0..MaxFailures /\ UNCHANGED <<objs, chosen, annotations, now, config>>
    BY <1>7, AdmissionAssumption DEF TimeOut, Fail, Inv, RestOK
  <2> QED
    BY <1>7, <2>1, TimeOutKeeps DEF Inv, RestOK, Cluster!TypeOK
<1>8. ASSUME NEW w \in Workload, Scan(w) \/ Delete(w) PROVE Inv'
  BY <1>8, ScanKeeps DEF Scan, Delete, Inv, RestOK
<1>9. CASE (\E n \in Namespace : AnnotateNamespace(n)) \/ Tick
  <2>1. UNCHANGED <<objs, chosen, config, req, failures>>
    BY <1>9 DEF AnnotateNamespace, Tick
  <2>2. annotations' \in [Namespace -> NamespaceAnnotations] /\ now' \in 0..MaxTime
    BY <1>9, AdmissionAssumption DEF AnnotateNamespace, Tick, Inv, RestOK
  <2>3. RequestsOK'
    BY <2>1 DEF Inv, RequestsOK, RequestInv, RequestAnswered
  <2> QED
    BY <2>1, <2>2, <2>3 DEF Inv, RestOK, Cluster!TypeOK
<1> QED
  BY <1>0, <1>1, <1>2, <1>3, <1>4, <1>5, <1>6, <1>7, <1>8, <1>9 DEF Next, RequestStep

\* The invariant holds throughout.
LEMMA InvHolds == Spec => []Inv
<1>1. Init => Inv
  <2> SUFFICES ASSUME Init PROVE Inv
    OBVIOUS
  <2>1. Cluster!TypeOK
    BY ClusterAssumption
    DEF Init, Cluster!Init, Cluster!TypeOK, Cluster!ChosenIn, Cluster!WorkloadAssumption,
        Cluster!Object, Cluster!Current
  <2>2. RestOK
    BY AdmissionAssumption DEF Init, RestOK
  <2>3. RequestsOK
    BY IdleRecord DEF Init, RequestsOK
  <2> QED
    BY <2>1, <2>2, <2>3 DEF Inv
<1>2. Inv /\ [Next]_vars => Inv'
  BY InvStep
<1> QED
  BY <1>1, <1>2, PTL DEF Spec

\* The objects, the requests in flight and what the webhook knows of them keep
\* their types.
THEOREM TypeCorrect == Spec => []TypeOK
<1>1. Inv => TypeOK
  <2> SUFFICES ASSUME Inv PROVE TypeOK
    OBVIOUS
  <2>1. \A r \in Request :
          /\ req[r].pc \in RequestPc
          /\ req[r].pc # "idle" =>
               /\ req[r].w \in Workload
               /\ req[r].new.kind \in KindsOf[req[r].w]
               /\ req[r].new \in Cluster!Object(req[r].new.kind)
               /\ req[r].patched => req[r].at # Unset
    BY DEF Inv, RequestsOK, RequestInv, RequestType, RequestDecided
  <2> QED
    BY <2>1 DEF Inv, RestOK, RequestsOK, TypeOK
<1> QED
  BY <1>1, InvHolds, PTL

\* The webhook scales down nothing that a scan with the same annotations, at the
\* time at which the webhook decided, would leave alone or scale up, the grace
\* period aside.
THEOREM WebhookFollowsScans == Spec => []OnlyWhatScansScale
<1>1. Inv => OnlyWhatScansScale
  <2> SUFFICES ASSUME Inv, NEW r \in Request, req[r].patched
               PROVE  DecisionOf(r) = "down"
    BY DEF OnlyWhatScansScale
  <2> DEFINE q == req[r]
             s == ScopesIn(q)
             t == [i \in 1..5 |-> [ScopesOf(r)[i] EXCEPT !.GracePeriod = Unset]]
  <2>1. /\ q.pc = "answered" /\ q.new.scope # Malformed /\ q.nsScope \notin {Unset, Malformed}
        /\ Down(q, q.at)
    BY DEF Inv, RequestsOK, RequestInv, RequestDecided
  <2>2. q.new.scope \in Annotations /\ q.nsScope \in NamespaceAnnotations
    BY <2>1 DEF Inv, RequestsOK, RequestInv, RequestType, Cluster!Object
  <2>3. \A i \in 1..5 : DOMAIN s[i] = ScopeFields
    BY <2>1, <2>2, ReplicasAreTargets
  <2>4. /\ DOMAIN s = 1..5 /\ 1..5 \subseteq Nat /\ DOMAIN t = 1..5
        /\ \A i \in 1..5 : t[i] = [s[i] EXCEPT !.GracePeriod = Unset]
    BY DEF ScopesIn, ScopesOf
  <2>5. DecisionOf(r) = ScanDecision(t, q.new.created, q.at)
    BY DEF DecisionOf
  <2> HIDE DEF s, t
  <2>6. ScanDecision(t, q.new.created, q.at) =
          IF ~GetExcluded(s, q.at) THEN GetCurrentScaling(s, q.at)
          ELSE IF GetUpscaleExcluded(s) THEN "up" ELSE "skip"
    <3>1. /\ DOMAIN s \subseteq Nat /\ DOMAIN t = DOMAIN s
          /\ \A i \in DOMAIN s : t[i]["GracePeriod"] = Unset
          /\ \A i \in DOMAIN s : \A f \in ScopeFields \ {"GracePeriod"} : t[i][f] = s[i][f]
      BY <2>3, <2>4 DEF ScopeFields
    <3> HIDE DEF q
    <3> QED
      BY <3>1, GraceAside
  <2> QED
    BY <2>1, <2>5, <2>6 DEF Down, s
<1> QED
  BY <1>1, InvHolds, PTL

\* If the next scan would scale down what was just persisted, with nothing changed
\* since the webhook answered, then the webhook looked for ScaledObjects.
LEMMA PersistedIsModified ==
  ASSUME Inv, [Next]_vars, NEW r \in Request, ScanWouldFollow(r)
  PROVE  config.IncludeScaledObjects
<1> DEFINE q == req[r]
           w == req[r].w
           scopes == <<objs'[w].scope, annotations[NamespaceOf[w]], scopeCli, scopeEnv,
                       scopeDefault>>
<1>1. /\ q.pc = "answered" /\ req'[r].pc = "idle" /\ objs'[w] # objs[w]
      /\ ~q.failed /\ ~config.DryRun /\ w \notin Unparsable \cup Filtered
      /\ q.nsScope \in {Unset, annotations[NamespaceOf[w]]}
      /\ q.at \in {Unset, now}
      /\ GetScopeFromAnnotations(objs'[w].scope)
      /\ GetScopeFromAnnotations(annotations[NamespaceOf[w]])
      /\ ScanDecision(scopes, objs'[w].created, now) = "down"
      /\ Cluster!ScaleDown(objs'[w], GetDownscaleReplicas(scopes)).status = "update"
  BY DEF ScanWouldFollow
<1>2. DOMAIN req = Request /\ RequestInv(q)
  BY DEF Inv, RequestsOK
<1>3. w \in Workload /\ DOMAIN objs = Workload
  BY <1>1, <1>2 DEF RequestInv, RequestType, Inv, Cluster!TypeOK
\* Only Persist changes the object and lets go of the request.
<1>4. objs'[w] = q.new
  <2>1. PICK x \in Request : Persist(x)
    <3>1. CASE UNCHANGED objs
      BY <1>1, <3>1
    <3>2. CASE \E x \in Workload : Scan(x) \/ Delete(x)
      <4>1. PICK x \in Workload : Scan(x) \/ Delete(x)
        BY <3>2
      <4>2. /\ \A y \in Workload \ {x} : objs'[y] = objs[y]
            /\ req' = Outdate(x)
        BY <4>1, ScanKeeps
      <4>3. Outdate(x)[r].pc = req[r].pc
        BY <4>1, <4>2, OutdateKeeps
      <4> QED
        BY <1>1, <4>2, <4>3
    <3> QED
      BY <3>1, <3>2 DEF Next, RequestStep, Submit, HandleWorkloadMutation, GetNamespaceScope,
                        mutateWorkload, Refuse, TimeOut, AnnotateNamespace, Tick, vars
  <2>2. /\ objs' = [objs EXCEPT ![req[x].w] = req[x].new]
        /\ req' = [Outdate(req[x].w) EXCEPT ![x] = NoRequest]
        /\ req[x].w \in Workload
    BY <2>1 DEF Persist, Inv, RequestsOK, RequestInv, RequestType
  <2>3. CASE x = r
    BY <1>3, <2>2, <2>3
  <2>4. CASE x # r
    <3>1. \A y \in Workload \ {req[x].w} : objs'[y] = objs[y]
      BY <1>3, <2>2
    <3>2. Outdate(req[x].w)[r].pc = req[r].pc
      BY <2>2, <3>1, OutdateKeeps
    <3>3. req'[r] = Outdate(req[x].w)[r]
      BY <2>2, <2>4 DEF Outdate
    <3> QED
      BY <1>1, <3>2, <3>3
  <2> QED
    BY <2>3, <2>4
<1> SUFFICES ASSUME ~config.IncludeScaledObjects PROVE FALSE
  OBVIOUS
\* Of the reasons for the answer, only a decision is left.
<1>5. /\ q.nsScope # Unset /\ q.at # Unset
      /\ \/ ~Down(q, q.at)
         \/ Cluster!ScaleDown(q.new, GetDownscaleReplicas(ScopesIn(q))).status # "update"
  <2>1. q.nsScope # Unset => GetScopeFromAnnotations(q.nsScope)
    BY <1>1
  <2>2. GetScopeFromAnnotations(q.new.scope)
    BY <1>1, <1>4
  <2> QED
    BY <1>1, <1>2, <2>1, <2>2 DEF RequestInv, RequestAnswered
<1>6. q.nsScope = annotations[NamespaceOf[w]] /\ q.at = now
  BY <1>1, <1>5
<1>7. scopes = ScopesIn(q)
  BY <1>4, <1>6 DEF ScopesIn
\* The scan decides with the same scopes at the same time.
<1>8. ScanDecision(ScopesIn(q), q.new.created, q.at) = "down"
  BY <1>1, <1>4, <1>6, <1>7
<1>9. Down(q, q.at)
  BY <1>8 DEF ScanDecision, Down
<1> QED
  BY <1>1, <1>4, <1>5, <1>7, <1>9

\* A workload that went through the webhook is not scaled down by the next scan,
\* if nothing has changed since the webhook decided and nothing failed, whatever
\* the other requests and the scans do; the exception is a webhook that looks for
\* ScaledObjects.
THEOREM WebhookComplies == Spec => ImmediateCompliance
<1>1. Inv /\ [Next]_vars => [\A r \in Request : ScanWouldFollow(r) => config.IncludeScaledObjects]_vars
  BY PersistedIsModified
<1> QED
  BY <1>1, InvHolds, PTL DEF Spec, ImmediateCompliance

-----------------------------------------------------------------------------
(* The original state.                                                     *)

\* A request that is not outdated, persisted now, would leave an object whose
\* original is known: c are the values that were chosen for the object o.
Keeps(q, o, c) ==
  q.pc # "idle" /\ ~q.outdated =>
    Cluster!ObjectInv(q.new, (IF o.live THEN c ELSE {}) \cup q.asked)

OriginalsOK ==
  /\ Cluster!OriginalInv
  /\ \A r \in Request : Keeps(req[r], objs[req[r].w], chosen[req[r].w])

\* The condition on an object is the same for the facts about WorkloadScaling.
LEMMA SameOriginal ==
  /\ \A o, c : Facts!ObjectInv(o, c) <=> Cluster!ObjectInv(o, c)
  /\ Facts!OriginalInv <=> Cluster!OriginalInv
<1>1. \A o, c : Facts!ObjectInv(o, c) <=> Cluster!ObjectInv(o, c)
  BY SameScaling
  DEF Facts!ObjectInv, Cluster!ObjectInv, Facts!Superseded, Cluster!Superseded,
      Facts!Applicable, Cluster!Applicable, Facts!ReplicaKinds, Cluster!ReplicaKinds
<1> QED
  BY <1>1 DEF Facts!OriginalInv, Cluster!OriginalInv

\* More chosen values do no harm.
LEMMA ChoicesGrow ==
  ASSUME NEW o, NEW c, NEW e, c \subseteq e, Cluster!ObjectInv(o, c)
  PROVE  Cluster!ObjectInv(o, e)
BY DEF Cluster!ObjectInv

\* A step that touches no object, and of the requests only r.
LEMMA OneOriginal ==
  ASSUME OriginalsOK, NEW r \in Request, UNCHANGED <<objs, chosen>>,
         \A x \in Request \ {r} : req'[x] = req[x],
         Keeps(req'[r], objs[req'[r].w], chosen[req'[r].w])
  PROVE  OriginalsOK'
<1>1. \A x \in Request : Keeps(req'[x], objs'[req'[x].w], chosen'[req'[x].w])
  <2> SUFFICES ASSUME NEW x \in Request
               PROVE  Keeps(req'[x], objs[req'[x].w], chosen[req'[x].w])
    OBVIOUS
  <2>1. CASE x = r
    BY <2>1
  <2>2. CASE x # r
    BY <2>2 DEF OriginalsOK
  <2> QED
    BY <2>1, <2>2
<1> QED
  BY <1>1 DEF OriginalsOK, Cluster!OriginalInv

\* A step of the handler that leaves the object of the request as it is.
LEMMA SameRequest ==
  ASSUME Inv, OriginalsOK, NEW r \in Request, UNCHANGED <<objs, chosen>>, req[r].pc # "idle",
         \A x \in Request \ {r} : req'[x] = req[x],
         /\ req'[r].w = req[r].w /\ req'[r].new = req[r].new
         /\ req'[r].asked = req[r].asked /\ req'[r].outdated = req[r].outdated
  PROVE  OriginalsOK'
<1>1. Keeps(req[r], objs[req[r].w], chosen[req[r].w])
  BY DEF OriginalsOK
<1>2. Keeps(req'[r], objs[req'[r].w], chosen[req'[r].w])
  BY <1>1 DEF Keeps
<1> QED
  BY <1>2, OneOriginal

\* The record of a request in flight.
LEMMA RecordOf ==
  ASSUME Inv, NEW r \in Request
  PROVE  /\ DOMAIN req = Request
         /\ req[r] \in [pc : RequestPc, w : {req[r].w}, new : {req[r].new},
                        asked : {req[r].asked}, outdated : BOOLEAN,
                        nsScope : NamespaceAnnotations \cup {Unset},
                        at : (0..MaxTime) \cup {Unset}, patched : BOOLEAN, failed : BOOLEAN]
BY DEF Inv, RequestsOK, RequestInv, RequestType

\* What somebody proposes keeps the original of an object that is there, or is
\* itself the choice.
LEMMA SubmitOriginal ==
  ASSUME Inv, OriginalsOK, NEW r \in Request, NEW w \in Workload, Submit(r, w)
  PROVE  OriginalsOK'
<1> DEFINE old == objs[w]
<1>1. PICK o \in Proposals(w, old) :
        req' = [req EXCEPT ![r] = [NoRequest EXCEPT !.pc = "received", !.w = w, !.new = o,
                                                    !.asked = Asked(objs[w], o)]]
  BY DEF Submit
<1>2. /\ \A x \in Request \ {r} : req'[x] = req[x]
      /\ req'[r].w = w /\ req'[r].new = o /\ req'[r].asked = Asked(old, o)
      /\ UNCHANGED <<objs, chosen>>
  BY <1>1, RecordOf DEF NoRequest, Submit
<1>3. Cluster!ObjectInv(old, chosen[w])
  BY DEF OriginalsOK, Cluster!OriginalInv
<1>4. /\ o.kind \in KindsOf[w] /\ o \in Cluster!Object(o.kind)
      /\ old.live => o.kind = old.kind /\ o.orig = old.orig
      /\ ~old.live => o.orig = Unset
  BY ProposalType
<1>5. o.max \in Asked(old, o) /\ (o.val \in Asked(old, o) \/ (old.live /\ o.val = old.val))
  <2>1. o.max \in Asked(old, o)
    BY DEF Asked
  <2>2. CASE ~(old.live /\ o.val = old.val)
    <3>1. Asked(old, o) = {o.max} \cup {o.val}
      BY <2>2 DEF Asked
    <3> QED
      BY <2>1, <3>1
  <2> QED
    BY <2>1, <2>2
<1> HIDE DEF old
<1>6. Cluster!ObjectInv(o, (IF old.live THEN chosen[w] ELSE {}) \cup Asked(old, o))
  <2>1. CASE old.live /\ o.val = old.val
    <3>1. \A d : Cluster!IsDown(old, d) => Cluster!IsDown(o, d)
      BY <1>4, <2>1 DEF Cluster!IsDown, Cluster!DownValue
    <3> QED
      BY <1>3, <1>4, <1>5, <2>1, <3>1 DEF Cluster!ObjectInv
  <2>2. CASE old.live /\ o.val # old.val
    BY <1>3, <1>4, <1>5, <2>2 DEF Cluster!ObjectInv
  <2>3. CASE ~old.live
    BY <1>4, <1>5, <2>3 DEF Cluster!ObjectInv
  <2> QED
    BY <2>1, <2>2, <2>3
<1>7. Keeps(req'[r], objs[req'[r].w], chosen[req'[r].w])
  BY <1>2, <1>6 DEF Keeps, old
<1> QED
  BY <1>2, <1>7, OneOriginal

\* What the webhook scales down keeps its original as what a scan scales down
\* does.
LEMMA MutateOriginal ==
  ASSUME Inv, OriginalsOK, NEW r \in Request, mutateWorkload(r)
  PROVE  OriginalsOK'
<1> DEFINE q == req[r]
           k == q.new.kind
           d == GetDownscaleReplicas(ScopesIn(q))
           down == Cluster!ScaleDown(q.new, d)
           c == (IF objs[q.w].live THEN chosen[q.w] ELSE {}) \cup q.asked
<1>1. /\ q.pc = "decide" /\ UNCHANGED <<objs, chosen>> /\ DOMAIN req = Request
      /\ RequestInv(q)
  BY DEF mutateWorkload, Inv, RequestsOK
<1>2. CASE /\ Patch(r).status # "error"
           /\ req' = [req EXCEPT ![r].pc = "answered", ![r].at = now,
                                 ![r].new = Patch(r).obj, ![r].patched = TRUE]
  <2>1. /\ \A x \in Request \ {r} : req'[x] = req[x]
        /\ req'[r].w = q.w /\ req'[r].new = down.obj
        /\ req'[r].asked = q.asked /\ req'[r].outdated = q.outdated
    <3>1. Patch(r) = down
      BY DEF Patch, ScopesOf, ScopesIn
    <3> HIDE DEF down
    <3> QED
      BY <1>1, <1>2, <3>1, RecordOf
  <2>2. k \in Cluster!Kinds /\ q.new \in Cluster!Object(k) /\ q.new.scope \in Annotations
    <3>1. q.w \in Workload /\ k \in KindsOf[q.w] /\ q.new \in Cluster!Object(k)
      BY <1>1 DEF RequestInv, RequestType
    <3> QED
      BY <3>1, ClusterAssumption DEF Cluster!WorkloadAssumption, Cluster!Object
  <2>3. d \in Targets
    <3>1. /\ q.new.scope # Malformed /\ q.nsScope # Malformed
          /\ q.nsScope \in NamespaceAnnotations
      BY <1>1 DEF RequestInv, RequestType, RequestDecided, GetScopeFromAnnotations
    <3> QED
      BY <2>2, <3>1, ReplicasAreTargets
  <2>4. down.status # "error"
    BY <1>2 DEF Patch, ScopesOf, ScopesIn
  <2>5. Keeps(q, objs[q.w], chosen[q.w])
    BY DEF OriginalsOK
  <2> HIDE DEF d
  <2>6. ~q.outdated => Cluster!ObjectInv(down.obj, c)
    <3> SUFFICES ASSUME ~q.outdated PROVE Cluster!ObjectInv(down.obj, c)
      OBVIOUS
    <3>0. Cluster!ObjectInv(q.new, c)
      BY <1>1, <2>5 DEF Keeps
    <3> HIDE DEF c, q
    <3>1. CASE down.status = "update"
      <4>1. Facts!ScaleDown(q.new, d).status = "update"
        BY <3>1, SameScaling
      <4>2. /\ k \in Facts!Kinds /\ q.new \in Facts!Object(k) /\ Facts!ObjectInv(q.new, c)
        BY <2>2, <3>0, SameObjects, SameOriginal
      <4>3. Facts!ObjectInv(Facts!ScaleDown(q.new, d).obj, c)
        BY <2>3, <4>1, <4>2, FactsAssumption, Facts!DownscaleKeeps
      <4> QED
        BY <4>3, SameScaling, SameOriginal
    <3>2. CASE down.status # "update"
      <4>1. down = Cluster!Skip(q.new)
        BY <2>2, <2>4, <3>2, ScaleDownResults DEF Cluster!Error
      <4> QED
        BY <3>0, <4>1 DEF Cluster!Skip
    <3> QED
      BY <3>1, <3>2
  <2> HIDE DEF down
  <2>7. Keeps(req'[r], objs[req'[r].w], chosen[req'[r].w])
    BY <2>1, <2>6 DEF Keeps
  <2> QED
    BY <1>1, <2>1, <2>7, OneOriginal
<1>3. CASE req' = [req EXCEPT ![r].pc = "answered", ![r].at = now]
  <2>1. /\ \A x \in Request \ {r} : req'[x] = req[x]
        /\ req'[r].w = req[r].w /\ req'[r].new = req[r].new
        /\ req'[r].asked = req[r].asked /\ req'[r].outdated = req[r].outdated
    BY <1>1, <1>3, RecordOf
  <2> QED
    BY <1>1, <2>1, SameRequest
<1> QED
  BY <1>2, <1>3 DEF mutateWorkload

\* A request that changes an object leaves one whose original is known, and
\* outdates the requests for what was there before.
LEMMA PersistOriginal ==
  ASSUME Inv, OriginalsOK, NEW r \in Request, Persist(r)
  PROVE  OriginalsOK'
<1> DEFINE q == req[r]
           w == req[r].w
<1>1. /\ q.pc = "answered" /\ ~q.outdated
      /\ objs' = [objs EXCEPT ![w] = q.new]
      /\ chosen' = [chosen EXCEPT ![w] = (IF objs[w].live THEN @ ELSE {}) \cup q.asked]
      /\ req' = [Outdate(w) EXCEPT ![r] = NoRequest]
  BY DEF Persist
<1>2. /\ w \in Workload /\ DOMAIN objs = Workload /\ DOMAIN chosen = Workload
      /\ DOMAIN req = Request
  BY <1>1 DEF Inv, RequestsOK, RequestInv, RequestType, Cluster!TypeOK
<1>3. /\ objs'[w] = q.new /\ chosen'[w] = (IF objs[w].live THEN chosen[w] ELSE {}) \cup q.asked
      /\ \A x \in Workload \ {w} : objs'[x] = objs[x] /\ chosen'[x] = chosen[x]
  BY <1>1, <1>2
<1>4. Cluster!OriginalInv'
  <2>1. Cluster!ObjectInv(objs'[w], chosen'[w])
    BY <1>1, <1>3 DEF OriginalsOK, Keeps
  <2> QED
    BY <1>3, <2>1 DEF OriginalsOK, Cluster!OriginalInv
<1>5. \A x \in Request : Keeps(req'[x], objs'[req'[x].w], chosen'[req'[x].w])
  <2> SUFFICES ASSUME NEW x \in Request
               PROVE  Keeps(req'[x], objs'[req'[x].w], chosen'[req'[x].w])
    OBVIOUS
  <2>1. CASE x = r
    <3>1. req'[x] = NoRequest
      BY <1>1, <2>1 DEF Outdate
    <3> QED
      BY <3>1 DEF Keeps, NoRequest
  <2>2. CASE x # r
    <3> DEFINE n == Outdate(w)[x]
    <3>1. req'[x] = n
      BY <1>1, <2>2 DEF Outdate
    <3>2. /\ n.pc = req[x].pc /\ n.w = req[x].w /\ n.new = req[x].new
          /\ n.asked = req[x].asked
          /\ n.pc # "idle" /\ ~n.outdated => ~req[x].outdated /\ objs'[n.w] = objs[n.w]
      BY <1>2, <1>3, OutdateKeeps
    <3> HIDE DEF n
    <3>3. ASSUME n.pc # "idle", ~n.outdated
          PROVE  Cluster!ObjectInv(n.new, (IF objs'[n.w].live THEN chosen'[n.w] ELSE {}) \cup n.asked)
      <4>1. /\ Cluster!ObjectInv(n.new, (IF objs[n.w].live THEN chosen[n.w] ELSE {}) \cup n.asked)
            /\ objs'[n.w] = objs[n.w]
        BY <3>2, <3>3 DEF OriginalsOK, Keeps
      <4>2. n.w \in Workload
        BY <3>2, <3>3 DEF Inv, RequestsOK, RequestInv, RequestType
      <4>3. (IF objs[n.w].live THEN chosen[n.w] ELSE {}) \cup n.asked
              \subseteq (IF objs'[n.w].live THEN chosen'[n.w] ELSE {}) \cup n.asked
        BY <1>3, <4>1, <4>2
      <4> QED
        BY <4>1, <4>3, ChoicesGrow
    <3> QED
      BY <3>1, <3>3 DEF Keeps
  <2> QED
    BY <2>1, <2>2
<1> QED
  BY <1>4, <1>5 DEF OriginalsOK

\* So does a scan.
LEMMA ScanOriginal ==
  ASSUME Inv, OriginalsOK, NEW w \in Workload, Scan(w) \/ Delete(w)
  PROVE  OriginalsOK'
<1>1. /\ Facts!TypeOK /\ [Facts!Next]_Facts!vars /\ req' = Outdate(w) /\ chosen' = chosen
      /\ \A x \in Workload \ {w} : objs'[x] = objs[x]
  BY ScanKeeps
<1>2. Cluster!OriginalInv'
  <2>1. Facts!OriginalInv
    BY SameOriginal DEF OriginalsOK
  <2>2. Facts!OriginalInv'
    BY <1>1, <2>1, FactsAssumption, Facts!OriginalStep
  <2> QED
    BY <2>2, SameOriginal DEF Facts!OriginalInv, Cluster!OriginalInv
<1>3. ASSUME NEW x \in Request
      PROVE  Keeps(req'[x], objs'[req'[x].w], chosen'[req'[x].w])
  <2> DEFINE n == Outdate(w)[x]
  <2>1. /\ n.pc = req[x].pc /\ n.w = req[x].w /\ n.new = req[x].new
        /\ n.asked = req[x].asked
        /\ n.pc # "idle" /\ ~n.outdated => ~req[x].outdated /\ objs'[n.w] = objs[n.w]
    BY <1>1, OutdateKeeps
  <2> HIDE DEF n
  <2>2. Keeps(n, objs'[n.w], chosen[n.w])
    BY <2>1 DEF OriginalsOK, Keeps
  <2> QED
    BY <1>1, <2>2 DEF n
<1> QED
  BY <1>2, <1>3 DEF OriginalsOK

\* No step loses an original.
LEMMA OriginalsStep ==
  ASSUME Inv, OriginalsOK, [Next]_vars
  PROVE  OriginalsOK'
<1>0. CASE UNCHANGED <<objs, chosen, req>>
  BY <1>0 DEF OriginalsOK, Cluster!OriginalInv
<1>1. ASSUME NEW r \in Request,
             \/ HandleWorkloadMutation(r) \/ GetNamespaceScope(r)
             \/ TimeOut(r) /\ config.FailurePolicy = "Ignore"
      PROVE  OriginalsOK'
  <2>1. UNCHANGED <<objs, chosen>> /\ req[r].pc # "idle"
    BY <1>1 DEF HandleWorkloadMutation, GetNamespaceScope, TimeOut
  <2>2. /\ \A x \in Request \ {r} : req'[x] = req[x]
        /\ req'[r].w = req[r].w /\ req'[r].new = req[r].new
        /\ req'[r].asked = req[r].asked /\ req'[r].outdated = req[r].outdated
    <3>1. CASE HandleWorkloadMutation(r)
      BY <3>1, RecordOf DEF HandleWorkloadMutation, Allow
    <3>2. CASE GetNamespaceScope(r)
      BY <3>2, RecordOf DEF GetNamespaceScope, Allow
    <3>3. CASE TimeOut(r) /\ config.FailurePolicy = "Ignore"
      BY <3>3, RecordOf DEF TimeOut
    <3> QED
      BY <1>1, <3>1, <3>2, <3>3
  <2> QED
    BY <2>1, <2>2, SameRequest
<1>2. ASSUME NEW r \in Request, Refuse(r) \/ (TimeOut(r) /\ config.FailurePolicy # "Ignore")
      PROVE  OriginalsOK'
  <2>1. /\ UNCHANGED <<objs, chosen>> /\ \A x \in Request \ {r} : req'[x] = req[x]
        /\ req'[r] = NoRequest
    BY <1>2, RecordOf DEF Refuse, TimeOut
  <2>2. Keeps(NoRequest, objs[NoRequest.w], chosen[NoRequest.w])
    BY DEF Keeps, NoRequest
  <2> QED
    BY <2>1, <2>2, OneOriginal
<1>3. CASE (\E n \in Namespace : AnnotateNamespace(n)) \/ Tick
  BY <1>0, <1>3 DEF AnnotateNamespace, Tick
<1>4. CASE UNCHANGED vars
  BY <1>0, <1>4 DEF vars
<1> QED
  BY <1>1, <1>2, <1>3, <1>4, SubmitOriginal, MutateOriginal, PersistOriginal, ScanOriginal
  DEF Next, RequestStep

\* The webhook and the scans together lose no original, whatever requests are in
\* flight while a scan scales their objects, unless a target was superseded.
THEOREM OriginalKeptByWebhook == Spec => []OriginalChosen
<1>1. Init => OriginalsOK
  <2> SUFFICES ASSUME Init PROVE OriginalsOK
    OBVIOUS
  <2>1. Cluster!OriginalInv
    <3> SUFFICES ASSUME NEW w \in Workload PROVE Cluster!ObjectInv(objs[w], chosen[w])
      BY DEF Cluster!OriginalInv
    <3>1. objs[w] = InitialObjects[w] /\ chosen[w] = Cluster!ChosenIn(objs[w])
      BY DEF Init, Cluster!Init
    <3> QED
      BY <3>1, ClusterAssumption
      DEF Cluster!ObjectInv, Cluster!ChosenIn, Cluster!WorkloadAssumption
  <2>2. \A r \in Request : Keeps(req[r], objs[req[r].w], chosen[req[r].w])
    <3>1. \A r \in Request : req[r].pc = "idle"
      BY DEF Init, NoRequest
    <3> QED
      BY <3>1 DEF Keeps
  <2> QED
    BY <2>1, <2>2 DEF OriginalsOK
<1>2. Inv /\ OriginalsOK /\ [Next]_vars => OriginalsOK'
  BY OriginalsStep
<1>3. OriginalsOK => OriginalChosen
  BY DEF OriginalsOK, OriginalChosen, Cluster!OriginalInv, Cluster!OriginalChosen,
         Cluster!ObjectInv
<1> QED
  BY <1>1, <1>2, <1>3, InvHolds, PTL DEF Spec

-----------------------------------------------------------------------------
\* A step that ends a request without storing its object finds it outdated, or is
\* the API server's, for want of an answer.
LEMMA DenialIsPolicy ==
  ASSUME Inv, [Next]_vars, NEW r \in Request, Denied(r)
  PROVE  config.FailurePolicy = "Fail"
<1>1. /\ req[r].pc # "idle" /\ req'[r].pc = "idle"
      /\ ~req[r].outdated /\ objs'[req[r].w] # req[r].new
  BY DEF Denied
<1>2. DOMAIN req = Request /\ DOMAIN objs = Workload /\ req[r].w \in Workload
  BY <1>1, RecordOf DEF Inv, RequestsOK, RequestInv, RequestType, Cluster!TypeOK
<1>3. ASSUME NEW w \in Workload, \A y \in Workload \ {w} : objs'[y] = objs[y],
             req'[r] = Outdate(w)[r]
      PROVE  FALSE
  <2>1. Outdate(w)[r].pc = req[r].pc
    BY <1>3, OutdateKeeps
  <2> QED
    BY <1>1, <1>3, <2>1
<1>4. ASSUME NEW w \in Workload, Scan(w) \/ Delete(w) PROVE FALSE
  <2>1. req' = Outdate(w) /\ \A y \in Workload \ {w} : objs'[y] = objs[y]
    BY <1>4, ScanKeeps
  <2> QED
    BY <1>3, <2>1
<1>5. ASSUME NEW x \in Request, Persist(x) PROVE FALSE
  <2>1. /\ objs' = [objs EXCEPT ![req[x].w] = req[x].new]
        /\ req' = [Outdate(req[x].w) EXCEPT ![x] = NoRequest]
        /\ req[x].w \in Workload
    BY <1>5 DEF Persist, Inv, RequestsOK, RequestInv, RequestType
  <2>2. CASE x = r
    BY <1>1, <1>2, <2>1, <2>2
  <2>3. CASE x # r
    <3>1. req'[r] = Outdate(req[x].w)[r] /\ \A y \in Workload \ {req[x].w} : objs'[y] = objs[y]
      BY <1>2, <2>1, <2>3 DEF Outdate
    <3> QED
      BY <1>3, <2>1, <3>1
  <2> QED
    BY <2>2, <2>3
<1>6. ASSUME NEW x \in Request,
             \/ \E w \in Workload : Submit(x, w)
             \/ HandleWorkloadMutation(x) \/ GetNamespaceScope(x) \/ mutateWorkload(x)
      PROVE  FALSE
  <2>1. CASE \E w \in Workload : Submit(x, w)
    <3>1. PICK w \in Workload : Submit(x, w)
      BY <2>1
    <3>2. PICK o \in Proposals(w, objs[w]) :
            req' = [req EXCEPT ![x] = [NoRequest EXCEPT !.pc = "received", !.w = w, !.new = o,
                                                        !.asked = Asked(objs[w], o)]]
      BY <3>1 DEF Submit
    <3>3. req'[r].pc = IF x = r THEN "received" ELSE req[r].pc
      BY <1>2, <3>2 DEF NoRequest
    <3> QED
      BY <1>1, <3>3
  <2>2. CASE HandleWorkloadMutation(x)
    <3>1. CASE req' = [req EXCEPT ![x].pc = "answered"]
      BY <1>1, <1>2, <3>1, RecordOf
    <3>2. CASE req' = [req EXCEPT ![x].pc = "scopes"]
      BY <1>1, <1>2, <3>2, RecordOf
    <3> QED
      BY <2>2, <3>1, <3>2 DEF HandleWorkloadMutation, Allow
  <2>3. CASE GetNamespaceScope(x)
    <3> DEFINE a == annotations[NamespaceOf[req[x].w]]
               p == IF GetScopeFromAnnotations(a) THEN "decide" ELSE "answered"
    <3>1. CASE req' = [req EXCEPT ![x].pc = "answered"]
      BY <1>1, <1>2, <3>1, RecordOf
    <3>2. CASE req' = [req EXCEPT ![x].nsScope = a, ![x].pc = p]
      <4>1. p # "idle"
        OBVIOUS
      <4> HIDE DEF a, p
      <4> QED
        BY <1>1, <1>2, <3>2, <4>1, RecordOf
    <3>3. CASE req' = [req EXCEPT ![x].pc = "answered", ![x].failed = TRUE]
      BY <1>1, <1>2, <3>3, RecordOf
    <3> QED
      BY <2>3, <3>1, <3>2, <3>3 DEF GetNamespaceScope, Allow
  <2>4. CASE mutateWorkload(x)
    BY <1>1, <1>2, <2>4, RecordOf DEF mutateWorkload
  <2> QED
    BY <1>6, <2>1, <2>2, <2>3, <2>4
<1>7. ASSUME NEW x \in Request, Refuse(x) PROVE FALSE
  BY <1>1, <1>7 DEF Refuse
<1>8. ASSUME NEW x \in Request, TimeOut(x) PROVE config.FailurePolicy = "Fail"
  <2>1. CASE req' = [req EXCEPT ![x].pc = "answered", ![x].failed = TRUE]
    <3>1. req'[r].pc # "idle"
      BY <1>1, <2>1, RecordOf
    <3> QED
      BY <1>1, <3>1
  <2> QED
    BY <1>8, <2>1 DEF TimeOut
<1>9. CASE (\E n \in Namespace : AnnotateNamespace(n)) \/ Tick \/ UNCHANGED vars
  BY <1>1, <1>9 DEF AnnotateNamespace, Tick, vars
<1> QED
  BY <1>4, <1>5, <1>6, <1>7, <1>8, <1>9 DEF Next, RequestStep

\* Whatever fails, a request that reaches the webhook is stored or refused by the
\* optimistic lock, unless the failure policy asks for a denial: the webhook
\* itself denies nothing.
THEOREM NothingIsDenied == Spec => OnlyPolicyDenies
<1>1. Inv /\ [Next]_vars => [\A r \in Request : Denied(r) => config.FailurePolicy = "Fail"]_vars
  BY DenialIsPolicy
<1> QED
  BY <1>1, InvHolds, PTL DEF Spec, OnlyPolicyDenies
=============================================================================
