---------------------------- MODULE ScopesProofs ----------------------------
(***************************************************************************)
(* What the operators of Scopes compute, for sequences of any number of    *)
(* scopes: the most specific scope that has something to say is the one    *)
(* that is asked, and every workload gets a decision.                      *)
(***************************************************************************)
EXTENDS Scopes, WellFoundedInduction, TLAPS

\* A non-empty set of indices has a least one.
LEMMA LeastIndex ==
  ASSUME NEW S \in SUBSET Nat, S # {}
  PROVE  \E i \in S : \A j \in S : i <= j
<1>1. PICK i \in S : \A j \in S : ~(<<j, i>> \in OpToRel(<, Nat))
  BY NatLessThanWellFounded, WFMin
<1>2. \A j \in S : ~(j < i)
  BY <1>1 DEF OpToRel
<1> QED
  BY <1>2

\* The loops over the scopes stop at the first one whose scaling is not "none".
LEMMA FirstNotNoneIsFirst ==
  ASSUME NEW seq, DOMAIN seq \subseteq Nat
  PROVE  \/ /\ FirstNotNone(seq) = "none"
            /\ \A i \in DOMAIN seq : seq[i] = "none"
         \/ \E i \in DOMAIN seq :
              /\ FirstNotNone(seq) = seq[i] /\ seq[i] # "none"
              /\ \A j \in DOMAIN seq : j < i => seq[j] = "none"
<1> DEFINE S == {i \in DOMAIN seq : seq[i] # "none"}
<1>1. CASE S = {}
  BY <1>1 DEF FirstNotNone
<1>2. CASE S # {}
  <2>1. \E i \in DOMAIN seq : seq[i] # "none" /\ \A j \in DOMAIN seq : seq[j] # "none" => i <= j
    <3>1. PICK i \in S : \A j \in S : i <= j
      BY <1>2, LeastIndex
    <3> QED
      BY <3>1
  <2> DEFINE i == CHOOSE i \in DOMAIN seq :
                    seq[i] # "none" /\ \A j \in DOMAIN seq : seq[j] # "none" => i <= j
  <2>2. i \in DOMAIN seq /\ seq[i] # "none" /\ \A j \in DOMAIN seq : seq[j] # "none" => i <= j
    BY <2>1
  <2>3. FirstNotNone(seq) = seq[i]
    BY <1>2 DEF FirstNotNone, First
  <2> HIDE DEF i
  <2>4. \A j \in DOMAIN seq : j < i => seq[j] = "none"
    BY <2>2
  <2> QED
    BY <2>2, <2>3, <2>4
<1> QED
  BY <1>1, <1>2

\* A field is taken from the most specific scope that sets it.
LEMMA FirstSetIsFirst ==
  ASSUME NEW scopes, DOMAIN scopes \subseteq Nat, NEW field
  PROVE  \/ /\ FirstSet(scopes, field) = Unset
            /\ \A i \in DOMAIN scopes : scopes[i][field] = Unset
         \/ \E i \in DOMAIN scopes :
              /\ FirstSet(scopes, field) = scopes[i][field]
              /\ scopes[i][field] # Unset
              /\ \A j \in DOMAIN scopes : j < i => scopes[j][field] = Unset
<1> DEFINE S == {i \in DOMAIN scopes : scopes[i][field] # Unset}
<1>1. CASE S = {}
  BY <1>1 DEF FirstSet
<1>2. CASE S # {}
  <2>1. \E i \in DOMAIN scopes :
          /\ scopes[i][field] # Unset
          /\ \A j \in DOMAIN scopes : scopes[j][field] # Unset => i <= j
    <3>1. PICK i \in S : \A j \in S : i <= j
      BY <1>2, LeastIndex
    <3> QED
      BY <3>1
  <2> DEFINE i == CHOOSE i \in DOMAIN scopes :
                    /\ scopes[i][field] # Unset
                    /\ \A j \in DOMAIN scopes : scopes[j][field] # Unset => i <= j
  <2>2. /\ i \in DOMAIN scopes /\ scopes[i][field] # Unset
        /\ \A j \in DOMAIN scopes : scopes[j][field] # Unset => i <= j
    BY <2>1
  <2>3. FirstSet(scopes, field) = scopes[i][field]
    BY <1>2 DEF FirstSet, First
  <2> HIDE DEF i
  <2>4. \A j \in DOMAIN scopes : j < i => scopes[j][field] = Unset
    BY <2>2
  <2> QED
    BY <2>2, <2>3, <2>4
<1> QED
  BY <1>1, <1>2

-----------------------------------------------------------------------------
(* Every workload gets a decision.                                         *)

\* Whether a list of timespans matches is one of three answers.
LEMMA InTimeSpansType ==
  ASSUME NEW spans, NEW now
  PROVE  inTimeSpans(spans, now) \in {"in", "out", "error"}
BY DEF inTimeSpans

\* A scope asks for one of the scaling states.
LEMMA ScopeScalingType ==
  ASSUME NEW scope, NEW now
  PROVE  /\ getForceScaling(scope, now) \in Scaling
         /\ scopeCurrentScaling(scope, now) \in Scaling
<1>1. \A down, up : \A neither \in Scaling : FromPair(down, up, neither) \in Scaling
  BY DEF FromPair, Scaling
<1>2. \A matched \in {"in", "out", "error"} : \A a, b \in Scaling :
        FromTime(matched, a, b) \in Scaling
  BY DEF FromTime, Scaling
<1>3. {"down", "up", "ignore", "none"} \subseteq Scaling
  BY DEF Scaling
<1>4. getForceScaling(scope, now) \in Scaling
  BY <1>1, <1>3 DEF getForceScaling
<1>5. getScalingFromPeriods(scope, now) \in Scaling
  BY <1>1, <1>3 DEF getScalingFromPeriods
<1>6. scopeCurrentScaling(scope, now) \in Scaling
  BY <1>2, <1>3, <1>5, InTimeSpansType DEF scopeCurrentScaling
<1> QED
  BY <1>4, <1>6

\* The scopes together do so as well.
LEMMA GetCurrentScalingType ==
  ASSUME NEW scopes, DOMAIN scopes \subseteq Nat, NEW now
  PROVE  GetCurrentScaling(scopes, now) \in Scaling
<1> DEFINE forces == [i \in DOMAIN scopes |-> getForceScaling(scopes[i], now)]
           plans == [i \in DOMAIN scopes |-> scopeCurrentScaling(scopes[i], now)]
<1>1. FirstNotNone(forces) \in Scaling
  <2>1. DOMAIN forces = DOMAIN scopes /\ \A i \in DOMAIN forces : forces[i] \in Scaling
    BY ScopeScalingType
  <2> HIDE DEF forces
  <2> QED
    BY <2>1, FirstNotNoneIsFirst DEF Scaling
<1>2. FirstNotNone(plans) \in Scaling
  <2>1. DOMAIN plans = DOMAIN scopes /\ \A i \in DOMAIN plans : plans[i] \in Scaling
    BY ScopeScalingType
  <2> HIDE DEF plans
  <2> QED
    BY <2>1, FirstNotNoneIsFirst DEF Scaling
<1> QED
  BY <1>1, <1>2 DEF GetCurrentScaling

\* A scan skips a workload or applies one of the scaling states.
LEMMA ScanDecisionType ==
  ASSUME NEW scopes, DOMAIN scopes \subseteq Nat, NEW created, NEW now
  PROVE  ScanDecision(scopes, created, now) \in Scaling \cup {"skip"}
<1>1. GetCurrentScaling(scopes, now) \in Scaling
  BY GetCurrentScalingType
<1> QED
  BY <1>1 DEF ScanDecision, Scaling

\* The downscale replicas are those of one of the scopes, as soon as one of
\* them sets any.
LEMMA DownscaleReplicasAreSet ==
  ASSUME NEW scopes, DOMAIN scopes \subseteq Nat,
         NEW k \in DOMAIN scopes, scopes[k].DownscaleReplicas # Unset
  PROVE  \E i \in DOMAIN scopes :
           /\ GetDownscaleReplicas(scopes) = scopes[i].DownscaleReplicas
           /\ scopes[i].DownscaleReplicas # Unset
BY FirstSetIsFirst DEF GetDownscaleReplicas

-----------------------------------------------------------------------------
(* What a decision depends on.                                             *)

\* Scopes that agree on a field agree on which of them sets it.
LEMMA FirstSetDepends ==
  ASSUME NEW s, NEW t, DOMAIN s \subseteq Nat, DOMAIN t = DOMAIN s, NEW field,
         \A i \in DOMAIN s : t[i][field] = s[i][field]
  PROVE  FirstSet(t, field) = FirstSet(s, field)
<1>1. CASE \A i \in DOMAIN s : s[i][field] = Unset
  BY <1>1, FirstSetIsFirst
<1>2. CASE ~ \A i \in DOMAIN s : s[i][field] = Unset
  <2>1. PICK i \in DOMAIN s :
          /\ FirstSet(s, field) = s[i][field] /\ s[i][field] # Unset
          /\ \A j \in DOMAIN s : j < i => s[j][field] = Unset
    BY <1>2, FirstSetIsFirst
  <2>2. PICK k \in DOMAIN t :
          /\ FirstSet(t, field) = t[k][field] /\ t[k][field] # Unset
          /\ \A j \in DOMAIN t : j < k => t[j][field] = Unset
    <3>1. DOMAIN t \subseteq Nat /\ ~ \A j \in DOMAIN t : t[j][field] = Unset
      BY <1>2
    <3> QED
      BY <3>1, FirstSetIsFirst
  <2>3. i \in Nat /\ k \in Nat /\ ~(i < k) /\ ~(k < i)
    BY <2>1, <2>2
  <2>4. i = k
    BY <2>3
  <2> QED
    BY <2>1, <2>2, <2>4
<1> QED
  BY <1>1, <1>2

\* The grace period decides nothing but whether a workload is too young: without
\* it, scopes lead to the decision that exclusions and schedules ask for.
LEMMA GraceAside ==
  ASSUME NEW s, NEW t, DOMAIN s \subseteq Nat, DOMAIN t = DOMAIN s,
         \A i \in DOMAIN s : t[i]["GracePeriod"] = Unset,
         \A i \in DOMAIN s : \A f \in ScopeFields \ {"GracePeriod"} : t[i][f] = s[i][f],
         NEW created, NEW now
  PROVE  ScanDecision(t, created, now) =
           IF ~GetExcluded(s, now) THEN GetCurrentScaling(s, now)
           ELSE IF GetUpscaleExcluded(s) THEN "up" ELSE "skip"
<1>3. IsInGracePeriod(t, created, now) = "out"
  <2>1. FirstSet(t, "GracePeriod") = Unset
    BY FirstSetIsFirst
  <2> QED
    BY <2>1 DEF IsInGracePeriod
<1>4. \A f \in ScopeFields \ {"GracePeriod"} : FirstSet(t, f) = FirstSet(s, f)
  BY FirstSetDepends
<1>5. {"Exclude", "ExcludeUntil", "UpscaleExcluded", "DownTime", "UpTime", "DownscalePeriod",
       "UpscalePeriod", "ForceUptime", "ForceDowntime"} \subseteq ScopeFields \ {"GracePeriod"}
  BY DEF ScopeFields
<1>6. GetUpscaleExcluded(t) = GetUpscaleExcluded(s)
  <2>1. FirstSet(t, "UpscaleExcluded") = FirstSet(s, "UpscaleExcluded")
    BY <1>4, <1>5
  <2> QED
    BY <2>1 DEF GetUpscaleExcluded
<1>7. GetExcluded(t, now) = GetExcluded(s, now)
  <2>1. FirstSet(t, "Exclude") = FirstSet(s, "Exclude")
    BY <1>4, <1>5
  <2>2. \A i \in DOMAIN s : t[i].ExcludeUntil = s[i].ExcludeUntil
    BY <1>5
  <2> QED
    BY <2>1, <2>2 DEF GetExcluded
<1>8. \A i \in DOMAIN s : /\ getForceScaling(t[i], now) = getForceScaling(s[i], now)
                          /\ scopeCurrentScaling(t[i], now) = scopeCurrentScaling(s[i], now)
  <2> SUFFICES ASSUME NEW i \in DOMAIN s
               PROVE  /\ getForceScaling(t[i], now) = getForceScaling(s[i], now)
                      /\ scopeCurrentScaling(t[i], now) = scopeCurrentScaling(s[i], now)
    OBVIOUS
  <2>1. /\ t[i].DownTime = s[i].DownTime /\ t[i].UpTime = s[i].UpTime
        /\ t[i].DownscalePeriod = s[i].DownscalePeriod
        /\ t[i].UpscalePeriod = s[i].UpscalePeriod
        /\ t[i].ForceUptime = s[i].ForceUptime /\ t[i].ForceDowntime = s[i].ForceDowntime
    BY <1>5
  <2> QED
    BY <2>1 DEF getForceScaling, scopeCurrentScaling, getScalingFromPeriods
<1>9. GetCurrentScaling(t, now) = GetCurrentScaling(s, now)
  <2>1. [i \in DOMAIN t |-> getForceScaling(t[i], now)]
          = [i \in DOMAIN s |-> getForceScaling(s[i], now)]
    BY <1>8
  <2>2. [i \in DOMAIN t |-> scopeCurrentScaling(t[i], now)]
          = [i \in DOMAIN s |-> scopeCurrentScaling(s[i], now)]
    BY <1>8
  <2> QED
    BY <2>1, <2>2 DEF GetCurrentScaling
<1> QED
  BY <1>3, <1>6, <1>7, <1>9 DEF ScanDecision
=============================================================================
