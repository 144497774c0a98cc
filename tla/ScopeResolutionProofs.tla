------------------------ MODULE ScopeResolutionProofs ------------------------
(***************************************************************************)
(* The documented rules of the scopes hold whatever the annotations, the   *)
(* command line, the creation time and the current time are. None of them  *)
(* needs an inductive argument beyond TypeOK: scope resolution keeps no    *)
(* state, so that each rule follows from the shape of the five scopes. The *)
(* work is in the lemmas: the index at which the loops of the code stop is *)
(* the one scope that the documentation says decides.                      *)
(***************************************************************************)
EXTENDS ScopeResolution, ScopesProofs

\* Every configuration consists of five scopes, none of which mixes the values
\* that the parsers refuse to mix.
LEMMA ScopesAreCompatible ==
  ASSUME TypeOK
  PROVE  /\ DOMAIN scopes = 1..5 /\ DOMAIN scopes \subseteq Nat
         /\ \A i \in DOMAIN scopes : CheckForIncompatibleFields(scopes[i])
<1>1. DOMAIN scopes = 1..5
  BY DEF scopes
<1>2. /\ scopes[1] = scopeWorkload /\ scopes[2] = scopeNamespace /\ scopes[3] = scopeCli
      /\ scopes[4] = NewScope /\ scopes[5] = GetDefaultScope
  BY DEF scopes
<1>3. /\ CheckForIncompatibleFields(scopeWorkload)
      /\ CheckForIncompatibleFields(scopeNamespace)
      /\ CheckForIncompatibleFields(scopeCli)
  BY ConfigurationAssumption DEF TypeOK, GetScopeFromAnnotations
<1>4. CheckForIncompatibleFields(NewScope) /\ CheckForIncompatibleFields(GetDefaultScope)
  BY DEF CheckForIncompatibleFields, NewScope, GetDefaultScope, ScopeFields
<1>5. \A i \in 1..5 : i = 1 \/ i = 2 \/ i = 3 \/ i = 4 \/ i = 5
  OBVIOUS
<1> QED
  BY <1>1, <1>2, <1>3, <1>4, <1>5

\* Of every group of values some scope decides, unless none sets any of them.
LEMMA OneDecides ==
  ASSUME TypeOK, NEW group
  PROVE  \/ \A i \in DOMAIN scopes, f \in group : scopes[i][f] = Unset
         \/ \E i \in Deciding(group) : TRUE
<1> DEFINE S == {i \in DOMAIN scopes : \E f \in group : scopes[i][f] # Unset}
<1>1. DOMAIN scopes = 1..5
  BY ScopesAreCompatible
<1>2. CASE S = {}
  BY <1>2
<1>3. CASE S # {}
  <2>1. S \subseteq Nat
    BY <1>1
  <2>2. PICK i \in S : \A j \in S : i <= j
    BY <1>3, <2>1, LeastIndex
  <2>3. i \in 1..5 /\ \A j \in 1..(i - 1) : j \in DOMAIN scopes /\ j \notin S
    BY <1>1, <2>2
  <2>4. i \in Deciding(group)
    BY <2>2, <2>3 DEF Deciding
  <2> QED
    BY <2>4
<1> QED
  BY <1>2, <1>3

\* The loop that asks scope after scope for its scaling ends with the scope that
\* decides, when what a scope says depends on one group of values only.
LEMMA LoopStopsAtDeciding ==
  ASSUME TypeOK, NEW group, NEW seq, DOMAIN seq = DOMAIN scopes,
         \A j \in DOMAIN scopes :
           (\A f \in group : scopes[j][f] = Unset) <=> seq[j] = "none"
  PROVE  /\ \A i \in Deciding(group) : FirstNotNone(seq) = seq[i] /\ seq[i] # "none"
         /\ Deciding(group) = {} => FirstNotNone(seq) = "none"
<1>1. DOMAIN seq = 1..5 /\ DOMAIN seq \subseteq Nat
  BY ScopesAreCompatible
<1>2. ASSUME NEW i \in Deciding(group)
      PROVE  FirstNotNone(seq) = seq[i] /\ seq[i] # "none"
  <2>1. /\ i \in 1..5 /\ seq[i] # "none"
        /\ \A j \in 1..(i - 1) : seq[j] = "none"
    BY <1>1, <1>2 DEF Deciding
  <2>2. PICK k \in DOMAIN seq :
          /\ FirstNotNone(seq) = seq[k] /\ seq[k] # "none"
          /\ \A j \in DOMAIN seq : j < k => seq[j] = "none"
    BY <1>1, <2>1, FirstNotNoneIsFirst
  <2>3. k = i
    BY <1>1, <2>1, <2>2
  <2> QED
    BY <2>2, <2>3
<1>3. ASSUME Deciding(group) = {}
      PROVE  FirstNotNone(seq) = "none"
  <2>1. \A i \in DOMAIN seq : seq[i] = "none"
    BY <1>3, OneDecides
  <2> QED
    BY <2>1 DEF FirstNotNone
<1> QED
  BY <1>2, <1>3

\* What one scope says of the force values and of the schedules, in terms of the
\* timespans it sets: the case distinctions of the code against the documented
\* meaning of the values.
LEMMA ForceOfScope ==
  ASSUME NEW i
  PROVE  LET force == getForceScaling(scopes[i], now)
         IN /\ (\A f \in ForceGroup : scopes[i][f] = Unset) <=> force = "none"
            /\ \A f \in ForceGroup : scopes[i][f] = Unset => inTimeSpans(scopes[i][f], now) = "out"
            /\ (\E f \in ForceGroup : Broken(i, f)) <=> force = "incomplete"
            /\ (\A f \in ForceGroup : Matches(i, f)) <=> force = "multiple"
            /\ (Matches(i, "ForceDowntime") /\ ~Matches(i, "ForceUptime")
                  /\ ~Broken(i, "ForceUptime")) <=> force = "down"
            /\ (Matches(i, "ForceUptime") /\ ~Matches(i, "ForceDowntime")
                  /\ ~Broken(i, "ForceDowntime")) <=> force = "up"
            /\ force \in Scaling
<1>1. /\ inTimeSpans(scopes[i].ForceDowntime, now) \in {"in", "out", "error"}
      /\ inTimeSpans(scopes[i].ForceUptime, now) \in {"in", "out", "error"}
  BY InTimeSpansType
<1>2. /\ scopes[i].ForceDowntime = Unset => inTimeSpans(scopes[i].ForceDowntime, now) = "out"
      /\ scopes[i].ForceUptime = Unset => inTimeSpans(scopes[i].ForceUptime, now) = "out"
  BY DEF inTimeSpans
<1> QED
  BY <1>1, <1>2, SMTT(30) DEF getForceScaling, FromPair, Matches, Broken, ForceGroup, Scaling

\* The same for the schedules, of a scope that the parsers accept.
LEMMA ScheduleOfScope ==
  ASSUME NEW i, CheckForIncompatibleFields(scopes[i])
  PROVE  LET plan == scopeCurrentScaling(scopes[i], now)
         IN /\ (\A f \in ScheduleGroup : scopes[i][f] = Unset) <=> plan = "none"
            /\ (\E f \in ScheduleGroup : Broken(i, f)) <=> plan = "incomplete"
            /\ (\A f \in ScheduleGroup : ~Broken(i, f)) /\ plan # "none" =>
                 plan = IF WantsDown(i) /\ WantsUp(i) THEN "multiple"
                        ELSE IF WantsDown(i) THEN "down"
                        ELSE IF WantsUp(i) THEN "up" ELSE "ignore"
<1> DEFINE In(f) == inTimeSpans(scopes[i][f], now)
<1>1. \A f \in ScheduleGroup : In(f) \in {"in", "out", "error"}
  BY InTimeSpansType
<1>2. \A f \in ScheduleGroup : scopes[i][f] = Unset => In(f) = "out"
  BY DEF inTimeSpans
<1>3. CASE scopes[i].DownTime # Unset
  BY <1>1, <1>2, <1>3, SMTT(30) DEF CheckForIncompatibleFields, scopeCurrentScaling, FromTime,
     Matches, Broken, ScheduleGroup, WantsDown, WantsUp
<1>4. CASE scopes[i].DownTime = Unset /\ scopes[i].UpTime # Unset
  BY <1>1, <1>2, <1>4, SMTT(30) DEF CheckForIncompatibleFields, scopeCurrentScaling, FromTime,
     Matches, Broken, ScheduleGroup, WantsDown, WantsUp
<1>5. CASE scopes[i].DownTime = Unset /\ scopes[i].UpTime = Unset
  BY <1>1, <1>2, <1>5, SMTT(30) DEF scopeCurrentScaling, getScalingFromPeriods, FromPair,
     Matches, Broken, ScheduleGroup, WantsDown, WantsUp
<1> QED
  BY <1>3, <1>4, <1>5

\* What the scopes together say: the deciding scope of the force values, and
\* where that is silent or inactive, the deciding scope of the schedules.
LEMMA DecidingScopesDecide ==
  ASSUME TypeOK
  PROVE  \E forced, planned \in Scaling :
           /\ GetCurrentScaling(scopes, now) =
                IF forced \notin {"none", "ignore"} THEN forced
                ELSE IF planned # "none" THEN planned ELSE forced
           /\ \A i \in Deciding(ForceGroup) :
                forced = getForceScaling(scopes[i], now) /\ forced # "none"
           /\ Deciding(ForceGroup) = {} => forced = "none"
           /\ \A i \in Deciding(ScheduleGroup) :
                planned = scopeCurrentScaling(scopes[i], now) /\ planned # "none"
           /\ Deciding(ScheduleGroup) = {} => planned = "none"
<1> DEFINE forces == [i \in DOMAIN scopes |-> getForceScaling(scopes[i], now)]
           plans == [i \in DOMAIN scopes |-> scopeCurrentScaling(scopes[i], now)]
<1>1. /\ DOMAIN scopes \subseteq Nat
      /\ \A i \in DOMAIN scopes : CheckForIncompatibleFields(scopes[i])
  BY ScopesAreCompatible
<1>2. /\ DOMAIN forces = DOMAIN scopes /\ \A i \in DOMAIN scopes : forces[i] \in Scaling
      /\ \A i \in DOMAIN scopes : forces[i] = getForceScaling(scopes[i], now)
      /\ \A i \in DOMAIN scopes :
           (\A f \in ForceGroup : scopes[i][f] = Unset) <=> forces[i] = "none"
  BY ForceOfScope, ScopeScalingType
<1>3. /\ DOMAIN plans = DOMAIN scopes /\ \A i \in DOMAIN scopes : plans[i] \in Scaling
      /\ \A i \in DOMAIN scopes : plans[i] = scopeCurrentScaling(scopes[i], now)
      /\ \A i \in DOMAIN scopes :
           (\A f \in ScheduleGroup : scopes[i][f] = Unset) <=> plans[i] = "none"
  BY <1>1, ScheduleOfScope, ScopeScalingType
<1>4. GetCurrentScaling(scopes, now) =
        IF FirstNotNone(forces) \notin {"none", "ignore"} THEN FirstNotNone(forces)
        ELSE IF FirstNotNone(plans) # "none" THEN FirstNotNone(plans) ELSE FirstNotNone(forces)
  BY DEF GetCurrentScaling
<1> HIDE DEF forces, plans
<1>5. /\ \A i \in Deciding(ForceGroup) : FirstNotNone(forces) = forces[i] /\ forces[i] # "none"
      /\ Deciding(ForceGroup) = {} => FirstNotNone(forces) = "none"
  BY <1>2, LoopStopsAtDeciding
<1>6. /\ \A i \in Deciding(ScheduleGroup) : FirstNotNone(plans) = plans[i] /\ plans[i] # "none"
      /\ Deciding(ScheduleGroup) = {} => FirstNotNone(plans) = "none"
  BY <1>3, LoopStopsAtDeciding
<1>7. FirstNotNone(forces) \in Scaling /\ FirstNotNone(plans) \in Scaling
  BY <1>1, <1>2, <1>3, FirstNotNoneIsFirst DEF Scaling
<1>8. Deciding(ForceGroup) \subseteq DOMAIN scopes /\ Deciding(ScheduleGroup) \subseteq DOMAIN scopes
  BY DEF Deciding
<1> QED
  BY <1>2, <1>3, <1>4, <1>5, <1>6, <1>7, <1>8

-----------------------------------------------------------------------------
(* The rules.                                                              *)

\* Whatever users write and however time passes, every scan of the workload has
\* one of the results of values/scope.go.
THEOREM TypeCorrect == Spec => []TypeOK
<1> DEFINE Stored == /\ scopeWorkload \in WorkloadScopes
                     /\ scopeNamespace \in NamespaceScopes
                     /\ scopeCli \in CliScopes
                     /\ created \in CreationTimes
                     /\ now \in 0..MaxTime
<1>1. Init => Stored
  BY ConfigurationAssumption DEF Init
<1>2. Stored /\ [Next]_vars => Stored'
  <2> SUFFICES ASSUME Stored, [Next]_vars PROVE Stored'
    OBVIOUS
  <2>1. CASE AnnotateWorkload
    BY <2>1 DEF AnnotateWorkload
  <2>2. CASE AnnotateNamespace
    BY <2>2 DEF AnnotateNamespace
  <2>3. CASE Tick
    BY <2>3, ConfigurationAssumption DEF Tick
  <2>4. CASE UNCHANGED vars
    BY <2>4 DEF vars
  <2> QED
    BY <2>1, <2>2, <2>3, <2>4 DEF Next
<1>3. Stored => TypeOK
  <2>1. DOMAIN scopes \subseteq Nat
    BY DEF scopes
  <2>2. GetCurrentScaling(scopes, now) \in Scaling
    BY <2>1, GetCurrentScalingType
  <2>3. ScanDecision(scopes, created, now) \in Scaling \cup {"skip"}
    BY <2>1, ScanDecisionType
  <2> QED
    BY <2>2, <2>3 DEF TypeOK
<1> QED
  BY <1>1, <1>2, <1>3, PTL DEF Spec

\* Force values and schedules are each taken together from the most specific
\* scope that sets one of them, and mean what the documentation says.
THEOREM GroupsDecide == Spec => []ValueGroupsDecide
<1>1. TypeOK => ValueGroupsDecide
  <2> SUFFICES ASSUME TypeOK PROVE ValueGroupsDecide
    OBVIOUS
  <2> DEFINE result == GetCurrentScaling(scopes, now)
             force == Deciding(ForceGroup)
             plan == Deciding(ScheduleGroup)
             Active(i) == \E f \in ForceGroup : Matches(i, f) \/ Broken(i, f)
  <2>1. PICK forced \in Scaling, planned \in Scaling :
          /\ result = IF forced \notin {"none", "ignore"} THEN forced
                      ELSE IF planned # "none" THEN planned ELSE forced
          /\ \A i \in force : forced = getForceScaling(scopes[i], now) /\ forced # "none"
          /\ force = {} => forced = "none"
          /\ \A i \in plan : planned = scopeCurrentScaling(scopes[i], now) /\ planned # "none"
          /\ plan = {} => planned = "none"
    BY DecidingScopesDecide
  <2>2. plan \subseteq DOMAIN scopes
    BY DEF Deciding
  <2>3. \A i \in plan : CheckForIncompatibleFields(scopes[i])
    BY <2>2, ScopesAreCompatible
  <2> HIDE DEF result, force, plan
  <2>4. ASSUME NEW i \in force, Active(i), \A f \in ForceGroup : ~Broken(i, f)
        PROVE  result = IF \A f \in ForceGroup : Matches(i, f) THEN "multiple"
                        ELSE IF Matches(i, "ForceDowntime") THEN "down" ELSE "up"
    BY <2>1, <2>4, ForceOfScope DEF ForceGroup
  <2>5. (\A i \in force : ~Active(i)) => forced \in {"none", "ignore"}
    <3> SUFFICES ASSUME \A i \in force : ~Active(i), force # {}
                 PROVE  forced \in {"none", "ignore"}
      BY <2>1
    <3>1. PICK i \in force : ~Active(i)
      OBVIOUS
    <3> QED
      BY <2>1, <3>1, ForceOfScope DEF ForceGroup, Scaling
  <2>6. ASSUME NEW i \in plan, \A f \in ScheduleGroup : ~Broken(i, f)
        PROVE  planned = IF WantsDown(i) /\ WantsUp(i) THEN "multiple"
                         ELSE IF WantsDown(i) THEN "down"
                         ELSE IF WantsUp(i) THEN "up" ELSE "ignore"
    BY <2>1, <2>3, <2>6, ScheduleOfScope
  <2> QED
    BY <2>1, <2>4, <2>5, <2>6 DEF ValueGroupsDecide, result, force, plan
<1> QED
  BY <1>1, TypeCorrect, PTL

\* An error while a timespan of the deciding schedule is evaluated is reported
\* and never read as "does not match".
THEOREM IncompleteIsReported == Spec => []IncompleteNeverScales
<1>1. TypeOK => IncompleteNeverScales
  <2> SUFFICES ASSUME TypeOK, NEW i \in Deciding(ScheduleGroup),
                      \E f \in ScheduleGroup : Broken(i, f), Deciding(ForceGroup) = {}
               PROVE  GetCurrentScaling(scopes, now) = "incomplete"
    BY DEF IncompleteNeverScales
  <2>1. GetCurrentScaling(scopes, now) = scopeCurrentScaling(scopes[i], now)
    BY DecidingScopesDecide
  <2>2. i \in DOMAIN scopes
    BY DEF Deciding
  <2>3. CheckForIncompatibleFields(scopes[i])
    BY <2>2, ScopesAreCompatible
  <2> QED
    BY <2>1, <2>3, ScheduleOfScope
<1> QED
  BY <1>1, TypeCorrect, PTL

\* A workload's own exclude annotation makes the exclude values of the namespace
\* and of the command line irrelevant.
THEOREM ExcludeOverrides == Spec => []ExcludeIsOverridden
<1>1. TypeOK => ExcludeIsOverridden
  <2> SUFFICES ASSUME TypeOK, NEW n \in NamespaceScopes, NEW c \in CliScopes,
                      scopeWorkload.Exclude # Unset
               PROVE  LET others == [scopes EXCEPT
                                       ![2].Exclude = n.Exclude, ![3].Exclude = c.Exclude]
                      IN GetExcluded(others, now) <=> GetExcluded(scopes, now)
    BY DEF ExcludeIsOverridden
  <2> DEFINE others == [scopes EXCEPT ![2].Exclude = n.Exclude, ![3].Exclude = c.Exclude]
  <2>1. /\ DOMAIN scopes = 1..5 /\ DOMAIN others = DOMAIN scopes
        /\ scopes[1] = scopeWorkload /\ others[1] = scopeWorkload
    BY DEF scopes
  <2>2. \A i \in DOMAIN scopes : others[i].ExcludeUntil = scopes[i].ExcludeUntil
    <3>1. scopes = [i \in 1..5 |-> scopes[i]]
      BY DEF scopes
    <3>2. DOMAIN scopeNamespace = ScopeFields /\ DOMAIN scopeCli = ScopeFields
      BY ConfigurationAssumption DEF TypeOK
    <3>3. others[2] = [scopeNamespace EXCEPT !.Exclude = n.Exclude]
      BY <3>1 DEF scopes
    <3>4. others[3] = [scopeCli EXCEPT !.Exclude = c.Exclude]
      BY <3>1 DEF scopes
    <3>5. /\ others[2].ExcludeUntil = scopeNamespace.ExcludeUntil
          /\ others[3].ExcludeUntil = scopeCli.ExcludeUntil
      BY <3>2, <3>3, <3>4 DEF ScopeFields
    <3>6. /\ scopes[2] = scopeNamespace /\ scopes[3] = scopeCli
          /\ others[1] = scopes[1] /\ others[4] = scopes[4] /\ others[5] = scopes[5]
      BY DEF scopes
    <3>7. \A i \in 1..5 : i = 1 \/ i = 2 \/ i = 3 \/ i = 4 \/ i = 5
      OBVIOUS
    <3> QED
      BY <2>1, <3>5, <3>6, <3>7
  <2> HIDE DEF others
  <2>3. \A s : DOMAIN s = 1..5 /\ s[1] = scopeWorkload =>
          FirstSet(s, "Exclude") = scopeWorkload.Exclude
    <3> SUFFICES ASSUME NEW s, DOMAIN s = 1..5, s[1] = scopeWorkload
                 PROVE  FirstSet(s, "Exclude") = scopeWorkload.Exclude
      OBVIOUS
    <3>1. DOMAIN s \subseteq Nat /\ 1 \in DOMAIN s /\ s[1]["Exclude"] # Unset
      OBVIOUS
    <3>2. PICK k \in DOMAIN s : /\ FirstSet(s, "Exclude") = s[k]["Exclude"]
                                /\ \A j \in DOMAIN s : j < k => s[j]["Exclude"] = Unset
      BY <3>1, FirstSetIsFirst
    <3>3. k = 1
      BY <3>1, <3>2
    <3> QED
      BY <3>2, <3>3
  <2>4. FirstSet(others, "Exclude") = FirstSet(scopes, "Exclude")
    BY <2>1, <2>3
  <2>5. GetExcluded(others, now) <=> GetExcluded(scopes, now)
    BY <2>1, <2>2, <2>4 DEF GetExcluded
  <2> QED
    BY <2>5 DEF others
<1> QED
  BY <1>1, TypeCorrect, PTL

\* An exclude-until time of any scope protects the workload from being scaled
\* down, unless the exclude value that decides cannot be evaluated.
THEOREM ExcludeUntilProtects == Spec => []ExcludeUntilExcludes
<1>1. TypeOK => ExcludeUntilExcludes
  <2> SUFFICES ASSUME TypeOK,
                      \E i \in DOMAIN scopes : /\ scopes[i].ExcludeUntil # Unset
                                               /\ scopes[i].ExcludeUntil > now,
                      ScanDecision(scopes, created, now) = "down"
               PROVE  \E i \in Deciding({"Exclude"}) : Broken(i, "Exclude")
    BY DEF ExcludeUntilExcludes
  <2>1. ~GetExcluded(scopes, now)
    BY DEF ScanDecision
  <2>2. inTimeSpans(FirstSet(scopes, "Exclude"), now) = "error"
    BY <2>1, InTimeSpansType DEF GetExcluded
  <2>3. FirstSet(scopes, "Exclude") # Unset
    BY <2>2 DEF inTimeSpans
  <2>4. DOMAIN scopes = 1..5 /\ DOMAIN scopes \subseteq Nat
    BY ScopesAreCompatible
  <2>5. PICK i \in DOMAIN scopes :
          /\ FirstSet(scopes, "Exclude") = scopes[i]["Exclude"]
          /\ scopes[i]["Exclude"] # Unset
          /\ \A j \in DOMAIN scopes : j < i => scopes[j]["Exclude"] = Unset
    BY <2>3, <2>4, FirstSetIsFirst
  <2>6. \A j \in 1..(i - 1) : scopes[j]["Exclude"] = Unset
    BY <2>4, <2>5
  <2>7. i \in Deciding({"Exclude"})
    BY <2>5, <2>6 DEF Deciding
  <2>8. Broken(i, "Exclude")
    BY <2>2, <2>5 DEF Broken
  <2> QED
    BY <2>7, <2>8
<1> QED
  BY <1>1, TypeCorrect, PTL
=============================================================================
