------------------------------- MODULE Scopes -------------------------------
(***************************************************************************)
(* Scope resolution: how the five configuration scopes of a workload       *)
(* (workload, namespace, cli, environment, default; most specific first)   *)
(* are combined into one scaling decision.                                 *)
(*                                                                         *)
(* A scope is a record whose fields have the value Unset where the Go      *)
(* struct has nil (or an unset triStateBool, or the Undefined duration).   *)
(* A timespan is abstracted to the set of instants it matches; a relative  *)
(* timespan without timezone or week frame, which no scope supplies a      *)
(* default for, is the value Incomplete: evaluating it is an error.        *)
(***************************************************************************)
EXTENDS Integers

CONSTANTS
  Unset,        \* nil: the scope does not set the field
  Incomplete,   \* a timespan whose timezone or week frame cannot be determined
  Malformed     \* annotations of which one cannot be parsed

\* The scaling states of values/scope.go.
Scaling == {"none", "ignore", "down", "up", "multiple", "incomplete"}

ScopeFields ==
  {"DownTime", "UpTime", "DownscalePeriod", "UpscalePeriod", "ForceUptime",
   "ForceDowntime", "Exclude", "ExcludeUntil", "DownscaleReplicas",
   "GracePeriod", "ScaleChildren", "UpscaleExcluded"}

\* A scope in which nothing is set.
NewScope == [f \in ScopeFields |-> Unset]

-----------------------------------------------------------------------------
(* Evaluating the fields of one scope.                                     *)

\* The first index of seq that satisfies Test, if one does.
First(seq, Test(_)) ==
  CHOOSE i \in DOMAIN seq :
    Test(seq[i]) /\ \A j \in DOMAIN seq : Test(seq[j]) => i <= j

\* "in", "out" or "error". The spans are tried in order; the first one that
\* fails or matches decides, and a nil list matches nothing.
inTimeSpans(spans, now) ==
  LET Decides(span) == span = Incomplete \/ now \in span
  IN IF spans = Unset THEN "out"
     ELSE IF \A i \in DOMAIN spans : ~Decides(spans[i]) THEN "out"
     ELSE IF spans[First(spans, Decides)] = Incomplete THEN "error"
     ELSE "in"

\* Two timespan lists of one priority: both matching is a configuration error.
FromPair(down, up, neither) ==
  CASE down = "error" \/ up = "error"  -> "incomplete"
    [] down = "in" /\ up = "in"        -> "multiple"
    [] down = "in" /\ up = "out"       -> "down"
    [] down = "out" /\ up = "in"       -> "up"
    [] OTHER                           -> neither

getScalingFromPeriods(scope, now) ==
  FromPair(inTimeSpans(scope.DownscalePeriod, now),
           inTimeSpans(scope.UpscalePeriod, now), "ignore")

\* Mutant: a force value that is set but inactive falls through.
ForceFallsThrough(scope, now) ==
  FromPair(inTimeSpans(scope.ForceDowntime, now),
           inTimeSpans(scope.ForceUptime, now), "none")

\* A force value that is set but not active yields "ignore", so that less
\* specific scopes are not asked for one.
getForceScaling(scope, now) ==
  FromPair(inTimeSpans(scope.ForceDowntime, now),
           inTimeSpans(scope.ForceUptime, now),
           IF scope.ForceDowntime # Unset \/ scope.ForceUptime # Unset
           THEN "ignore" ELSE "none")

\* Mutant: a timespan that cannot be evaluated does not match.
FromTimeUnchecked(matched, inside, outside) ==
  IF matched = "in" THEN inside ELSE outside

\* Mutant: the error is handed on.
FromTimeRaw(matched, inside, outside) ==
  CASE matched = "error" -> matched
    [] matched = "in"    -> inside
    [] matched = "out"   -> outside

\* One timespan list that asks for inside when it matches, outside otherwise.
FromTime(matched, inside, outside) ==
  CASE matched = "error" -> "incomplete"
    [] matched = "in"    -> inside
    [] matched = "out"   -> outside

\* The scaling a scope's schedule asks for, "none" if it has no schedule.
scopeCurrentScaling(scope, now) ==
  IF scope.DownTime # Unset
  THEN FromTime(inTimeSpans(scope.DownTime, now), "down", "up")
  ELSE IF scope.UpTime # Unset
  THEN FromTime(inTimeSpans(scope.UpTime, now), "up", "down")
  ELSE IF scope.DownscalePeriod # Unset \/ scope.UpscalePeriod # Unset
  THEN getScalingFromPeriods(scope, now)
  ELSE "none"

\* A scope may not mix uptime with downtime, nor either of them with a period.
CheckForIncompatibleFields(scope) ==
  /\ scope.UpTime = Unset \/ scope.DownTime = Unset
  /\ \/ scope.UpTime = Unset /\ scope.DownTime = Unset
     \/ scope.UpscalePeriod = Unset /\ scope.DownscalePeriod = Unset

\* Annotations parse to a scope unless one is malformed or two are incompatible.
GetScopeFromAnnotations(annotations) ==
  annotations # Malformed /\ CheckForIncompatibleFields(annotations)

-----------------------------------------------------------------------------
(* Combining scopes: scopes is a sequence, most specific scope first.      *)

\* The field of the most specific scope that sets it, Unset if none does.
FirstSet(scopes, field) ==
  LET IsSet(scope) == scope[field] # Unset
  IN IF \A i \in DOMAIN scopes : ~IsSet(scopes[i]) THEN Unset
     ELSE scopes[First(scopes, IsSet)][field]

\* The first value of seq that is not "none", "none" if there is none.
FirstNotNone(seq) ==
  LET NotNone(scaling) == scaling # "none"
  IN IF \A i \in DOMAIN seq : ~NotNone(seq[i]) THEN "none"
     ELSE seq[First(seq, NotNone)]

\* Forced scaling goes first. A forced "ignore" hands over to the schedules,
\* and is the result if no scope has one.
GetCurrentScaling(scopes, now) ==
  LET forced == FirstNotNone([i \in DOMAIN scopes |->
                                getForceScaling(scopes[i], now)])
      scheduled == FirstNotNone([i \in DOMAIN scopes |->
                                   scopeCurrentScaling(scopes[i], now)])
  IN IF forced \notin {"none", "ignore"} THEN forced
     ELSE IF scheduled # "none" THEN scheduled
     ELSE forced

GetDownscaleReplicas(scopes) == FirstSet(scopes, "DownscaleReplicas")

GetScaleChildren(scopes) == FirstSet(scopes, "ScaleChildren") = TRUE

GetUpscaleExcluded(scopes) == FirstSet(scopes, "UpscaleExcluded") = TRUE

\* Mutant: every scope may exclude, as with ExcludeUntil.
ExcludedByAny(scopes, now) ==
  \E i \in DOMAIN scopes :
    \/ inTimeSpans(scopes[i].Exclude, now) = "in"
    \/ scopes[i].ExcludeUntil # Unset /\ scopes[i].ExcludeUntil > now

\* Mutant: of the exclude-until times, too, only the most specific counts.
ExcludedByFirst(scopes, now) ==
  LET exclude == inTimeSpans(FirstSet(scopes, "Exclude"), now)
      until == FirstSet(scopes, "ExcludeUntil")
  IN CASE exclude = "error" -> FALSE
       [] exclude = "in"    -> TRUE
       [] exclude = "out"   -> until # Unset /\ until > now

\* Only the most specific scope with Exclude is asked, and an error there ends
\* the evaluation; ExcludeUntil is asked of every scope until one is not over.
GetExcluded(scopes, now) ==
  LET exclude == inTimeSpans(FirstSet(scopes, "Exclude"), now)
  IN CASE exclude = "error" -> FALSE
       [] exclude = "in"    -> TRUE
       [] exclude = "out"   ->
            \E i \in DOMAIN scopes : /\ scopes[i].ExcludeUntil # Unset
                                     /\ scopes[i].ExcludeUntil > now

\* created is the creation time or, where the time annotation is set, the time
\* it holds, which may be malformed.
IsInGracePeriod(scopes, created, now) ==
  LET gracePeriod == FirstSet(scopes, "GracePeriod")
  IN CASE gracePeriod = Unset -> "out"
       [] gracePeriod # Unset /\ created = Malformed -> "error"
       [] OTHER -> IF now < created + gracePeriod THEN "in" ELSE "out"

-----------------------------------------------------------------------------
\* What scanWorkload decides for a workload whose scopes are all known: "skip"
\* leaves it alone (and counts it as excluded), otherwise the scaling to apply.
ScanDecision(scopes, created, now) ==
  LET excluded == GetExcluded(scopes, now)
  IN IF IsInGracePeriod(scopes, created, now) # "out" THEN "skip"
     ELSE IF ~excluded THEN GetCurrentScaling(scopes, now)
     ELSE IF GetUpscaleExcluded(scopes) THEN "up"
     ELSE "skip"
=============================================================================
