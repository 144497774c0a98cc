--------------------------- MODULE ScopeResolution ---------------------------
(***************************************************************************)
(* The configuration of one workload under change: users rewrite the       *)
(* annotations of the workload and of its namespace while time passes, and *)
(* every scan resolves the five scopes afresh. The operators of Scopes are *)
(* compared with the rules of the documentation in every such              *)
(* configuration.                                                          *)
(***************************************************************************)
EXTENDS Scopes

CONSTANTS
  WorkloadScopes,   \* what the workload's annotations may say
  NamespaceScopes,  \* what the namespace's annotations may say
  CliScopes,        \* the scopes the command line may set
  MaxTime,          \* bound: the last instant considered
  CreationTimes     \* creation times, Malformed for a bad time annotation

ASSUME ConfigurationAssumption ==
  /\ MaxTime \in Nat
  /\ \A s \in WorkloadScopes \cup NamespaceScopes \cup CliScopes :
       DOMAIN s = ScopeFields /\ GetScopeFromAnnotations(s)

VARIABLES scopeWorkload, scopeNamespace, scopeCli, created, now

vars == <<scopeWorkload, scopeNamespace, scopeCli, created, now>>

\* The values of the default scope, one instant standing for 15 minutes.
GetDefaultScope == [NewScope EXCEPT !.DownscaleReplicas = 0, !.GracePeriod = 1]

scopes == <<scopeWorkload, scopeNamespace, scopeCli, NewScope, GetDefaultScope>>

TypeOK ==
  /\ scopeWorkload \in WorkloadScopes
  /\ scopeNamespace \in NamespaceScopes
  /\ scopeCli \in CliScopes
  /\ created \in CreationTimes
  /\ now \in 0..MaxTime
  /\ GetCurrentScaling(scopes, now) \in Scaling
  /\ ScanDecision(scopes, created, now) \in Scaling \cup {"skip"}

Init ==
  /\ scopeWorkload \in WorkloadScopes
  /\ scopeNamespace \in NamespaceScopes
  /\ scopeCli \in CliScopes
  /\ created \in CreationTimes
  /\ now = 0

AnnotateWorkload ==
  /\ scopeWorkload' \in WorkloadScopes
  /\ UNCHANGED <<scopeNamespace, scopeCli, created, now>>

AnnotateNamespace ==
  /\ scopeNamespace' \in NamespaceScopes
  /\ UNCHANGED <<scopeWorkload, scopeCli, created, now>>

Tick ==
  /\ now < MaxTime
  /\ now' = now + 1
  /\ UNCHANGED <<scopeWorkload, scopeNamespace, scopeCli, created>>

Next == AnnotateWorkload \/ AnnotateNamespace \/ Tick

Spec == Init /\ [][Next]_vars

-----------------------------------------------------------------------------
(* The documented rules.                                                   *)

ForceGroup == {"ForceUptime", "ForceDowntime"}
ScheduleGroup == {"DownTime", "UpTime", "DownscalePeriod", "UpscalePeriod"}

\* The scopes from which no value of the group is hidden by a more specific
\* scope: at most one, the most specific that sets any value of it.
Deciding(group) ==
  {i \in DOMAIN scopes :
     /\ \E f \in group : scopes[i][f] # Unset
     /\ \A j \in 1..(i - 1), f \in group : scopes[j][f] = Unset}

Matches(i, field) == inTimeSpans(scopes[i][field], now) = "in"
Broken(i, field)  == inTimeSpans(scopes[i][field], now) = "error"

\* What the deciding scope of a value group asks for: the documented meaning
\* of the six timespan values.
WantsDown(i) ==
  \/ Matches(i, "DownTime") \/ Matches(i, "DownscalePeriod")
  \/ scopes[i].UpTime # Unset /\ ~Matches(i, "UpTime")
WantsUp(i) ==
  \/ Matches(i, "UpTime") \/ Matches(i, "UpscalePeriod")
  \/ scopes[i].DownTime # Unset /\ ~Matches(i, "DownTime")

\* Value groups: the force values are taken together from the most specific
\* scope that sets one of them, and so are the four schedule values; an active
\* force value beats every schedule, an inactive one hands over to the
\* schedules but hides the force values of less specific scopes.
ValueGroupsDecide ==
  LET result == GetCurrentScaling(scopes, now)
      force  == Deciding(ForceGroup)
      plan   == Deciding(ScheduleGroup)
      Active(i) == \E f \in ForceGroup : Matches(i, f) \/ Broken(i, f)
  IN /\ \A i \in force : Active(i) /\ (\A f \in ForceGroup : ~Broken(i, f)) =>
          result = IF \A f \in ForceGroup : Matches(i, f) THEN "multiple"
                   ELSE IF Matches(i, "ForceDowntime") THEN "down" ELSE "up"
     /\ (\A i \in force : ~Active(i)) =>
          /\ plan = {} => result \in {"none", "ignore"}
          /\ \A i \in plan : (\A f \in ScheduleGroup : ~Broken(i, f)) =>
               result = IF WantsDown(i) /\ WantsUp(i) THEN "multiple"
                        ELSE IF WantsDown(i) THEN "down"
                        ELSE IF WantsUp(i) THEN "up" ELSE "ignore"

\* A timespan that cannot be evaluated never scales: if the deciding scope of
\* the schedules reaches an incomplete timespan and no scope sets a force value,
\* the workload is neither scaled down nor up.
IncompleteNeverScales ==
  \A i \in Deciding(ScheduleGroup) :
    /\ \E f \in ScheduleGroup : Broken(i, f)
    /\ Deciding(ForceGroup) = {}
    => GetCurrentScaling(scopes, now) = "incomplete"

\* Exclude is taken from the most specific scope that sets it: a workload that
\* sets it is not affected by what the namespace or the command line exclude,
\* whatever they say.
ExcludeIsOverridden ==
  \A n \in NamespaceScopes, c \in CliScopes :
    LET others == [scopes EXCEPT
                     ![2].Exclude = n.Exclude, ![3].Exclude = c.Exclude]
    IN scopeWorkload.Exclude # Unset =>
         (GetExcluded(others, now) <=> GetExcluded(scopes, now))

\* "If any of these values exclude the workload, it will not be scaled": while
\* the exclude-until time of any scope is not over, no scan scales the workload
\* down, whatever the other scopes exclude, force or schedule. There is one way
\* around it: an exclude value that decides and cannot be evaluated ends the
\* evaluation of all exclusions.
ExcludeUntilExcludes ==
  /\ \E i \in DOMAIN scopes : /\ scopes[i].ExcludeUntil # Unset
                              /\ scopes[i].ExcludeUntil > now
  /\ ScanDecision(scopes, created, now) = "down"
  => \E i \in Deciding({"Exclude"}) : Broken(i, "Exclude")
=============================================================================
