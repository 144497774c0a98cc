-------------------------- MODULE MCScopeResolution --------------------------
(* Small configurations of ScopeResolution for TLC.                        *)
EXTENDS ScopeResolution

Set(field, value) == [NewScope EXCEPT ![field] = value]
Set2(f1, v1, f2, v2) == [NewScope EXCEPT ![f1] = v1, ![f2] = v2]

Early == <<{0, 1}>>
Late == <<{1, 2}>>
Never == <<{}>>
Mixed == <<{0}, Incomplete>>

MCWorkloadScopes ==
  {NewScope, Set("DownTime", Early), Set("UpTime", Late),
   Set("DownTime", Mixed), Set("UpscalePeriod", Mixed),
   Set2("DownscalePeriod", Early, "UpscalePeriod", Late),
   Set("ForceUptime", Early), Set("ForceDowntime", Never),
   Set2("ForceUptime", Late, "ForceDowntime", Early),
   Set("ForceUptime", Mixed), Set2("Exclude", Never, "UpTime", Never),
   Set2("Exclude", Late, "UpscaleExcluded", TRUE),
   Set2("ExcludeUntil", 2, "DownTime", Early),
   Set2("ExcludeUntil", 1, "DownTime", Late),
   \* An exclude annotation that misses its timezone, next to an exclude-until.
   [NewScope EXCEPT !.Exclude = <<Incomplete>>, !.ExcludeUntil = 2,
                    !.DownTime = Early]}

MCNamespaceScopes ==
  {NewScope, Set("UpTime", Early), Set("DownTime", Late),
   Set("ForceDowntime", Late), Set2("ForceUptime", Early, "DownTime", Early),
   Set2("Exclude", Early, "GracePeriod", 2), Set("ExcludeUntil", 1),
   Set2("ExcludeUntil", 2, "UpscaleExcluded", FALSE)}

MCCliScopes ==
  {NewScope, Set("ForceUptime", Never), Set("ForceDowntime", Early),
   Set("UpscaleExcluded", TRUE), Set("DownTime", Early)}

MCCreationTimes == {0 - 2, 0, Malformed}
=============================================================================
