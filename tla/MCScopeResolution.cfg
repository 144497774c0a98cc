CONSTANTS
  Unset = Unset
  Incomplete = Incomplete
  Malformed = Malformed
  MaxTime = 3
  WorkloadScopes <- MCWorkloadScopes
  NamespaceScopes <- MCNamespaceScopes
  CliScopes <- MCCliScopes
  CreationTimes <- MCCreationTimes
SPECIFICATION Spec
INVARIANTS TypeOK ValueGroupsDecide IncompleteNeverScales ExcludeIsOverridden ExcludeUntilExcludes
