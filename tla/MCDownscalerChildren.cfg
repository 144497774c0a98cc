CONSTANTS
  Unset = Unset
  Incomplete = Incomplete
  Malformed = Malformed
  Percents = {}
  ClassNames <- MCClassNames
  Parsable = {}
  Workload <- CronWorkload
  KindsOf <- CronKindsOf
  Targets = {0}
  UserValues <- MCUserValues
  UserMaxima = {}
  Annotations <- CronAnnotations
  CreationTimes <- MCCreationTimes
  Children <- CronChildren
  InitialObjects <- CronObjects
  Scanner = {"a"}
  Resource = {"cronjobs", "jobs"}
  ResourceOf <- CronResourceOf
  Namespace = {"default"}
  NamespaceOf <- CronNamespaceOf
  NamespaceAnnotations <- CronNamespaceAnnotations
  InitialAnnotations <- NoAnnotations
  Filtered = {}
  Owned = {"job"}
  ScaleTarget <- NoTarget
  scopeCli <- MCScopeCliChildren
  scopeEnv <- NewScope
  scopeDefault <- MCScopeDefault
  MaxRetriesOnConflict = 0
  Configurations <- Serving
  Version = {0, 1, 2, 3, 4}
  MaxChildThreads = 1
  MaxTime = 1
  MaxDisturbances <- CronDisturbances
SPECIFICATION FairSpec
INVARIANTS MetricsAccount
PROPERTIES WritesAreAtomic EventuallyChildrenSettled
