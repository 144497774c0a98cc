CONSTANTS
  Unset = Unset
  Incomplete = Incomplete
  Malformed = Malformed
  Percents = {}
  ClassNames <- MCClassNames
  Parsable = {}
  Workload <- KedaWorkload
  KindsOf <- KedaKindsOf
  Targets = {0}
  UserValues <- KedaUserValues
  UserMaxima = {}
  Annotations <- KedaAnnotations
  CreationTimes <- MCCreationTimes
  Children <- KedaChildren
  InitialObjects <- KedaObjects
  Scanner = {"a"}
  Resource = {"deployments", "scaledobjects"}
  ResourceOf <- KedaResourceOf
  Namespace = {"default"}
  NamespaceOf <- KedaNamespaceOf
  NamespaceAnnotations <- KedaNamespaceAnnotations
  InitialAnnotations <- NoAnnotations
  Filtered = {}
  Owned = {}
  ScaleTarget <- KedaTarget
  scopeCli <- MCScopeCli
  scopeEnv <- NewScope
  scopeDefault <- MCScopeDefault
  MaxRetriesOnConflict = 1
  Configurations <- AllConfigurations
  Version = {0, 1, 2, 3, 4}
  MaxChildThreads = 0
  MaxTime = 1
  MaxDisturbances <- KedaDisturbances
SPECIFICATION FairSpec
INVARIANTS MetricsAccount
PROPERTIES RespectsExclusion EventuallySettled OnceFinishes
CHECK_DEADLOCK FALSE
