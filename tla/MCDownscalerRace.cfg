CONSTANTS
  Unset = Unset
  Incomplete = Incomplete
  Malformed = Malformed
  Percents = {}
  ClassNames <- MCClassNames
  Parsable = {}
  Workload <- RaceWorkload
  KindsOf <- RaceKindsOf
  Targets = {0}
  UserValues <- MCUserValues
  UserMaxima = {}
  Annotations <- RaceAnnotations
  CreationTimes <- MCCreationTimes
  Children <- RaceChildren
  InitialObjects <- RaceObjects
  Scanner = {s1, s2}
  Resource = {"deployments"}
  ResourceOf <- RaceResourceOf
  Namespace = {"default"}
  NamespaceOf <- RaceNamespaceOf
  NamespaceAnnotations <- RaceNamespaceAnnotations
  InitialAnnotations <- RaceInitialAnnotations
  Filtered = {}
  Owned = {}
  ScaleTarget <- NoTarget
  scopeCli <- MCScopeCli
  scopeEnv <- NewScope
  scopeDefault <- MCScopeDefault
  MaxRetriesOnConflict = 1
  Configurations <- Serving
  Version = {0, 1, 2, 3, 4}
  MaxChildThreads = 0
  MaxTime = 1
  MaxDisturbances <- RaceDisturbances
SYMMETRY ScannerSymmetry
SPECIFICATION Spec
INVARIANTS TypeOK LockInv
PROPERTIES WritesAreAtomic
