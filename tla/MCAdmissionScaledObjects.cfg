CONSTANTS
  Unset = Unset
  Incomplete = Incomplete
  Malformed = Malformed
  Percents = {}
  ClassNames <- MCClassNames
  Parsable = {"nginx"}
  Workload <- MCWorkload
  KindsOf <- MCKindsOf
  Targets = {0}
  UserValues <- MCUserValues
  UserMaxima = {}
  Annotations <- MCAnnotations
  CreationTimes <- MCCreationTimes
  Children <- MCChildren
  InitialObjects <- MCObjects
  Request = {"r1"}
  Namespace = {"default"}
  NamespaceOf <- MCNamespaceOf
  NamespaceAnnotations <- MCNamespaceAnnotations
  InitialAnnotations <- MCInitialAnnotations
  Filtered = {}
  Unparsable = {}
  Configurations <- WithScaledObjects
  scopeCli <- MCScopeCli
  scopeEnv <- NewScope
  scopeDefault <- MCScopeDefault
  MaxTime = 1
  MaxFailures = 1
SPECIFICATION Spec
PROPERTY MatchingIsModified
