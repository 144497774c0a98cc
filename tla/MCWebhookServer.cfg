CONSTANTS
  r1 = r1
  r2 = r2
  n1 = n1
  Replica <- MCReplica
  Namespace <- MCNamespace
  Configurations <- MCConfigurations
  MaxChanges = 3
  MaxFaults = 2
SPECIFICATION Spec
INVARIANTS TypeOK SeriesAreAccounted
PROPERTIES DeletedAreForgotten EventuallyServes
CHECK_DEADLOCK FALSE
