CONSTANTS
  Unset = Unset
  Percents = {Half, All}
  ClassNames <- MCClassNames
  Parsable <- MCParsable
  Workload <- MCWorkload
  KindsOf <- MCKindsOf
  Targets = {1}
  UserValues <- MCAllUserValues
  UserMaxima = {2, 3}
  Annotations = {"none"}
  CreationTimes = {0}
  Children <- MCChildren
  InitialObjects <- MCInitialObjects
SPECIFICATION Spec
INVARIANT AlwaysRestorable
