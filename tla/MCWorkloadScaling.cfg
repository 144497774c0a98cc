CONSTANTS
  Unset = Unset
  Percents = {Half, All}
  ClassNames <- MCClassNames
  Parsable <- MCParsable
  Workload <- MCWorkload
  KindsOf <- MCKindsOf
  Targets = {1, 3, Half}
  UserValues <- MCUserValues
  UserMaxima = {2, 4}
  Annotations = {"none"}
  CreationTimes = {0}
  Children <- MCChildren
  InitialObjects <- MCInitialObjects
SPECIFICATION Spec
INVARIANTS TypeOK OriginalChosen OriginalInv Settles HpaWithinBounds SavingsAreSteady
