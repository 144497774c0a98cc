CONSTANTS
  r1 = r1
  r2 = r2
  n1 = n1
  NoHolder = NoHolder
  Replica <- MCReplica
  Namespace <- MCNamespace
  OnceSettings <- MCOnceSettings
  MaxFaults = 2
SPECIFICATION Spec
INVARIANTS TypeOK LeaseProtects GaugesAreCurrent
CHECK_DEADLOCK TRUE
PROPERTIES ImplementsLeadership HandsOver DeposedStops
