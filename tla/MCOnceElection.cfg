CONSTANTS
  r1 = r1
  r2 = r2
  n1 = n1
  NoHolder = NoHolder
  Replica <- MCReplica
  Namespace <- MCNamespace
  OnceSettings <- OnlyOnce
  MaxFaults = 0
SPECIFICATION Spec
CHECK_DEADLOCK TRUE
PROPERTY OnceExits
