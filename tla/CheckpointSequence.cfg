SPECIFICATION Spec
CONSTANTS
  c1 = c1
  c2 = c2
  Commands = {c1}
  Programs = {"reth", "summit"}
  LockTaking = {"summit"}
  Children <- MCChild
  Owns <- MCOwns
  Operations = {"install", "rollback", "delete"}
  InitialItems <- MCInitialItems
  Leavings <- MCRethLeft
  MaxInstalls = 2
  MaxMishaps = 1
  Absent = Absent
  Torn = Torn
  Original = Original
  Fresh = Fresh
  Nobody = Nobody
  InTransit = InTransit
INVARIANTS
  InterruptedInstallIsRecoverable
  RestoreIsUnobstructed
PROPERTIES
  ImplementsSwap
