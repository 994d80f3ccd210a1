SPECIFICATION Spec
CONSTANTS
  c1 = c1
  c2 = c2
  Commands = {c1}
  Programs = {"reth", "summit"}
  LockTaking = {"summit"}
  Children <- MCChild
  Owns <- MCOwns
  Operations = {"install"}
  InitialItems <- MCNewNode
  Leavings <- MCAnywhere
  MaxInstalls = 1
  MaxMishaps = 0
  Absent = Absent
  Torn = Torn
  Original = Original
  Fresh = Fresh
  Nobody = Nobody
  InTransit = InTransit
PROPERTIES
  RemovalIsRecorded
