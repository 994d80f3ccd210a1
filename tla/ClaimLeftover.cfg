SPECIFICATION Spec
CONSTANTS
  c1 = c1
  c2 = c2
  Commands = {c1}
  Programs = {"summit"}
  LockTaking = {"summit"}
  Children <- MCChild
  Owns <- MCOwns
  Operations = {"install", "rollback", "delete"}
  InitialItems <- MCEveryItem
  Leavings <- MCAnywhere
  MaxInstalls = 1
  MaxMishaps = 1
  Absent = Absent
  Torn = Torn
  Original = Original
  Fresh = Fresh
  Nobody = Nobody
  InTransit = InTransit
PROPERTIES
  LeftoverIsRefused
