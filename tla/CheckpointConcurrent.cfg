SPECIFICATION FairSpec
CONSTANTS
  c1 = c1
  c2 = c2
  Commands = {c1, c2}
  Programs = {"reth", "summit"}
  LockTaking = {"summit"}
  Children <- MCChildren
  Owns <- MCOwns
  Operations = {"install", "rollback", "delete"}
  InitialItems <- MCEveryItem
  Leavings <- MCNowhere
  MaxInstalls = 1
  MaxMishaps = 2
  Absent = Absent
  Torn = Torn
  Original = Original
  Fresh = Fresh
  Nobody = Nobody
  InTransit = InTransit
INVARIANTS
  TypeOK
  LockExclusion
  InterruptedInstallIsRecoverable
PROPERTIES
  InstalledIsMatched
  AutomaticRollbackRestores
  RollbackRestores
  ReceiptLifecycle
  ImplementsSwap
  CommandsFinish
