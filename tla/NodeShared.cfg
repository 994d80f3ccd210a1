SPECIFICATION Spec
CONSTANTS
  o1 = o1
  o2 = o2
  Operators = {o1, o2}
  Operations = {"start", "start-checkpoint", "deposit", "stop"}
  CheckpointerEnabled = FALSE
  MaxExits = 1
  MaxRefusals = 0
  MaxInterrupts = 1
SYMMETRY Symmetry
INVARIANTS
  DepositRpcIsOwned
  KeysAreExclusive
PROPERTIES
  StartStopsNothing
