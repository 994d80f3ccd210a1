SPECIFICATION Spec
CONSTANTS
  o1 = o1
  o2 = o2
  Operators = {o1}
  Operations = {"start", "start-checkpoint", "deposit", "stop"}
  CheckpointerEnabled = TRUE
  MaxExits = 2
  MaxRefusals = 0
  MaxInterrupts = 0
PROPERTIES
  CleanupPreserves
