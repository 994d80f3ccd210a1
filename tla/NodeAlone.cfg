SPECIFICATION FairSpec
CONSTANTS
  o1 = o1
  o2 = o2
  Operators = {o1}
  Operations = {"start", "start-checkpoint", "deposit", "stop"}
  CheckpointerEnabled = TRUE
  MaxExits = 3
  MaxRefusals = 1
  MaxInterrupts = 1
INVARIANTS
  TypeOK
  UnwoundStart
  NodeStopped
PROPERTIES
  RethStopsLast
  CommandsEnd
