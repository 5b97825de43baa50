SPECIFICATION Spec
CONSTANTS
  e1 = e1
  e2 = e2
  n1 = n1
  n2 = n2
  Event = {e1, e2}
  Converting = {e2}
  Node = {n1, n2}
  MaxAttempts = 1
  LastDay = 2
  MaxFaults = 3
  MaxBoots = 1
SYMMETRY NodesAlike
INVARIANTS NoDuplicateRows CompletedIsStored
CHECK_DEADLOCK FALSE
