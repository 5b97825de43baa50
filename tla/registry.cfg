SPECIFICATION Spec
CONSTANTS
  n1 = n1
  n2 = n2
  Slice = {"s1"}
  Node = {n1, n2}
  RustNode = {n1}
  Capacity <- MCCapacity
  MaxAttempts = 2
  MaxStream = 2
  Dials <- MCDials
  Beats <- MCBeats
  MaxBoots = 0
INVARIANTS InflightHasOwner NoGhostSlot
PROPERTIES ImplementsLedger
CONSTRAINT BeatOrMore
CHECK_DEADLOCK FALSE
