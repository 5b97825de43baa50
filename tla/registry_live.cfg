SPECIFICATION FairSpec
CONSTANTS
  n1 = n1
  n2 = n2
  Slice = {"s1"}
  Node = {n1, n2}
  RustNode = {n1}
  Capacity <- MCCapacity
  MaxAttempts = 1
  MaxStream = 2
  Dials <- LiveDials
  Beats <- LiveBeats
  MaxBoots = 1
PROPERTIES DispatchedIsSettled RestoredIsFreed
CONSTRAINT OneDialsIn
CHECK_DEADLOCK FALSE
