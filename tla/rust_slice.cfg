SPECIFICATION Spec
CONSTANTS
  n1 = n1
  n2 = n2
  t1 = t1
  t2 = t2
  NoAttempt = NoAttempt
  NoNode = NoNode
  NoTask = NoTask
  Node = {n1, n2}
  Task = {t1, t2}
  MaxAttempts = 2
  TaskSlots = 1
  FirstSize = 1
  MaxSize = 2
  MaxFaults = 2
INVARIANTS LeaseIsExclusive DuplicateNeedsAbandonedInsert MarkCoversGap CompletedIsStored
SYMMETRY Symmetry
CHECK_DEADLOCK FALSE
