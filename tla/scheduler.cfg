SPECIFICATION Spec
CONSTANTS
  a = a
  b = b
  c = c
  ts = ts
  rust = rust
  Slice = {a, c}
  Date <- MCDate
  Rows <- MCRows
  Node = {ts, rust}
  RustNode = {rust}
  Slots <- MCSlots
  MaxAttempts = 1
  MaxDispatches = 1
  MaxScans = 2
  PageSize = 2
  MaxBuffered = 2
  LastDay = 3
  MaxBoots = 1
  MaxAsks = 1
  MaxFaults = 2
INVARIANTS CleanedOnce RustFinishesItsOwn OneRunAtATime BufferBounded
PROPERTIES RecordedRunIsDone
CHECK_DEADLOCK FALSE
CONSTRAINT FewTroubles
