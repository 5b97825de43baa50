SPECIFICATION FairIngestionSpec
CONSTANTS
  MaxEvents = 2
  MaxLog = 3
  MaxFaults = 2
  FlushSize = 2
INVARIANTS StoredOnce KeyMeansStored CommittedIsSettled
PROPERTY BufferSettles
CHECK_DEADLOCK FALSE
