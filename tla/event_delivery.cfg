SPECIFICATION Spec
CONSTANTS
  MaxEvents = 2
  MaxLog = 3
  MaxFaults = 2
  BatchSizes = {2}
  MaxRetries = 1
  Transport = {"beacon", "fetch"}
  MaxRequests = 4
  FlushSize = 2
INVARIANTS NothingLostWithoutFault EveryEventAccounted
CHECK_DEADLOCK FALSE
