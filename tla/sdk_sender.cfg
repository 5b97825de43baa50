SPECIFICATION FairSenderSpec
CONSTANTS
  MaxEvents = 3
  MaxLog = 9
  MaxFaults = 2
  BatchSizes = {1, 2}
  MaxRetries = 1
  Transport = {"beacon", "gif", "fetch"}
  MaxRequests = 5
INVARIANTS QueueInOrder EventsAccounted ConfirmedIsLogged
PROPERTY QueueDrains
CHECK_DEADLOCK FALSE
