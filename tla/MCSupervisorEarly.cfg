SPECIFICATION FairSpec
CONSTANTS
  MaxAttempts = 1
  Kfifo = 1
  Capacity = 1
  MaxQueue = 2
  MaxRequests = 0
  Faults = {}
  MaxFaults = 0
  EarlySignal = TRUE
  None = None
CHECK_DEADLOCK FALSE
PROPERTIES StopIsHonoured
