SPECIFICATION FairSpec
CONSTANTS
  MaxAttempts = 1
  Kfifo = 1
  Capacity = 1
  MaxQueue = 1
  MaxRequests = 0
  Faults = {"link", "stall", "read"}
  MaxFaults = 1
  EarlySignal = FALSE
  None = None
PROPERTIES StopIsHonoured StallIsNoticed  DeathIsNoticed
