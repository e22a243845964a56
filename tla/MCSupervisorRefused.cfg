SPECIFICATION Spec
CONSTANTS
  MaxAttempts = 1
  Kfifo = 1
  Capacity = 1
  MaxQueue = 2
  MaxRequests = 0
  Faults = {"link"}
  MaxFaults = 1
  EarlySignal = FALSE
  None = None
INVARIANTS RefusalIsSeen
