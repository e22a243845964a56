SPECIFICATION Spec
CONSTANTS
  MaxAttempts = 2
  Kfifo = 1
  Capacity = 1
  MaxQueue = 2
  MaxRequests = 2
  Faults = {"link", "detach", "reset", "stall", "read", "kill"}
  MaxFaults = 1
  EarlySignal = FALSE
  None = None
INVARIANTS TypeOK StateIsTrue SettledFault 
PROPERTIES FaultIsLatched
VIEW View
