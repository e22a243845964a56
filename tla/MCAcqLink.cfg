SPECIFICATION Spec
CONSTANTS
  r1 = r1
  Depth = 3
  KfifoSize = 1
  MaxErrors = 3
  Policies = {"newest", "oldest", "downsample"}
  downsample_n = 2
  Readers = {r1}
  Polling = TRUE
  Starts = "quiet"
  MaxSamples = 4
  MaxControl = 2
  MaxFailures = 3
INVARIANTS
  TypeOK
  LineMatchesFifo
  NoLostEdge
  
  
  
  
