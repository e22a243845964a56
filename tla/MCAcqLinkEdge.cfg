SPECIFICATION Spec
CONSTANTS
  r1 = r1
  Depth = 3
  KfifoSize = 1
  MaxErrors = 3
  Policies = {"newest"}
  downsample_n = 2
  Readers = {r1}
  Polling = TRUE
  Starts = "stopped"
  MaxSamples = 4
  MaxControl = 3
  MaxFailures = 0
INVARIANTS
  NoLostEdge
