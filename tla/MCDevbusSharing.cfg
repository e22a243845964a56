SPECIFICATION Spec
CONSTANTS
  s1 = s1  s2 = s2  p1 = p1  p2 = p2
  None = None
  Slots = {s1,s2}
  Subs = {p1, p2}
  Chunks = {1,2,3,4,5}
  Q = 1
  MaxBorrowed = 1
  MaxLoans = 1
  Policies = {"DropOldest"}
  MaxSeq = 2
  PubMayCrash = FALSE
  WaitMode = "BusySpin"
  Mortal = {}
  SlowClaim = FALSE
VIEW View
SYMMETRY Symmetry
ACTION_CONSTRAINT LeastFree
INVARIANTS
  OnePlace
  RefcountExact
  NoLeak
