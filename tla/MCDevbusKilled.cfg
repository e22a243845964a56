SPECIFICATION FairSpec
CONSTANTS
  s1 = s1  s2 = s2  p1 = p1  p2 = p2
  None = None
  Slots = {s1}
  Subs = {p1}
  Chunks = {1, 2, 3}
  Q = 1
  MaxBorrowed = 1
  MaxLoans = 1
  Policies = {"DropNewest", "DropOldest", "Block"}
  MaxSeq = 1
  PubMayCrash = TRUE
  WaitMode = "Futex"
  Mortal = {}
  SlowClaim = FALSE
ACTION_CONSTRAINT LeastFree
PROPERTY WaitReturns
