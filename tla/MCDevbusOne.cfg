SPECIFICATION Spec
CONSTANTS
  s1 = s1  s2 = s2  p1 = p1  p2 = p2
  None = None
  Slots = {s1}
  Subs = {p1, p2}
  Chunks = {1, 2, 3}
  Q = 1
  MaxBorrowed = 1
  MaxLoans = 1
  Policies = {"DropNewest", "DropOldest", "Block"}
  MaxSeq = 3
  PubMayCrash = TRUE
  WaitMode = "Futex"
  Mortal = {p1, p2}
  SlowClaim = FALSE
SYMMETRY Symmetry
VIEW View
ACTION_CONSTRAINT LeastFree
INVARIANTS
  TypeOK
  ReadableIsHeld
  LoanNeverFails
  
  EverySampleAccounted
  GapsAreDrops
  SleeperIsWoken
  BlockedIsWoken
  SlotExclusive
  DoneFits
PROPERTIES BorrowedStable
