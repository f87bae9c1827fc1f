\* Three processes, each of them mortal.
CONSTANTS
  r1 = r1  r2 = r2  r3 = r3
  Process = {r1, r2, r3}
  NoFile = NoFile
  MaxLocks <- TwiceByOne
SPECIFICATION FairSpec
INVARIANTS
  ExclusiveUnlessOverlap
  NoAbandonedFile
PROPERTY AcquireReturns
CHECK_DEADLOCK FALSE
