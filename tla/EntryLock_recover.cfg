\* Two processes wait for the lock of a third one that dies.
CONSTANTS
  r1 = r1  r2 = r2  r3 = r3
  Process = {r1, r2, r3}
  NoFile = NoFile
  MaxLocks <- TwiceByOne
SPECIFICATION Spec
INVARIANT ExclusiveLock
CHECK_DEADLOCK FALSE
