\* Two workers and a queue of two; the third submission meets backpressure.
CONSTANTS
  k1 = k1
  Task = {t1, t2, t3}
  NoTask = NoTask
  Worker = {w1, w2}
  Helper = {h1}
  Capacity = 2
  Token = {k1}
  NoToken = NoToken
  TokenOf <- SharedToken
  Interruptible = {}
  Cooperative = {}
SPECIFICATION Spec
SYMMETRY Symmetry
INVARIANTS
  LeasesCounted
  SubmittersSleepOnlyWhenFull
  NoLostWakeup
  NoStrandedCancelled
  RefusedNeverRuns
PROPERTIES
  ImplementsContract
  DrainedQueueOnlyShrinks
CHECK_DEADLOCK FALSE
