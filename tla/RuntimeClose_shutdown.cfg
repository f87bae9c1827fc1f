\* Two external threads shut down the same pool.
CONSTANTS
  poolP = poolP  poolQ = poolQ  workP = workP  workQ = workQ  helpP = helpP  helpQ = helpQ
  actA = actA  actB = actB  actD = actD  extE = extE  extF = extF
  Pool = {poolP}
  Initial = {poolP}
  Worker = {workP}
  Helper = {helpP}
  PoolOf <- MCPoolOf
  Act = {actA, actB}
  Target <- WithThread
  Ext = {extE, extF}
  Own = Own
  None = None
  Capacity = 1
  MaxCalls = 1
SPECIFICATION Spec
INVARIANT ShutdownAwaitsSubmitted
CHECK_DEADLOCK FALSE
