\* A task of poolP and a spawned thread; poolQ is created by whoever cares to.
CONSTANTS
  poolP = poolP  poolQ = poolQ  workP = workP  workQ = workQ  helpP = helpP  helpQ = helpQ
  actA = actA  actB = actB  actD = actD  extE = extE  extF = extF
  Pool = {poolP, poolQ}
  Initial = {poolP}
  Worker = {workP, workQ}
  Helper = {helpP}
  PoolOf <- MCPoolOf
  Act = {actA, actB}
  Target <- WithThread
  Ext = {extE}
  Own = Own
  None = None
  Capacity = 1
  MaxCalls = 1
SPECIFICATION FairSpec
INVARIANTS
  FinishedClosesPools
PROPERTIES
  CallsReturn
  CloseStopsEverything
CHECK_DEADLOCK FALSE
