\* Three tasks over two pools, each free to close or shut down anything.
CONSTANTS
  poolP = poolP  poolQ = poolQ  workP = workP  workQ = workQ  helpP = helpP  helpQ = helpQ
  actA = actA  actB = actB  actD = actD  extE = extE  extF = extF
  Pool = {poolP, poolQ}
  Initial = {poolP, poolQ}
  Worker = {workP, workQ}
  Helper = {helpP}
  PoolOf <- MCPoolOf
  Act = {actA, actB, actD}
  Target <- TwoPools
  Ext = {extE}
  Own = Own
  None = None
  Capacity = 1
  MaxCalls = 1
SPECIFICATION Spec
INVARIANTS
  NoWaitCycle
  FinishedOnlyClosersRemain
  FirstShutdownDrains
  StandsOnlyBehindCallers
CHECK_DEADLOCK FALSE
