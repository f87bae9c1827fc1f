\* One worker, a queue of one, no drain helper; t1 was submitted cooperatively
\* and t2 has a host interrupt.
CONSTANTS
  k1 = k1
  Task = {t1, t2}
  NoTask = NoTask
  Worker = {w1}
  Helper = {}
  Capacity = 1
  Token = {k1}
  NoToken = NoToken
  TokenOf <- SharedToken
  Interruptible = {t2}
  Cooperative = {t1}
  Watchful = {t1}
  Detached = {t2}
  Reapers = 1
SPECIFICATION FairHandleSpec
INVARIANT SettledTaskIsOver
PROPERTIES
  AnswersAll
  SubmitReturns
  CancelFreesSlot
  CloseReleasesSubmitters
  HandlesSettle
CHECK_DEADLOCK FALSE
