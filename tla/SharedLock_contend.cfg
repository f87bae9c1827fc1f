\* Three threads, two of them with one token; any may be interrupted.
CONSTANTS
  thrA = thrA  thrB = thrB  thrC = thrC  tokA = tokA
  Thread = {thrA, thrB, thrC}
  Token = {tokA}
  NoToken = NoToken
  TokenOf <- MCTokenOf
  Interruptible = {thrA, thrC}
  MaxGen = 3
SPECIFICATION FairSpec
INVARIANTS
  LockWordExact
  OneCondvar
  SleepersHaveHolder
  CancelledAwake
PROPERTIES
  ImplementsLock
  CancelReturns
  InterruptReturns
CHECK_DEADLOCK FALSE
