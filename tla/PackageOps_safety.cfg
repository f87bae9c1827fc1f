\* Two projects that share the global environment, two processes, one change
\* by an editor.
CONSTANTS
  Process = {w1, w2}
  Project = {pA, pB}
  Config = {c1, c2}
  Source = {s1, s2}
  Global = Global
  Targets = {Global}
  Requestable = {"sync", "install", "lock", "edit"}
  Nobody = Nobody  NoLock = NoLock  Absent = Absent  Bare = Bare  NoTree = NoTree
  MaxRequests = 3
  MaxChanges = 1
SPECIFICATION Spec
SYMMETRY Symmetry
INVARIANTS
  LockFollowsConfig
  BareOnlyIfAbandoned
  EditReplacesComparedText
  ExtrasKeptUnlessRaced
PROPERTIES
  LockOnlyUpgradedOnRequest
  EnvironmentFollowsLock
CHECK_DEADLOCK FALSE
