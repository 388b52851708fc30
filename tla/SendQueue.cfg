CONSTANTS
  Tasks = {t1, t2, t3}
  AsyncCancels = {a1, a2}
  Cancels = {}
  NoTask = NoTask
SPECIFICATION Spec
SYMMETRY Symmetry
INVARIANTS
  CompletedOnce
  OrderedWrites
  CancelBarrier
  NothingWaitsForIdle
  CancelReachesWrite
CHECK_DEADLOCK FALSE
