CONSTANTS
  Tasks = {t1, t2}
  AsyncCancels = {a1}
  Cancels = {c1}
  NoTask = NoTask
SPECIFICATION FairSpec
PROPERTIES
  CancelCompletes
  SignalledCompletes
CHECK_DEADLOCK FALSE
