SPECIFICATION Spec
CONSTANTS
  ConnectOps = {c1}
  CreateOps = {o1}
  AcceptOps = {a1, a2}
  TunnelIds = {t1}
  StreamIds = {s1, s2}
  Configs <- SyncConfigs
  MaxRequests = 1
  NoOp = NoOp
  NoClose = NoClose
  c1 = c1
  o1 = o1
  a1 = a1
  a2 = a2
  t1 = t1
  s1 = s1
  s2 = s2
SYMMETRY Symmetry
INVARIANTS
  DelayedUntilAccept
CHECK_DEADLOCK FALSE
