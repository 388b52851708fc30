SPECIFICATION SessionSpec
CONSTANTS
  ConnectOps = {c1, c2}
  CreateOps = {o1}
  AcceptOps = {a1}
  TunnelIds = {t1}
  StreamIds = {}
  Configs <- SessionConfigs
  MaxRequests = 0
  NoOp = NoOp
  NoClose = NoClose
  c1 = c1
  c2 = c2
  o1 = o1
  a1 = a1
  t1 = t1
INVARIANTS
  ReservationSound
  SessionDriven
  DisconnectOnce
PROPERTIES
  CleanOnlyIfClosed
  SessionEnds
  CancelCompletes
CHECK_DEADLOCK FALSE
