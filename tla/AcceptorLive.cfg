SPECIFICATION FairSpec
CONSTANTS
  Ops = {o1}
  Clients = {k1}
  Tunnels = {t1, t2}
  Settings <- AllOrNothing
  Executors = {TRUE, FALSE}
  MaxInbox = 2
  NoOp = NoOp
  NoClient = NoClient
  NoTunnel = NoTunnel
  o1 = o1
  k1 = k1
  t1 = t1
  t2 = t2
INVARIANTS
  TunnelCurrent
PROPERTIES
  CloseAbortsInOrder
  CancelCompletes
CHECK_DEADLOCK FALSE
