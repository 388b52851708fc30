SPECIFICATION FairSpec
CONSTANTS
  Ops = {o1}
  Clients = {k1}
  Tunnels = {t1}
  Settings <- AllOrNothing
  Executors = {FALSE}
  MaxInbox = 2
  NoOp = NoOp
  NoClient = NoClient
  NoTunnel = NoTunnel
  o1 = o1
  k1 = k1
  t1 = t1
PROPERTIES
  CloseAborts
CHECK_DEADLOCK FALSE
