SPECIFICATION BoundedSpec
CONSTANTS
  Ops = {o1, o2}
  Clients = {k1, k2}
  Tunnels = {t1}
  Settings <- AllSettings
  Executors = {FALSE}
  MaxInbox = 1
  NoOp = NoOp
  NoClient = NoClient
  NoTunnel = NoTunnel
  o1 = o1
  o2 = o2
  k1 = k1
  k2 = k2
  t1 = t1
SYMMETRY Symmetry
INVARIANTS
  CompletedOnce
  NoLostAccept
  StartSound
  AcceptDriven
CHECK_DEADLOCK FALSE
