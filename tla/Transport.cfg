SPECIFICATION Spec
CONSTANTS
  ConnectOps = {c1, c2}
  TransferOps = {w1}
  MaxClose = 1
  MaxSocketOps = 2
  MaxEndpoints = 2
  Calls = {k1, k2}
  Peers = {p1, p2, p3}
  MaxOngoing = 2
  IoOps = {1, 2}
  Closers = {"a", "b"}
  MaxOpens = 2
  PtyOps = {1, 2, 3}
  MaxStarts = 2
  MaxReads = 3
  MaxChunks = 2
  MaxSize = 4
  Capacity = 3
  HeaderSize = 2
  Controls = {"none", "grows", "throws"}
  MaxData = 2
  NoOp = NoOp
  c1 = c1
  c2 = c2
  w1 = w1
  k1 = k1
  k2 = k2
  p1 = p1
  p2 = p2
  p3 = p3
INVARIANTS
  ConnectionsSound
  ThreadsSafe
  MessagesIntact
PROPERTIES
  CloseCompletes
CHECK_DEADLOCK FALSE
