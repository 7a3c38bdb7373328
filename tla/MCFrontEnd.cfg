SPECIFICATION Spec
CONSTANTS
  c1 = c1
  c2 = c2
  Conns = {c1, c2}
  Workers = {w1}
  QueueCap = 1
  MaxAuthFails = 3
  Listeners <- MCListeners
  Clients <- MCClients
  SizeOf <- MCSizeOf
  BufCap = 4
  MaxMsg = 2
  MaxTLSReadBuf = 4
  None = None
INVARIANTS
  InOrder
  SendsOnOpenChannel
PROPERTIES
  IsSession
  
  HandshakesEnd
  ShutdownEnds
CHECK_DEADLOCK FALSE
