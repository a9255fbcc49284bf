SPECIFICATION RecvSpec
CONSTANTS
  Conn = {c1, c2, c3}
  Sender = {s1, s2}
  RecvBuffer = 1
  NoConn = NoConn
INVARIANTS
  TypeOK
  NoSendOnClosed
  SendUsesDrained
  LiveIsInstalled
PROPERTIES
  Reconnects
  CloseReturns
CHECK_DEADLOCK FALSE
