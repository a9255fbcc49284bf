SPECIFICATION FairSpec
CONSTANTS
  Conn = {c1, c2}
  Sender = {}
  RecvBuffer = 1
  NoConn = NoConn
PROPERTY
  CloseReturns
CHECK_DEADLOCK FALSE
