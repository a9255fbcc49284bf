SPECIFICATION Spec
CONSTANTS
  Conn = {c1, c2}
  Sender = {}
  RecvBuffer = 1
  NoConn = NoConn
INVARIANT
  CloseShutsDown
CHECK_DEADLOCK FALSE
