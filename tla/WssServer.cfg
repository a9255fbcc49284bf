SPECIFICATION FairSpec
CONSTANTS
  Conn = {c1, c2}
  NodeId = {1}
  NodeOf <- OneNode
  Writer = {w1}
  MaxPeers = 0
  NoConn = NoConn
INVARIANTS
  TypeOK
  InstalledIsNewest
  LiveIsReachable
  AtMostOneLateFrame
PROPERTIES
  HandlersEnd
CHECK_DEADLOCK FALSE
