SPECIFICATION Spec
CONSTANTS
  NodeId <- Zero
  WorkerCount = 1
  QueueCap = 2
  BatchCap = 2
  MaxPackets = 2
  LocalNodes <- Zero
  PeerNodes <- None
  WssNodes <- Zero
INVARIANTS
  FlowOrder
