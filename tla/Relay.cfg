SPECIFICATION FairSpec
CONSTANTS
  NodeId <- OneWorkerNodes
  WorkerCount = 2
  QueueCap = 2
  BatchCap = 2
  MaxPackets = 3
  LocalNodes <- Zero
  PeerNodes <- Two
  WssNodes <- Zero
INVARIANTS
  TypeOK
  TimerGuardsBatch
  PipelineOrdered
  Accounting
  FlowOrderPerTransport
PROPERTIES
  QueuedIsResolved
  RefinesFlowChannel
