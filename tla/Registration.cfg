SPECIFICATION FairSpec
CONSTANTS
  NodeId <- MCNodeId
  Live <- MCLive
  DestNodes <- MCLive
  KeyNodes <- MCKeyed
  Addr = {a1}
  Key = {k1}
  NoKey = NoKey
  NoNode = NoNode
  Reader = {r1}
  ShardCount = 2
  MaxTotal = 3
  NodeTTL = 2
  MinInterval = 2
  NotifyGap = 1
  Heartbeat = 1
  MaxClock = 5
  MaxNotify = 1
INVARIANTS
  TypeOK
  LiveStaysRegistered
  ShardWithinCap
PROPERTIES
  DiscoverSpacing
  OrphansAreDropped
