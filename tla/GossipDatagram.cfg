SPECIFICATION MeshFairSpec
CONSTANTS
  a = a
  b = b
  Beacon = {a, b}
  NodeId <- TwoNodes
  Endpoint <- OnePort
  Configured <- Pair
  UsesRegistry <- None
  Strict <- None
  GossipTTL = 1
  GossipCap = 2
  DatagramCap = 1
  MaxInFlight = 1
  NoRoute = NoRoute
PROPERTIES
  PeersLearnRoutes
