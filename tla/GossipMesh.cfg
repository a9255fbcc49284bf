SPECIFICATION MeshFairSpec
CONSTANTS
  a = a
  b = b
  Beacon = {a, b}
  NodeId <- OneNode
  Endpoint <- TwoPorts
  Configured <- Pair
  UsesRegistry <- OnlyA
  Strict <- OnlyA
  GossipTTL = 1
  GossipCap = 2
  DatagramCap = 2
  MaxInFlight = 2
  NoRoute = NoRoute
INVARIANTS
  MeshTypeOK
  RouteOwnerSeen
PROPERTIES
  OnlyOwnerWithdraws
  GhostRoutesVanish
  PeersLearnRoutes
