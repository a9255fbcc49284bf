SPECIFICATION Spec
CONSTANTS
  NodeId <- MCNodeId
  Addr = {a1, a2}
  Reader = {r1}
  ShardCount = 1
  MaxTotal = 2
  NoNode = NoNode
INVARIANTS
  TypeOK
PROPERTIES
  ToldIsRecent
  SteadyPunchPairs
SYMMETRY Symmetry
