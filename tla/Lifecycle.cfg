SPECIFICATION FairSpec
CONSTANTS
  SocketCount = 3
  Loop = {l1, l2}
  Worker = {l1}
  Closer = {c1, c2}
  Waiters = {c1}
INVARIANTS
  TypeOK
  ServesUntilClosed
  CloseIsComplete
  FailureLeavesNothing
PROPERTIES
  CloseStops
CHECK_DEADLOCK FALSE
