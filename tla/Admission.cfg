SPECIFICATION Spec
CONSTANTS
  Reader = {r1, r2}
  Source = {s1, s2}
  RelaySource = {p1}
  PunchGap = 2
  PunchInterval = 3
  PunchCleanup = 2
  Second = 3
  MaxRelays = 2
  RelayCleanup = 3
  MaxLag = 1
  MaxClock = 4
INVARIANTS
  TypeOK
  RelayBudget
PROPERTIES
  SourceSpacing
  ReaderSpacing
SYMMETRY Symmetry
