SPECIFICATION Spec
CONSTANTS
  TableSize = 2
  Nodes = {a, b, c}
  Unknown = u
  NonRouting = {c}
  DefaultScore = 2
  DefaultRank = 4
  MaxRank = 7
  MaxLqi = 1
SYMMETRY Symmetry
INVARIANTS
  TypeOK
  EntriesSound
  OneRoute
  NextHopRelays
PROPERTIES
  EvictsOnlyWhenFull
  FixedRouteStays
