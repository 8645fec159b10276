SPECIFICATION Spec
CONSTANTS
  a = a
  b = b
  c = c
  d = d
  e = e
  Node <- MCNode
  Neighbours <- MCNeighbours
  GroupSlots = 2
  Radii = {0, 1, 2}
  MaxChanges = 3
INVARIANTS
  RadiiRespected
  FloodReachesAll
CHECK_DEADLOCK FALSE
