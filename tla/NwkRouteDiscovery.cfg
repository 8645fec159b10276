SPECIFICATION Spec
CONSTANTS
  a = a
  b = b
  c = c
  d = d
  x = x
  Nodes <- MCNodes
  NonRouting = {}
  Link <- MCLink
  Origins <- MCOrigins
  Targets <- MCTargets
  Members <- MCMembers
  NoNode = none
  TableSize = 1
  Timeout = 2
  Lqis <- MCLqis
  Frames = {1}
  MaxFrames = 2
  MaxRouteLosses = 0
INVARIANTS
  WayBackAcyclic
  RoutesAcyclic
CHECK_DEADLOCK FALSE
