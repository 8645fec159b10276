SPECIFICATION Spec
CONSTANTS
  a = a
  b = b
  c = c
  d = d
  x = x
  Nodes <- PairNodes
  NonRouting = {}
  Link <- PairLink
  Origins <- MCOrigins
  Targets <- PairTargets
  Members <- PairMembers
  NoNode = none
  TableSize = 2
  Timeout = 3
  Lqis <- PairLqis
  Frames = {1, 2}
  MaxFrames = 3
  MaxRouteLosses = 1
PROPERTY
  DiscoveryHasItsTime
CHECK_DEADLOCK FALSE
