SPECIFICATION FairSpec
CONSTANTS
  a = a
  b = b
  c = c
  d = d
  x = x
  Nodes <- PairNodes
  NonRouting = {}
  Link <- PairLink
  Origins <- MCOrigins
  Targets <- PairTargets
  Members <- PairMembers
  NoNode = none
  TableSize = 2
  Timeout = 2
  Lqis <- PairLqis
  Frames = {1, 2}
  MaxFrames = 3
  MaxRouteLosses = 1
INVARIANTS
  WaitCovered
PROPERTY
  EveryWaitEnds
CHECK_DEADLOCK FALSE
