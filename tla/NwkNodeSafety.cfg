SPECIFICATION Spec
CONSTANTS
  NBuffers = 3
  Reqs = {r1, r2}
  MaxJitter = 1
  AckTicks = 2
  Arriving = {"drop", "local", "unicast", "flooded", "bcast", "relay", "route", "ackUni", "ackFlood"}
  MaxPosts = 2
  MaxRx = 2
SYMMETRY Symmetry
INVARIANTS
  TypeOK
  LockExact
  RadioOwned
  TimersCover
  ConfirmReachesOwner
  WaitingHasFrame
PROPERTIES
  ImplementsDataService
