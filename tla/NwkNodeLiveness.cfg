SPECIFICATION FairSpec
CONSTANTS
  NBuffers = 2
  Reqs = {r1, r2}
  MaxJitter = 1
  AckTicks = 2
  Arriving = {"unicast", "bcast", "route", "ackFlood"}
  MaxPosts = 2
  MaxRx = 1
PROPERTIES
  EveryRequestConfirmed
  EventuallyIdle
