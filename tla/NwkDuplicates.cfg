SPECIFICATION FairSpec
CONSTANTS
  TableSize = 2
  Sources = {s1, s2, s3}
  SeqMod = 4
  Window = 2
  Ttl = 2
  MaxSent = 5
INVARIANTS
  OneEntry
  TimerCovers
  DuplicatesRejected
  FreshAccepted
PROPERTIES
  TableFrees
