SPECIFICATION Spec
CONSTANTS
  SlotCount = 2
  Keys = {0, 1}
  Cipher <- MCCipher
  BlockSize = 2
  Headers <- MCHeaders
  Payloads <- MCPayloads
  MaxFrames = 3
INVARIANTS
  CountExact
  PayloadsRight
PROPERTIES
  EveryFrameReturned
CHECK_DEADLOCK FALSE
