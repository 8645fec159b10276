SPECIFICATION FairSpec
CONSTANTS
  Size = 2
  Families = {"AVR", "XMEGA", "SAMD"}
  MaxBytes = 4
PROPERTIES
  ReceiverIsFifo
  TransmitterIsFifo
  EveryByteServed
CHECK_DEADLOCK FALSE
