SPECIFICATION SystemSpec
CONSTANTS
  Results = {"SUCCESS", "SUCCESS_DATA_PENDING", "NO_ACK"}
  Values = {1}
  Antennas = {"ANT1", "DIVERSITY"}
  MaxFrames = 2
  MaxRequests = 2
  Intervals = {31, 62, 63, 94}
  Waits = {0, 2}
  Wrap = 2
  Word = 4096
  HalfWord = 4
  MaxOthers = 1
INVARIANTS
  ConfirmAnswersRequest
  IndicationIsFrame
  IndicatedIsAcknowledged
  RadioAsConfigured
  SleepsItsTime
PROPERTIES
  EventuallyIdle
CHECK_DEADLOCK FALSE
