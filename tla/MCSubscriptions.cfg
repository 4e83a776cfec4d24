SPECIFICATION SubsSpec
CONSTANT
  c1 = c1
  c2 = c2
  r1 = r1
  r2 = r2
  Channels <- MCChannels
  Receivers <- MCReceivers
  Keys <- MCKeys
  MAX_PAYLOAD_BYTES = 6
  BROADCAST_CAPACITY = 1
  JsonOverhead = 1
  MaxEvents = 3
  MaxFaults = 2
CHECK_DEADLOCK FALSE
INVARIANTS NoLossBetweenOutages ListensMatch ConvertedIsSent
PROPERTY CatchesUp
