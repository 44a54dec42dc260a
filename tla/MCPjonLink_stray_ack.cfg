SPECIFICATION Spec
CONSTANTS
  Device = {1, 2}
  Message <- StrayMessages
  NoMessage = NoMessage
  PACKET_MAX_LENGTH = 50
  ReceivedBufferLength = 1
  Timely = FALSE
  MaxSends = 1
  MaxFaults = 0
CHECK_DEADLOCK FALSE
INVARIANTS
  AckMeansDelivered
