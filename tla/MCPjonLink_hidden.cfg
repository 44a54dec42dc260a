SPECIFICATION Spec
CONSTANTS
  Device = {1, 2, 3}
  Message <- CarrierMessages
  NoMessage = NoMessage
  PACKET_MAX_LENGTH = 50
  ReceivedBufferLength = 1
  Timely = TRUE
  MaxSends = 1
  MaxFaults = 0
CHECK_DEADLOCK FALSE
INVARIANTS
  Integrity
