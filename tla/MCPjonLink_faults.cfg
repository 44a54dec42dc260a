SPECIFICATION FairSpec
CONSTANTS
  Device = {1, 2, 3}
  Message <- FaultMessages
  NoMessage = NoMessage
  PACKET_MAX_LENGTH = 50
  ReceivedBufferLength = 1
  Timely = TRUE
  MaxSends = 2
  MaxFaults = 1
CHECK_DEADLOCK FALSE
INVARIANTS
  TypeOK
  IntegrityOfOneSender
  AckMeansDelivered
  DuplicatesNeedFaults
  StoredAreNewest
PROPERTIES
  EventuallyAcked
