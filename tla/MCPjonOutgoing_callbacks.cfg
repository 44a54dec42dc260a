SPECIFICATION Spec
CONSTANTS
  p1 = p1
  p2 = p2
  p3 = p3
  p4 = p4
  p5 = p5
  Packet = {p1, p2, p3}
  NoPacket = NoPacket
  Fields <- MixedFields
  DeviceId = {0, 1, 2, 3}
  OwnId = 1
  BROADCAST = 0
  Caller = {}
  IoThread = {io1}
  Line = {"channel busy", "ACK", "NAK", "other byte", "timeout"}
  MAX_PACKETS = 1
  MAX_ATTEMPTS = 1
  PACKET_MAX_LENGTH = 50
  AgeBound = 2
CHECK_DEADLOCK FALSE
INVARIANTS
  TypeOK
  BufferBound
  DispatchOrder
  NoSilentLoss
  OneVerdict
  FailuresCounted
PROPERTIES
  ImplementsMailbox
