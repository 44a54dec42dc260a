SPECIFICATION FairSpec
CONSTANTS
  p1 = p1
  p2 = p2
  p3 = p3
  p4 = p4
  p5 = p5
  Packet = {p1, p2}
  NoPacket = NoPacket
  Fields <- LiveFields
  DeviceId = {0, 1, 2, 3}
  OwnId = 1
  BROADCAST = 0
  Caller = {}
  IoThread = {io1}
  Line = {"ACK", "timeout"}
  MAX_PACKETS = 0
  MAX_ATTEMPTS = 2
  PACKET_MAX_LENGTH = 50
  AgeBound = 9
PROPERTIES
  EventuallySettled
  ImplementsFairMailbox
