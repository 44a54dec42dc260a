SPECIFICATION Spec
CONSTANTS
  p1 = p1
  p2 = p2
  p3 = p3
  p4 = p4
  p5 = p5
  Packet = {p1, p2}
  NoPacket = NoPacket
  Fields <- PlainFields
  DeviceId = {0, 1, 2, 3}
  OwnId = 1
  BROADCAST = 0
  Caller = {}
  IoThread = {io1}
  Line = {"ACK", "timeout"}
  MAX_PACKETS = 2
  MAX_ATTEMPTS = 2
  PACKET_MAX_LENGTH = 50
  AgeBound = 9
INVARIANT
  LostAfterMaxAttempts
