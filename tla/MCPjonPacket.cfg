SPECIFICATION Spec
CONSTANTS
  SenderId = 45
  ReceiverId = 44
  ForcedId = 130
  Recipient = {0, 44, 45}
  Payload <- Payloads
  Damage = {1, 2, 4, 44, 64, 129, 255}
  MaxCheckedLength = 2
CHECK_DEADLOCK FALSE
INVARIANTS
  HeaderAsAsked
  RoundTrip
  WaitsIffAnswered
  DamageRefused
  ChecksumIsRemainder
