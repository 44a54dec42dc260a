SPECIFICATION Spec
CONSTANTS
  c1 = c1
  c2 = c2
  m1 = m1
  m2 = m2
  m3 = m3
  Client = {c1, c2}
  Process <- Shared
  BusAddr <- Addresses
  Message = {m1, m2}
  Fields <- Crossing
  NoMessage = NoMessage
  MaxStarts <- BothListen
  MaxAttempts = 3
  MaxErrors = 0
CHECK_DEADLOCK FALSE
INVARIANT
  RoutedByItsIds
