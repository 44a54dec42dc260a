SPECIFICATION FairSpec
CONSTANTS
  c1 = c1
  c2 = c2
  m1 = m1
  m2 = m2
  m3 = m3
  Client = {c1, c2}
  Process <- Separate
  BusAddr <- Addresses
  Message = {m1, m2, m3}
  Fields <- Mixed
  NoMessage = NoMessage
  MaxStarts <- SecondListens
  MaxAttempts = 2
  MaxErrors = 1
CHECK_DEADLOCK FALSE
INVARIANTS
  TypeOK
  RoutedWhenAlone
  HandledInOrder
  NothingLost
PROPERTIES
  
  StopsInTheEnd
