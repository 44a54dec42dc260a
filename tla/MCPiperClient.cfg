SPECIFICATION FairSpec
CONSTANTS
  MaxLaunches = 3
  MaxCommands = 2
  MaxLines = 1
  Apart = TRUE
CHECK_DEADLOCK FALSE
INVARIANTS
  TypeOK
  NoOrphan
  NoneMeansStopped
  CommandsInOrder

PROPERTIES
  
  CommandsWritten
  StopReturns
  ImplementsSupervisor
