SPECIFICATION FairSpec
CONSTANTS
  Tokens = {ann, bob}
  None = None
  MaxPuts = 2
  MaxEvents = 4
CHECK_DEADLOCK FALSE
INVARIANTS
  TypeOK
  ConnectionIsConsistent
  WriteIsJudgedAsItsUser
PROPERTIES
  ImplementsWriteQueue
  WritesAreAnswered
