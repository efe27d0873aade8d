SPECIFICATION FairSpec
CONSTANTS
  Tokens = {ann}
  None = None
  MaxPuts = 1
  MaxEvents = 3
CHECK_DEADLOCK FALSE
PROPERTY RefreshIsNotForgotten
