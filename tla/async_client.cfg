SPECIFICATION FairSpec
CONSTANTS
  a = a
  b = b
  Tasks = {a, b}
  Threads = {1, 2}
  Placements <- MCPlacements
  Nobody = Nobody
  Objects = {soc, power}
  Values = {1, 2}
  NoValue = 0
  Retries = 1
  Operations = {"read", "verify"}
  Faults = {"late", "ignore", "close", "down", "stall", "cancel", "garbled", "panic"}
  CallLimit = 1
CHECK_DEADLOCK FALSE
INVARIANT TypeOK CleanWhenFree
PROPERTY AnswerIsCurrent CallsEnd
