SPECIFICATION FairSpec
CONSTANTS
  strategy = strategy
  grid = grid
  NoValue = NoValue
  Objects <- MCObjects
  ObjectType <- MCType
  Inputs <- MCInputs
  Held <- MCHeld
  EnumSize = 4
  Retries = 3
  Operations = {"read", "write", "verify"}
  Faults = {"ignore", "noack", "refuse", "close", "down", "stall", "garbled", "empty", "short", "panic"}
  LinkLimit = 3
INVARIANT TypeOK AnswerIsCurrent LostAckTolerated RetryBudget
PROPERTY CallsEnd
