SPECIFICATION FairSpec
CONSTANTS
  strategy = strategy
  grid = grid
  NoValue = NoValue
  Objects <- MCObjects
  ObjectType <- MCType
  Inputs <- MCInputs
  Held <- MCHeld
  EnumSize = 4
  Retries = 3
  Operations = {"read"}
  Faults = {"close"}
  LinkLimit = 3
PROPERTY Reconnects
