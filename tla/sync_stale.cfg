SPECIFICATION Spec
CONSTANTS
  strategy = strategy
  grid = grid
  NoValue = NoValue
  Objects <- MCObjects
  ObjectType <- MCType
  Inputs <- MCInputs
  Held <- MCHeld
  EnumSize = 4
  Retries = 3
  Operations = {"read"}
  Faults = {"late"}
  LinkLimit = 3
INVARIANT AnswerIsCurrent
CHECK_DEADLOCK FALSE
