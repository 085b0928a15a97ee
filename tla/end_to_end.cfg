SPECIFICATION Spec
CONSTANTS
  Clients = {asynchronous, synchronous}
  Keep = {synchronous}
  Nobody = Nobody
  Object = soc
  NoValue = NoValue
  Values = {v1, v2}
  Operations = {"read", "verify"}
  Retries = 1
  CallLimit = 3
  SessionLimit = 3
SYMMETRY Symmetry
INVARIANT TypeOK ExecutedOnce
PROPERTY AnswerIsCurrent OwnWrite
CHECK_DEADLOCK FALSE
