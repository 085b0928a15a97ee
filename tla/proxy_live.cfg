SPECIFICATION FairSpec
CONSTANTS
  Clients = {c1, c2}
  Nobody = Nobody
  Tags = {1, 2}
  RequestKinds = {"ok"}
  ReplyKinds = {"ok", "short"}
  TailKinds = {"gap", "stray"}
  Window = 1
PROPERTY EveryRequestEnds
