SPECIFICATION Spec
CONSTANTS
  Clients = {c1, c2}
  Nobody = Nobody
  Tags = {1, 2}
  RequestKinds = {"ok", "bad", "short"}
  ReplyKinds = {"ok", "bad", "short"}
  TailKinds = {"gap", "stray"}
  Window = 2
SYMMETRY ClientSymmetry
INVARIANT TypeOK OneAtATime CleanLink OwnReply
PROPERTY SessionSurvives ImplementsMultiplexer
