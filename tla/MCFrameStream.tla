----------------------------- MODULE MCFrameStream -----------------------------
(* FrameStream on a few short frames.  Ids and payloads hold start and      *)
(* escape tokens, so the escaping and a false start inside a frame happen.  *)
EXTENDS PlantStream

None == <<0, 0, 0, 0>>

ReadEscaped ==
  [cmd |-> Read, id |-> <<45, 0, 43, 0>>, payload |-> << >>,
   address |-> None, type |-> Standard]
WriteToken ==
  [cmd |-> Write, id |-> <<17, 34, 51, 68>>, payload |-> <<43, 5>>,
   address |-> None, type |-> Standard]
LongAnswer ==
  [cmd |-> LongResponse, id |-> <<0, 0, 192, 222>>, payload |-> <<45, 1, 6>>,
   address |-> None, type |-> Standard]
PlantRead ==
  [cmd |-> Read, id |-> <<0, 0, 192, 222>>, payload |-> << >>,
   address |-> <<0, 0, 0, 7>>, type |-> Plant]

MCMessages == {ReadEscaped, WriteToken, LongAnswer}
MCPlantMessages == {PlantRead}

(* The messages are ones the theorems of FrameStreamProofs speak of. *)
ASSUME MCWellFormed == \A m \in MCMessages : WellFormed(m)
=============================================================================
