------------------------------ MODULE PlantStream ------------------------------
(***************************************************************************)
(* FrameStream with plant frames as other programs write them (external):  *)
(* the command byte has the plant bit (src/src/types.rs PLANT_BIT) and the *)
(* length field counts address and id.  make_frame never sets the bit, so  *)
(* only such frames take the parser through its plant branches.            *)
(***************************************************************************)
EXTENDS FrameStream

LOCAL INSTANCE SequencesExt

(* A message of type Plant on the wire. *)
PlantFrame(m) ==
  LET body == <<m.cmd + PLANT_BIT>> \o LengthField(m) \o m.address \o m.id
                \o (IF m.cmd = Read THEN << >> ELSE m.payload)
  IN  <<START_TOKEN>> \o Escape(body \o BigEndian(Crc16(body)))

PlantInit ==
  /\ sent \in Streams
  /\ \A k \in 1..FrameCount : sent[k].type = Plant
  /\ fault = [kind |-> "none", at |-> 0, byte |-> 0]
  /\ wire = FlattenSeq([k \in 1..FrameCount |-> PlantFrame(sent[k])])
  /\ rx = NewReceiveFrame
  /\ out = << >>
  /\ alive = TRUE

PlantSpec == PlantInit /\ [][Next]_vars

-----------------------------------------------------------------------------
(* Properties.                                                             *)

(* The parser has a branch for plant frames, "length field includes address *)
(* + id (8 bytes)" (frame.rs): undamaged ones are all handed on, with the   *)
(* command, id, address and payload they were written with.                 *)
PlantFramesRead ==
  wire = << >> =>
    /\ Len(out) = FrameCount
    /\ \A k \in 1..FrameCount : Says(out[k], sent[k])
=============================================================================
