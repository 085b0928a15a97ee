------------------------------ MODULE FrameStream ------------------------------
(***************************************************************************)
(* The receiving side of a proxy session (src/src/proxy.rs serve_client):  *)
(* a byte stream of frames arrives in reads of any size, every byte goes   *)
(* through the parser, a complete frame is handed on with its wire bytes,  *)
(* and after an error a new parser looks for the next start token.         *)
(*                                                                         *)
(* The sender (make_frame) writes a few frames; the channel may damage one *)
(* byte of the stream.                                                     *)
(***************************************************************************)
EXTENDS RctFrame, Integers

Bytes == 0..255

CONSTANTS
  Messages,      \* the messages a frame may be made from
  FrameCount,    \* how many frames the stream has
  FaultKinds,    \* subset of {"none", "flip", "drop", "duplicate"}
  FlipBytes,     \* what a flipped byte may become
  ReadSizes      \* how many bytes a read may return

ASSUME StreamAssumption ==
  /\ FrameCount \in Nat \ {0}
  /\ FaultKinds \subseteq {"none", "flip", "drop", "duplicate"}
  /\ FlipBytes \subseteq Bytes
  /\ ReadSizes \subseteq Nat \ {0}
  /\ \A m \in Messages : m.cmd \in KnownCommands /\ m.type \in {Standard, Plant}

VARIABLES
  sent,      \* the messages, in the order they were written
  fault,     \* the damage done to the stream
  wire,      \* bytes not read yet
  rx,        \* the session's ReceiveFrame
  out,       \* frames handed on
  alive      \* FALSE once the session task has panicked

vars == <<sent, fault, wire, rx, out, alive>>

-----------------------------------------------------------------------------
(* The sender and the channel.                                             *)

Wire == [m \in Messages |-> MakeFrame(m)]

Streams == [1..FrameCount -> Messages]

(* Ends[msgs][k]: offset of the last byte of the k-th frame. *)
Ends ==
  [msgs \in Streams |->
     LET end[k \in 0..FrameCount] ==
           IF k = 0 THEN 0 ELSE end[k-1] + Len(Wire[msgs[k]])
     IN  [k \in 0..FrameCount |-> end[k]]]

BytesOf ==
  [msgs \in Streams |->
     LET upto[k \in 0..FrameCount] ==
           IF k = 0 THEN << >> ELSE upto[k-1] \o Wire[msgs[k]]
     IN  upto[FrameCount]]

FaultsOf(length) ==
  [kind : FaultKinds \cap {"none"}, at : {0}, byte : {0}]
    \cup [kind : FaultKinds \cap {"flip"}, at : 1..length, byte : FlipBytes]
    \cup [kind : FaultKinds \cap {"drop", "duplicate"}, at : 1..length, byte : {0}]

Damaged(bytes, f) ==
  CASE f.kind = "none" -> bytes
    [] f.kind = "flip" -> [bytes EXCEPT ![f.at] = f.byte]
    [] f.kind = "drop" -> SubSeq(bytes, 1, f.at - 1) \o SubSeq(bytes, f.at + 1, Len(bytes))
    [] f.kind = "duplicate" -> SubSeq(bytes, 1, f.at) \o SubSeq(bytes, f.at, Len(bytes))

-----------------------------------------------------------------------------
(* The session.                                                            *)

Delivered(r) ==
  [command |-> r.command, id |-> r.id, address |-> r.address,
   data |-> r.data, raw |-> r.raw]

(* Mutants: the parser is not replaced after a complete frame, or after an   *)
(* error.                                                                   *)
FeedByteSameParser(s, b) ==
  LET step == ConsumeByte(s.rx, b)
  IN  CASE ~s.alive \/ step.outcome = "panic" -> [s EXCEPT !.alive = FALSE]
        [] s.alive /\ step.outcome = "complete" ->
             [s EXCEPT !.rx = step.rx, !.out = Append(@, Delivered(step.rx))]
        [] s.alive /\ step.outcome = "more" -> [s EXCEPT !.rx = step.rx]
        [] s.alive /\ step.outcome \in FrameErrors -> [s EXCEPT !.rx = NewReceiveFrame]

FeedByteNoResync(s, b) ==
  LET step == ConsumeByte(s.rx, b)
  IN  CASE ~s.alive \/ step.outcome = "panic" -> [s EXCEPT !.alive = FALSE]
        [] s.alive /\ step.outcome = "complete" ->
             [s EXCEPT !.rx = NewReceiveFrame, !.out = Append(@, Delivered(step.rx))]
        [] s.alive /\ step.outcome \in {"more"} \cup FrameErrors ->
             [s EXCEPT !.rx = step.rx]

(* What the loop of serve_client does with one byte. *)
FeedByte(s, b) ==
  LET step == ConsumeByte(s.rx, b)
  IN  CASE ~s.alive -> s
        [] s.alive /\ step.outcome = "more" -> [s EXCEPT !.rx = step.rx]
        [] s.alive /\ step.outcome = "complete" ->
             [s EXCEPT !.rx = NewReceiveFrame,
                       !.out = Append(@, Delivered(step.rx))]
        [] s.alive /\ step.outcome \in FrameErrors ->
             [s EXCEPT !.rx = NewReceiveFrame]
        [] s.alive /\ step.outcome = "panic" -> [s EXCEPT !.alive = FALSE]

Feed(s, bytes) ==
  LET fed[k \in 0..Len(bytes)] ==
        IF k = 0 THEN s ELSE FeedByte(fed[k-1], bytes[k])
  IN  fed[Len(bytes)]

Init ==
  /\ sent \in Streams
  /\ fault \in FaultsOf(Len(BytesOf[sent]))
  /\ fault.kind = "flip" => fault.byte # BytesOf[sent][fault.at]
  /\ wire = Damaged(BytesOf[sent], fault)
  /\ rx = NewReceiveFrame
  /\ out = << >>
  /\ alive = TRUE

ReadChunk ==
  \E n \in ReadSizes :
    LET size  == IF n < Len(wire) THEN n ELSE Len(wire)
        after == Feed([rx |-> rx, out |-> out, alive |-> alive],
                      SubSeq(wire, 1, size))
    IN  /\ alive
        /\ wire # << >>
        /\ wire' = SubSeq(wire, size + 1, Len(wire))
        /\ rx' = after.rx
        /\ out' = after.out
        /\ alive' = after.alive
        /\ UNCHANGED <<sent, fault>>

Next == ReadChunk
Spec == Init /\ [][Next]_vars

-----------------------------------------------------------------------------
(* Properties.                                                             *)

(* What a frame has to be for the parser to read it as it was meant: a      *)
(* standard frame that says its own length, of a command that is parsed.    *)
WellFormed(m) ==
  /\ m.type = Standard /\ m.cmd # Extension
  /\ m.id \in Seq(Bytes) /\ Len(m.id) = 4
  /\ m.payload \in Seq(Bytes) /\ (m.cmd = Read => m.payload = << >>)
  /\ Standard + Len(m.payload) < IF IsLong(m.cmd) THEN 65536 ELSE 256

(* What a frame made from message m has to say. *)
Content(m) ==
  [command |-> m.cmd, id |-> m.id,
   address |-> IF m.type = Plant THEN m.address ELSE << >>,
   data |-> IF m.cmd = Read THEN << >> ELSE m.payload]

Says(frame, m) == \A field \in DOMAIN Content(m) : frame[field] = Content(m)[field]

(* The variables have their types, and the bytes of an unfinished frame     *)
(* are a start token and what followed it.                                  *)
TypeOK ==
  /\ sent \in Streams
  /\ wire \in Seq(Bytes)
  /\ rx.buffer \in Seq(Bytes) /\ rx.raw \in Seq(Bytes)
  /\ rx.command \in KnownCommands \cup {NoCommand}
  /\ ~rx.complete
  /\ alive \in BOOLEAN

(* Every frame handed on says what one of the written frames says, in the   *)
(* order they were written and none twice, whatever the sizes of the reads  *)
(* and whatever byte was damaged (serve_client re-syncs, consume checks the *)
(* checksum).  Only the content: a frame that lost the escape token in      *)
(* front of a start token is still accepted.                                *)
OnlySentFrames ==
  /\ Len(out) <= FrameCount
  /\ \E from \in [1..Len(out) -> 1..FrameCount] :
       /\ \A i, j \in 1..Len(out) : i < j => from[i] < from[j]
       /\ \A i \in 1..Len(out) : Says(out[i], sent[from[i]])

(* A frame that ends before the damage is handed on as soon as its last     *)
(* byte has been read, with the wire bytes it was written with (escape      *)
(* tokens included): none waits for the frame behind it.                    *)
Arrived(k) == LET longer == CASE fault.kind = "drop" -> -1
                                [] fault.kind = "duplicate" -> 1
                                [] OTHER -> 0
              IN  Ends[sent][FrameCount] + longer - Len(wire) >= Ends[sent][k]

BeforeDamage(k) == fault.kind = "none" \/ Ends[sent][k] < fault.at

PromptDelivery ==
  \A k \in 1..FrameCount :
    BeforeDamage(k) /\ Arrived(k) =>
      /\ Len(out) >= k
      /\ Says(out[k], sent[k])
      /\ out[k].raw = Wire[sent[k]]

(* A flipped byte that leaves the frame its length (it is not, and does not *)
(* become, a token, and lies behind the length field) costs that frame only. *)
(* Without that the damage is not local: a false start token in a payload   *)
(* may announce a frame that swallows the ones behind.                      *)
Tokens == {START_TOKEN, ESCAPE_TOKEN}

LengthKept(k) ==
  /\ fault.kind = "flip"
  /\ {fault.byte, BytesOf[sent][fault.at]} \cap Tokens = {}
  /\ fault.at > Ends[sent][k - 1] + 2 + Len(Escape(LengthField(sent[k])))
  /\ fault.at <= Ends[sent][k]

FlipCostsOneFrame ==
  wire = << >> =>
    \A k \in 1..FrameCount :
      LengthKept(k) => /\ Len(out) = FrameCount - 1
                       /\ \A i \in 1..Len(out) :
                            Says(out[i], sent[IF i < k THEN i ELSE i + 1])

(* No stream makes the parser fail otherwise than with an error: consume()  *)
(* reports what it cannot parse "so callers can drop those bytes and        *)
(* re-sync with a new parser" (frame.rs).                                   *)
ParserNeverPanics == alive
=============================================================================
