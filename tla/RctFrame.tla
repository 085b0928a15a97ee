------------------------------- MODULE RctFrame -------------------------------
(***************************************************************************)
(* The wire format of the RCT serial protocol: building a frame            *)
(* (src/src/frame.rs make_frame) and the incremental receive parser        *)
(* (ReceiveFrame::consume), with the checksum of src/src/codec.rs.         *)
(*                                                                         *)
(* Bytes are numbers 0..255.  An object id or a plant address is the tuple *)
(* of its four big-endian bytes, so no 32-bit number is ever formed.       *)
(***************************************************************************)
EXTENDS Naturals, Sequences

START_TOKEN  == 43      \* '+'
ESCAPE_TOKEN == 45      \* '-'

-----------------------------------------------------------------------------
(* Command bytes and the plant bit (src/src/types.rs Command).             *)

Read             == 1
Write            == 2
LongWrite        == 3
Response         == 5
LongResponse     == 6
ReadPeriodically == 8
Extension        == 60

PLANT_BIT   == 64
NoCommand   == 0        \* the parser's command: None
KnownCommands ==
  {Read, Write, LongWrite, Response, LongResponse, ReadPeriodically, Extension}

IsPlantByte(b) == (b \div PLANT_BIT) % 2 = 1
IsLong(cmd)    == cmd \in {LongWrite, LongResponse}

(* Command::from_byte clears the plant bit before it looks the command up, *)
(* so the command it returns never carries the bit.                        *)
FromByte(b) ==
  LET base == IF IsPlantByte(b) THEN b - PLANT_BIT ELSE b
  IN  IF base \in KnownCommands THEN base ELSE NoCommand

(* FrameType: the number of id and address bytes the length field counts.  *)
Standard == 4
Plant    == 8

-----------------------------------------------------------------------------
(* codec.rs crc16: CCITT polynomial 0x1021 from 0xFFFF, bit by bit; an odd *)
(* number of bytes is padded with a zero byte.                             *)

Bit(x, k) == (x \div 2^k) % 2

Flip(x, k) == IF Bit(x, k) = 1 THEN x - 2^k ELSE x + 2^k

(* The exclusive or with byte << 8, and with 0x1021 (bits 12, 5 and 0).     *)
XorHigh(crc, byte) ==
  LET bit(k) == 2^(k + 8) * ((Bit(crc, k + 8) + Bit(byte, k)) % 2)
  IN  (crc % 256) + bit(0) + bit(1) + bit(2) + bit(3) + bit(4) + bit(5) + bit(6) + bit(7)

Shift(crc) ==
  IF crc < 32768 THEN 2 * crc
  ELSE Flip(Flip(Flip(2 * crc - 65536, 0), 5), 12)

ShiftByteIn(crc, byte) ==
  LET shifted[k \in 0..8] ==
        IF k = 0 THEN XorHigh(crc, byte) ELSE Shift(shifted[k-1])
  IN  shifted[8]

Crc16(bytes) ==
  LET padded == IF Len(bytes) % 2 = 1 THEN Append(bytes, 0) ELSE bytes
      after[k \in 0..Len(padded)] ==
        IF k = 0 THEN 65535 ELSE ShiftByteIn(after[k-1], padded[k])
  IN  after[Len(padded)]

(* u16::to_be_bytes. *)
BigEndian(x) == <<(x \div 256) % 256, x % 256>>

-----------------------------------------------------------------------------
(* make_frame.  A message is a record with the arguments of the function.  *)

Escape(bytes) ==
  LET done[k \in 0..Len(bytes)] ==
        IF k = 0 THEN << >>
        ELSE done[k-1] \o (IF bytes[k] \in {START_TOKEN, ESCAPE_TOKEN}
                           THEN <<ESCAPE_TOKEN, bytes[k]>> ELSE <<bytes[k]>>)
  IN  done[Len(bytes)]

(* The length field has 16 bits for long commands and 8 bits otherwise,    *)
(* wraps, and counts the payload even for READ, which does not carry it.   *)
LengthField(msg) ==
  LET len == msg.type + Len(msg.payload)
  IN  IF IsLong(msg.cmd) THEN BigEndian(len) ELSE <<len % 256>>

MakeFrame(msg) ==
  LET body == <<msg.cmd>> \o LengthField(msg)
                \o (IF msg.type = Plant THEN msg.address ELSE << >>)
                \o msg.id
                \o (IF msg.cmd = Read THEN << >> ELSE msg.payload)
  IN  <<START_TOKEN>> \o Escape(body \o BigEndian(Crc16(body)))

-----------------------------------------------------------------------------
(* ReceiveFrame: one parser per frame.  `buffer` has the bytes of the frame *)
(* without escape tokens, `raw` the wire bytes with them.                   *)

NewReceiveFrame ==
  [complete |-> FALSE, escaping |-> FALSE, frameLength |-> 0,
   command |-> NoCommand, buffer |-> << >>, raw |-> << >>,
   headerLength |-> 7, id |-> << >>, address |-> << >>, data |-> << >>]

(* How consume() ends for one byte: more bytes are wanted, the frame is     *)
(* complete, one of the errors, or the panic of slicing a payload whose end *)
(* lies before its start.                                                   *)
FrameErrors == {"InvalidCommand", "FrameCrcMismatch", "FrameLengthExceeded"}
Outcomes    == {"more", "complete", "panic"} \cup FrameErrors

OnCommandByte(rx, b) ==
  LET cmd == FromByte(b)
  IN  IF cmd \in {NoCommand, Extension}
      THEN [rx |-> rx, outcome |-> "InvalidCommand"]
      ELSE [rx |-> [rx EXCEPT !.command = cmd,
                              !.headerLength = @ + (IF IsPlantByte(b) THEN 4 ELSE 0)
                                                 + (IF IsLong(cmd) THEN 1 ELSE 0)],
            outcome |-> "more"]

(* The header is in: the length, the address of a plant frame and the id.   *)
OnHeader(rx) ==
  LET long   == IsLong(rx.command)
      plant  == IsPlantByte(rx.command)
      length == IF long THEN 256 * rx.buffer[3] + rx.buffer[4] ELSE rx.buffer[3]
      first  == IF long THEN 5 ELSE 4
      oid    == IF plant THEN first + 4 ELSE first
  IN  [rx |-> [rx EXCEPT !.frameLength = rx.headerLength - (IF plant THEN 8 ELSE 4)
                                           + length + 2,
                         !.address = IF plant THEN SubSeq(rx.buffer, first, first + 3)
                                              ELSE << >>,
                         !.id = SubSeq(rx.buffer, oid, oid + 3)],
       outcome |-> "more"]

(* Mutant: the checksum is not compared. *)
OnLastByteUnchecked(rx) ==
  LET blen == Len(rx.buffer)
  IN  [rx |-> [rx EXCEPT !.complete = TRUE,
                         !.data = SubSeq(rx.buffer, rx.headerLength + 1, blen - 2)],
       outcome |-> IF blen - 2 < rx.headerLength THEN "panic" ELSE "complete"]

OnLastByte(rx) ==
  LET blen == Len(rx.buffer)
      recv == SubSeq(rx.buffer, blen - 1, blen)
      calc == BigEndian(Crc16(SubSeq(rx.buffer, 2, blen - 2)))
  IN  IF blen - 2 < rx.headerLength
      THEN [rx |-> rx, outcome |-> "panic"]
      ELSE [rx |-> [rx EXCEPT !.complete = TRUE,
                              !.data = SubSeq(rx.buffer, rx.headerLength + 1, blen - 2)],
            outcome |-> IF recv = calc THEN "complete" ELSE "FrameCrcMismatch"]

(* A byte of the frame proper, its escape token already taken off. *)
OnFrameByte(rx, b) ==
  LET grown == [rx EXCEPT !.buffer = Append(@, b)]
      blen  == Len(grown.buffer)
  IN  IF blen = 2 THEN OnCommandByte(grown, b)
      ELSE IF blen = rx.headerLength /\ rx.frameLength = 0 THEN OnHeader(grown)
      ELSE IF rx.frameLength > 0 /\ blen = rx.frameLength THEN OnLastByte(grown)
      ELSE [rx |-> grown,
            outcome |-> IF rx.frameLength > 0 /\ blen > rx.frameLength
                        THEN "FrameLengthExceeded" ELSE "more"]

(* Mutant: the wire bytes are kept without escape tokens. *)
ConsumeByteUnescaped(rx, b) ==
  LET kept == [rx EXCEPT !.raw = Append(@, b)]
  IN  IF rx.buffer = << >>
      THEN [rx |-> IF b = START_TOKEN
                   THEN [rx EXCEPT !.raw = <<b>>, !.buffer = <<b>>] ELSE rx,
            outcome |-> "more"]
      ELSE IF rx.escaping THEN OnFrameByte([kept EXCEPT !.escaping = FALSE], b)
      ELSE IF b = ESCAPE_TOKEN
      THEN [rx |-> [rx EXCEPT !.escaping = TRUE], outcome |-> "more"]
      ELSE OnFrameByte(kept, b)

(* One turn of the loop of consume(). *)
ConsumeByte(rx, b) ==
  LET kept == [rx EXCEPT !.raw = Append(@, b)]
  IN  IF rx.buffer = << >>
      THEN [rx |-> IF b = START_TOKEN
                   THEN [rx EXCEPT !.raw = <<b>>, !.buffer = <<b>>] ELSE rx,
            outcome |-> "more"]
      ELSE IF rx.escaping THEN OnFrameByte([kept EXCEPT !.escaping = FALSE], b)
      ELSE IF b = ESCAPE_TOKEN
      THEN [rx |-> [kept EXCEPT !.escaping = TRUE], outcome |-> "more"]
      ELSE OnFrameByte(kept, b)
=============================================================================
