--------------------------------- MODULE Codec ---------------------------------
(***************************************************************************)
(* Values and their bytes: DataType and DataValue (src/src/types.rs),      *)
(* encode_value, encode_for, to_i64 and decode_value (src/src/codec.rs).   *)
(*                                                                         *)
(* A number is its floor and the ten-thousandths above it, so that -0.5 is *)
(* [whole |-> -1, ticks |-> 5000].  An f32 is the decimal that Display     *)
(* prints for it; NaN, infinities and rounding beyond four decimals are    *)
(* left out.  TLC's integers bound numbers by 2^31 in size.                *)
(***************************************************************************)
EXTENDS Integers, Sequences

Composite == {"Timeseries", "EventTable", "BatteryModuleStatus",
              "BatteryModuleStatistics", "BatteryModuleResistance"}
DataTypes == {"Unknown", "Bool", "Uint8", "Int8", "Uint16", "Int16", "Uint32",
              "Int32", "Enum", "Float", "String"} \cup Composite

Num(variant, n)  == [variant |-> variant, whole |-> n, ticks |-> 0]
F32(n, ticks)    == [variant |-> "F32", whole |-> n, ticks |-> ticks]
Bool(b)          == Num("Bool", IF b THEN 1 ELSE 0)
Text(variant, s) == [variant |-> variant, bytes |-> s]

(* The bytes of a variant; Str and Raw have as many as they have. *)
Width == [Bool |-> 1, U8 |-> 1, I8 |-> 1, U16 |-> 2, I16 |-> 2,
          U32 |-> 4, I32 |-> 4, F32 |-> 4]

Ok(x)  == [kind |-> "Ok", value |-> x]
Err(e) == [kind |-> e]

-----------------------------------------------------------------------------
(* Conversions between integers.                                           *)

(* to_be_bytes *)
Bytes(n, size) == [i \in 1..size |-> (n \div 256^(size - i)) % 256]

(* from_be_bytes *)
FromBytes(variant, data) ==
  LET top == IF variant \in {"I8", "I16", "I32"} /\ data[1] >= 128
             THEN data[1] - 256 ELSE data[1]
  IN  CASE Width[variant] = 1 -> top
        [] Width[variant] = 2 -> 256 * top + data[2]
        [] Width[variant] = 4 -> 256 * (256 * (256 * top + data[2]) + data[3]) + data[4]

(* `as`: the low bytes are kept. *)
Cast(n, variant) == FromBytes(variant, Bytes(n, Width[variant]))

(* `as i64` truncates a float towards zero. *)
ToI64(v) == IF v.whole < 0 /\ v.ticks > 0 THEN v.whole + 1 ELSE v.whole

-----------------------------------------------------------------------------
(* encode_value and encode_for                                             *)

(* The four bytes of a float are only told apart by their place. *)
EncodeValue(v) ==
  CASE v.variant \in {"Str", "Raw"} -> v.bytes
    [] v.variant = "F32" -> [i \in 1..4 |-> [byte |-> i, whole |-> v.whole, ticks |-> v.ticks]]
    [] v.variant \in DOMAIN Width \ {"F32"} -> Bytes(v.whole, Width[v.variant])

(* The variant that is written for a data type. *)
WireVariant ==
  [Bool |-> "Bool", Uint8 |-> "U8", Enum |-> "U8", Int8 |-> "I8", Uint16 |-> "U16",
   Int16 |-> "I16", Uint32 |-> "U32", Int32 |-> "I32", Float |-> "F32", String |-> "Str"]

Accepted(type) ==
  CASE type = "Bool" -> {"Bool", "I8", "U8"}
    [] type = "String" -> {"Str"}
    [] type \notin {"Bool", "String"} -> DOMAIN Width

(* Mutant: a float keeps its whole part only. *)
NormalizedWhole(type, v) ==
  CASE type = "Bool" -> Bool(v.whole # 0)
    [] type = "String" -> v
    [] type = "Float" -> F32(ToI64(v), 0)
    [] type \notin {"Bool", "String", "Float"} ->
         Num(WireVariant[type], Cast(ToI64(v), WireVariant[type]))

Normalized(type, v) ==
  CASE type = "Bool" -> Bool(v.whole # 0)
    [] type = "String" \/ (type = "Float" /\ v.variant = "F32") -> v
    [] type = "Float" /\ v.variant # "F32" -> F32(v.whole, 0)
    [] type \notin {"Bool", "String", "Float"} ->
         Num(WireVariant[type], Cast(ToI64(v), WireVariant[type]))

EncodeFor(type, v) ==
  CASE type \notin DOMAIN WireVariant -> Err("UnknownDataType")
    [] type \in DOMAIN WireVariant /\ v.variant \notin Accepted(type) -> Err("InvalidValue")
    [] type \in DOMAIN WireVariant /\ v.variant \in Accepted(type) ->
         Ok(EncodeValue(Normalized(type, v)))

-----------------------------------------------------------------------------
(* decode_value                                                            *)

(* Mutant: a value is read in the variant it is written in. *)
ReadAsWritten == WireVariant

(* The variant that is read for a data type: an ENUM is not read as it is   *)
(* written.                                                                 *)
ReadVariant == [WireVariant EXCEPT !.Enum = "U32"]

Need(type) == IF type = "String" THEN 1 ELSE Width[ReadVariant[type]]

UpToNul(data) ==
  LET nuls == {i \in 1..Len(data) : data[i] = 0}
  IN  IF nuls = {} THEN data
      ELSE SubSeq(data, 1, (CHOOSE i \in nuls : \A j \in nuls : i <= j) - 1)

(* Mutant: a bool is its byte. *)
DecodedBoolByte(type, data) ==
  CASE type = "String" -> Text("Str", UpToNul(data))
    [] type = "Float" -> F32(data[1].whole, data[1].ticks)
    [] type \notin {"String", "Float"} ->
         Num(ReadVariant[type], FromBytes(ReadVariant[type], data))

Decoded(type, data) ==
  CASE type = "Bool" -> Bool(data[1] # 0)
    [] type = "String" -> Text("Str", UpToNul(data))
    [] type = "Float" -> F32(data[1].whole, data[1].ticks)
    [] type \notin {"Bool", "String", "Float"} ->
         Num(ReadVariant[type], FromBytes(ReadVariant[type], data))

DecodeValue(type, data) ==
  CASE type \notin DOMAIN ReadVariant -> Ok(Text("Raw", data))
    [] type \in DOMAIN ReadVariant /\ Len(data) < Need(type) -> Err("PayloadTooShort")
    [] OTHER -> Ok(Decoded(type, data))

(* The digits that Display prints behind the point; an integer has none. *)
Decimals(v) ==
  CHOOSE d \in 0..4 :
    /\ v.ticks % 10^(4 - d) = 0
    /\ \A e \in 0..(d - 1) : v.ticks % 10^(4 - e) # 0
=============================================================================
