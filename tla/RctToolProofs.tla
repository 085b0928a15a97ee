------------------------------ MODULE RctToolProofs ------------------------------
(***************************************************************************)
(* Proofs about RctTool for any registry, any parameter, any inputs and    *)
(* any number of commands, tries and late writes.                          *)
(***************************************************************************)
EXTENDS RctTool, TLAPS

-----------------------------------------------------------------------------
(* Numbers and their bytes.                                                *)

(* The variants of whole numbers, and those that have a sign. *)
Whole  == DOMAIN Width \ {"F32"}
Signed == {"I8", "I16", "I32"}

(* A number is its lowest byte and the number above it. *)
Byte       == 0..255
Low(n)     == n % 256
High(n)    == n \div 256
Join(h, b) == 256 * h + b

(* The first byte has the sign of a signed variant.                         *)
Top(variant, b)   == IF variant \in Signed /\ b >= 128 THEN b - 256 ELSE b
TopBytes(variant) == IF variant \in Signed THEN -128..127 ELSE Byte

(* A number that the bytes of a variant have room for. *)
Fits(n, variant) ==
  CASE Width[variant] = 1 -> n \in TopBytes(variant)
    [] Width[variant] = 2 -> High(n) \in TopBytes(variant)
    [] Width[variant] = 4 -> High(High(High(n))) \in TopBytes(variant)

(* A byte is taken off and put back. *)
LEMMA JoinFacts ==
  /\ \A n \in Int : Low(n) \in Byte /\ High(n) \in Int /\ Join(High(n), Low(n)) = n
  /\ \A h \in Int, b \in Byte : Join(h, b) \in Int /\ High(Join(h, b)) = h
  BY SMT DEF Byte, Low, High, Join

(* A byte in the first place, as a number and back. *)
LEMMA TopFacts ==
  ASSUME NEW variant
  PROVE  /\ \A b \in Byte : /\ Top(variant, b) \in TopBytes(variant)
                            /\ Top(variant, b) \in Int
                            /\ Top(variant, b) \in {b, b - 256}
         /\ \A t \in TopBytes(variant) : t \in Int /\ Top(variant, Low(t)) = t
  <1>1. CASE variant \in Signed
    <2>1. TopBytes(variant) = -128..127
      BY <1>1 DEF TopBytes
    <2>2. ASSUME NEW b \in Byte
          PROVE  /\ Top(variant, b) \in TopBytes(variant)
                 /\ Top(variant, b) \in Int
                 /\ Top(variant, b) \in {b, b - 256}
      <3>1. Top(variant, b) = IF b >= 128 THEN b - 256 ELSE b
        BY <1>1 DEF Top
      <3>. QED
        BY <2>1, <3>1, SMT DEF Byte
    <2>3. ASSUME NEW t \in TopBytes(variant)
          PROVE  t \in Int /\ Top(variant, Low(t)) = t
      <3>1. t \in -128..127
        BY <2>1
      <3>2. t % 256 = IF t < 0 THEN t + 256 ELSE t
        BY <3>1, SMT
      <3>3. Top(variant, Low(t)) = IF t % 256 >= 128 THEN (t % 256) - 256 ELSE t % 256
        BY <1>1 DEF Top, Low
      <3>. QED
        BY <3>1, <3>2, <3>3, SMT
    <2>. QED
      BY <2>2, <2>3
  <1>2. CASE variant \notin Signed
    <2>1. TopBytes(variant) = Byte
      BY <1>2 DEF TopBytes
    <2>2. \A b : Top(variant, b) = b
      BY <1>2 DEF Top
    <2>3. \A t \in Byte : t \in Int /\ Low(t) = t
      BY SMT DEF Byte, Low
    <2>. QED
      BY <2>1, <2>2, <2>3
  <1>. QED
    BY <1>1, <1>2

(* An integer has one, two or four bytes. *)
LEMMA WidthFacts ==
  /\ DOMAIN Width = {"Bool", "U8", "I8", "U16", "I16", "U32", "I32", "F32"}
  /\ Width["Bool"] = 1 /\ Width["U8"] = 1 /\ Width["I8"] = 1
  /\ Width["U16"] = 2 /\ Width["I16"] = 2
  /\ Width["U32"] = 4 /\ Width["I32"] = 4 /\ Width["F32"] = 4
  BY DEF Width

(* No variant of a number has another width. *)
LEMMA Widths == \A variant \in DOMAIN Width : Width[variant] \in {1, 2, 4}
  BY WidthFacts

(* from_be_bytes, width by width. *)
LEMMA FromBytesFacts ==
  ASSUME NEW variant, NEW data
  PROVE  /\ Width[variant] = 1 => FromBytes(variant, data) = Top(variant, data[1])
         /\ Width[variant] = 2 =>
              FromBytes(variant, data) = Join(Top(variant, data[1]), data[2])
         /\ Width[variant] = 4 =>
              FromBytes(variant, data) =
                Join(Join(Join(Top(variant, data[1]), data[2]), data[3]), data[4])
  <1>1. Width[variant] = 1 => FromBytes(variant, data) = Top(variant, data[1])
    BY SMT DEF FromBytes, Top, Signed
  <1>2. Width[variant] = 2 => FromBytes(variant, data) = 256 * Top(variant, data[1]) + data[2]
    BY SMT DEF FromBytes, Top, Signed
  <1>3. Width[variant] = 4 =>
          FromBytes(variant, data) =
            256 * (256 * (256 * Top(variant, data[1]) + data[2]) + data[3]) + data[4]
    BY SMT DEF FromBytes, Top, Signed
  <1>. QED
    BY <1>1, <1>2, <1>3 DEF Join

(* from_be_bytes makes a number that fits. *)
LEMMA FromBytesFits ==
  ASSUME NEW variant \in Whole, NEW data,
         \A i \in 1..Width[variant] : data[i] \in Byte
  PROVE  FromBytes(variant, data) \in Int /\ Fits(FromBytes(variant, data), variant)
  <1>1. CASE Width[variant] = 1
    <2>1. data[1] \in Byte
      BY <1>1
    <2>2. Fits(FromBytes(variant, data), variant) <=> Top(variant, data[1]) \in TopBytes(variant)
      BY <1>1, FromBytesFacts DEF Fits
    <2>. QED
      BY <1>1, <2>1, <2>2, TopFacts, FromBytesFacts
  <1>2. CASE Width[variant] = 2
    <2>1. data[1] \in Byte /\ data[2] \in Byte
      <3>1. 1 \in 1..Width[variant] /\ 2 \in 1..Width[variant]
        BY <1>2, SMT
      <3>. QED
        BY <3>1
    <2>2. PICK n : n = FromBytes(variant, data)
      OBVIOUS
    <2>3. n \in Int /\ High(n) = Top(variant, data[1])
      <3>1. Top(variant, data[1]) \in Int
        BY <2>1, TopFacts
      <3>2. n = Join(Top(variant, data[1]), data[2])
        BY <1>2, <2>2, FromBytesFacts
      <3>. QED
        BY <2>1, <3>1, <3>2, JoinFacts
    <2>4. Fits(n, variant) <=> High(n) \in TopBytes(variant)
      BY <1>2 DEF Fits
    <2>. QED
      BY <2>1, <2>2, <2>3, <2>4, TopFacts
  <1>3. CASE Width[variant] = 4
    <2>1. data[1] \in Byte /\ data[2] \in Byte /\ data[3] \in Byte /\ data[4] \in Byte
      <3>1. /\ 1 \in 1..Width[variant] /\ 2 \in 1..Width[variant]
            /\ 3 \in 1..Width[variant] /\ 4 \in 1..Width[variant]
        BY <1>3, SMT
      <3>. QED
        BY <3>1
    <2>2. PICK n : n = FromBytes(variant, data)
      OBVIOUS
    <2>3. n \in Int /\ High(High(High(n))) = Top(variant, data[1])
      <3>1. PICK t \in Int : t = Top(variant, data[1])
        BY <2>1, TopFacts
      <3>2. n = Join(Join(Join(t, data[2]), data[3]), data[4])
        BY <1>3, <2>2, <3>1, FromBytesFacts
      <3>3. Join(t, data[2]) \in Int /\ Join(Join(t, data[2]), data[3]) \in Int
        BY <2>1, JoinFacts
      <3>. QED
        BY <2>1, <3>1, <3>2, <3>3, JoinFacts
    <2>4. Fits(n, variant) <=> High(High(High(n))) \in TopBytes(variant)
      BY <1>3 DEF Fits
    <2>. QED
      BY <2>1, <2>2, <2>3, <2>4, TopFacts
  <1>. QED
    BY <1>1, <1>2, <1>3, Widths DEF Whole

(* to_be_bytes, byte by byte. *)
LEMMA BytesFacts ==
  ASSUME NEW n \in Int
  PROVE  /\ Bytes(n, 1) = <<Low(n)>>
         /\ Bytes(n, 2) = <<Low(High(n)), Low(n)>>
         /\ Bytes(n, 4) = <<Low(High(High(High(n)))), Low(High(High(n))), Low(High(n)), Low(n)>>
  <1>1. Bytes(n, 1) = <<Low(n)>>
    <2>1. Bytes(n, 1) = [i \in 1..1 |-> (n \div 256^(1 - i)) % 256]
      BY SMT DEF Bytes
    <2>2. Bytes(n, 1)[1] = n % 256
      BY <2>1, SMT
    <2>. QED
      BY <2>1, <2>2, SMT DEF Low
  <1>2. Bytes(n, 2) = <<Low(High(n)), Low(n)>>
    <2>1. Bytes(n, 2) = [i \in 1..2 |-> (n \div 256^(2 - i)) % 256]
      BY SMT DEF Bytes
    <2>2. Bytes(n, 2)[1] = (n \div 256) % 256 /\ Bytes(n, 2)[2] = n % 256
      BY <2>1, SMT
    <2>. QED
      BY <2>1, <2>2, SMT DEF Low, High
  <1>3. Bytes(n, 4) = <<Low(High(High(High(n)))), Low(High(High(n))), Low(High(n)), Low(n)>>
    <2>1. Bytes(n, 4) = [i \in 1..4 |-> (n \div 256^(4 - i)) % 256]
      BY SMT DEF Bytes
    <2>2. /\ Bytes(n, 4)[1] = (n \div 16777216) % 256 /\ Bytes(n, 4)[2] = (n \div 65536) % 256
          /\ Bytes(n, 4)[3] = (n \div 256) % 256 /\ Bytes(n, 4)[4] = n % 256
      BY <2>1, SMT
    <2>3. n \div 65536 = (n \div 256) \div 256 /\ n \div 16777216 = ((n \div 256) \div 256) \div 256
      BY SMT
    <2>. QED
      BY <2>1, <2>2, <2>3, SMT DEF Low, High
  <1>. QED
    BY <1>1, <1>2, <1>3

(* The same, place by place. *)
LEMMA ByteFacts ==
  ASSUME NEW n \in Int
  PROVE  /\ Bytes(n, 1)[1] = Low(n)
         /\ Bytes(n, 2)[1] = Low(High(n)) /\ Bytes(n, 2)[2] = Low(n)
         /\ Bytes(n, 4)[1] = Low(High(High(High(n)))) /\ Bytes(n, 4)[2] = Low(High(High(n)))
         /\ Bytes(n, 4)[3] = Low(High(n)) /\ Bytes(n, 4)[4] = Low(n)
  BY BytesFacts, SMT

(* to_be_bytes makes bytes. *)
LEMMA BytesAreBytes ==
  ASSUME NEW n \in Int, NEW variant \in Whole
  PROVE  \A i \in 1..Width[variant] : Bytes(n, Width[variant])[i] \in Byte
  <1>1. /\ Low(n) \in Byte /\ High(n) \in Int
        /\ Low(High(n)) \in Byte /\ High(High(n)) \in Int
        /\ Low(High(High(n))) \in Byte /\ Low(High(High(High(n)))) \in Byte
    BY JoinFacts
  <1>2. /\ \A i \in 1..1 : i = 1
        /\ \A i \in 1..2 : i = 1 \/ i = 2
        /\ \A i \in 1..4 : i = 1 \/ i = 2 \/ i = 3 \/ i = 4
    BY SMT
  <1>3. CASE Width[variant] = 1
    BY <1>1, <1>2, <1>3, ByteFacts
  <1>4. CASE Width[variant] = 2
    BY <1>1, <1>2, <1>4, ByteFacts
  <1>5. CASE Width[variant] = 4
    BY <1>1, <1>2, <1>5, ByteFacts
  <1>. QED
    BY <1>3, <1>4, <1>5, Widths DEF Whole

(* `as` makes a number that fits. *)
LEMMA CastFits ==
  ASSUME NEW n \in Int, NEW variant \in Whole
  PROVE  Cast(n, variant) \in Int /\ Fits(Cast(n, variant), variant)
  BY BytesAreBytes, FromBytesFits DEF Cast

(* `as`, width by width. *)
LEMMA CastFacts ==
  ASSUME NEW n \in Int, NEW variant
  PROVE  /\ Width[variant] = 1 => Cast(n, variant) = Top(variant, Low(n))
         /\ Width[variant] = 2 => Cast(n, variant) = Join(Top(variant, Low(High(n))), Low(n))
         /\ Width[variant] = 4 =>
              Cast(n, variant) = Join(Join(Join(Top(variant, Low(High(High(High(n))))),
                                                Low(High(High(n)))), Low(High(n))), Low(n))
  BY ByteFacts, FromBytesFacts DEF Cast

(* `as` does nothing to a number that fits. *)
LEMMA CastKeeps ==
  ASSUME NEW n \in Int, NEW variant \in Whole, Fits(n, variant)
  PROVE  Cast(n, variant) = n
  <1>1. CASE Width[variant] = 1
    <2>1. n \in TopBytes(variant)
      BY <1>1 DEF Fits
    <2>. QED
      BY <1>1, <2>1, CastFacts, TopFacts
  <1>2. CASE Width[variant] = 2
    <2>1. High(n) \in TopBytes(variant)
      BY <1>2 DEF Fits
    <2>. QED
      BY <1>2, <2>1, CastFacts, TopFacts, JoinFacts
  <1>3. CASE Width[variant] = 4
    <2>1. High(High(High(n))) \in TopBytes(variant)
      BY <1>3 DEF Fits
    <2>2. Top(variant, Low(High(High(High(n))))) = High(High(High(n)))
      BY <2>1, TopFacts
    <2>3. High(n) \in Int /\ High(High(n)) \in Int
      BY JoinFacts
    <2>4. Join(High(High(High(n))), Low(High(High(n)))) = High(High(n))
      BY <2>3, JoinFacts
    <2>. QED
      BY <1>3, <2>2, <2>3, <2>4, CastFacts, JoinFacts
  <1>. QED
    BY <1>1, <1>2, <1>3, Widths DEF Whole

-----------------------------------------------------------------------------
(* What may be sent.                                                       *)

Type         == Object.request_data_type
Entered(raw) == ParseValue(reg, name, raw)
Encoded(raw) == EncodeFor(Type, Entered(raw).value)

(* An input that a rule allows, for an object it can be encoded for. *)
Allowed(raw) ==
  /\ Known /\ HasRule(name)
  /\ Entered(raw).kind = "Ok"
  /\ Validate(reg, name, Entered(raw).value) = "Ok"
  /\ Encoded(raw).kind = "Ok"

(* The frame of an allowed input, with the payload encode_for makes of it.  *)
Carries(f, raw) ==
  /\ Allowed(raw)
  /\ f = [command |-> "write", payload |-> Encoded(raw).value, value |-> Entered(raw).value]

Sendable(f) == f = ReadFrame \/ \E raw \in Inputs : Carries(f, raw)

(* The object holds what it held at first, or what the inverter keeps of an *)
(* allowed input.                                                           *)
HeldIsAllowed ==
  Known => \/ device \in Held[Object.response_data_type]
           \/ \E raw \in Inputs : Allowed(raw) /\ device = Kept(Type, Encoded(raw).value)

(* The inductive invariant: a command that waits has a frame to send again, *)
(* and every frame on its way, or late, is one that may be sent.            *)
ToolInv ==
  /\ cmd \in Commands
  /\ pc = "await" => Prepared(cmd).kind = "Ok"
  /\ up = << >> \/ \E f : up = <<f>> /\ Sendable(f)
  /\ \A f \in late : f.command = "write" /\ Sendable(f)
  /\ HeldIsAllowed
  /\ NeverPanics

-----------------------------------------------------------------------------
(* What the rules and the types do to a value.                             *)

RuleShaped(rule) ==
  /\ rule.range \in BOOLEAN
  /\ rule.range => /\ rule.decimals \in 0..4
                   /\ rule.min.whole \in Int /\ rule.min.ticks \in Int
                   /\ rule.max.whole \in Int /\ rule.max.ticks \in Int

(* A rule has a range of decimals, or none. *)
LEMMA RulesShaped ==
  ASSUME NEW n, HasRule(n)
  PROVE  RuleShaped(WRITABLE[n])
  <1>1. /\ RuleShaped(BoolRule)
        /\ \A a, b, c, d \in Int, e \in 0..4 : RuleShaped(Rule(Dec(a, b), Dec(c, d), e))
    BY SMT DEF RuleShaped, Rule, Dec, BoolRule
  <1>2. \A r \in Rules : RuleShaped(r[2])
    BY <1>1, SMT DEF Rules
  <1>. QED
    BY <1>2 DEF WRITABLE, HasRule, RuleNames

(* So many ten-thousandths print with at most d decimals. *)
Printed(t, d) == t % 10^(4 - d) = 0

(* What prints with few decimals prints with more of them. *)
LEMMA PrintedFacts ==
  ASSUME NEW t \in Nat
  PROVE  /\ Printed(t, 0) => Printed(t, 1)
         /\ Printed(t, 1) => Printed(t, 2)
         /\ Printed(t, 2) => Printed(t, 3)
         /\ Printed(t, 4)
  <1>1. /\ Printed(t, 0) <=> t % 10000 = 0
        /\ Printed(t, 1) <=> t % 1000 = 0
        /\ Printed(t, 2) <=> t % 100 = 0
        /\ Printed(t, 3) <=> t % 10 = 0
        /\ Printed(t, 4) <=> t % 1 = 0
    BY SMT DEF Printed
  <1>2. /\ t % 10000 = 0 => t % 1000 = 0
        /\ t % 1000 = 0 => t % 100 = 0
        /\ t % 100 = 0 => t % 10 = 0
        /\ t % 1 = 0
    BY SMT
  <1>. QED
    BY <1>1, <1>2, SMT

(* A number that is printed with d decimals is a multiple of the last one. *)
LEMMA DecimalsFacts ==
  ASSUME NEW v, v.ticks \in Nat, NEW d \in 0..4, Decimals(v) <= d
  PROVE  Printed(v.ticks, d)
  <1>. DEFINE Least(e) == Printed(v.ticks, e) /\ \A f \in 0..(e - 1) : ~Printed(v.ticks, f)
  <1>1. /\ \A f \in 0..(0 - 1) : FALSE
        /\ \A f \in 0..(1 - 1) : f = 0
        /\ \A f \in 0..(2 - 1) : f = 0 \/ f = 1
        /\ \A f \in 0..(3 - 1) : f = 0 \/ f = 1 \/ f = 2
        /\ \A f \in 0..(4 - 1) : f = 0 \/ f = 1 \/ f = 2 \/ f = 3
        /\ \A f \in 0..4 : f = 0 \/ f = 1 \/ f = 2 \/ f = 3 \/ f = 4
        /\ 0 \in 0..4 /\ 1 \in 0..4 /\ 2 \in 0..4 /\ 3 \in 0..4 /\ 4 \in 0..4
    BY SMT
  <1>2. Printed(v.ticks, 4)
    BY PrintedFacts
  <1>3. Least(0) \/ Least(1) \/ Least(2) \/ Least(3) \/ Least(4)
    BY <1>1, <1>2
  <1>4. \E e \in 0..4 : Least(e)
    <2>. HIDE DEF Least
    <2>. QED
      BY <1>1, <1>3
  <1>5. Decimals(v) = CHOOSE e \in 0..4 : Least(e)
    BY DEF Decimals, Printed
  <1>6. Decimals(v) \in 0..4 /\ Least(Decimals(v))
    <2>. HIDE DEF Least
    <2>. QED
      BY <1>4, <1>5
  <1>7. PICK e \in 0..4 : e <= d /\ Printed(v.ticks, e)
    BY <1>6
  <1>8. \/ e = d \/ d = 4
        \/ e = 0 /\ d \in {1, 2, 3}
        \/ e = 1 /\ d \in {2, 3}
        \/ e = 2 /\ d = 3
    BY <1>7, SMT
  <1>. QED
    BY <1>7, <1>8, PrintedFacts

(* What validate lets through: a bool, or a number the rule allows. *)
LEMMA VerdictFacts ==
  ASSUME NEW n, HasRule(n), NEW v, v.ticks \in Nat, Verdict(WRITABLE[n], v) = "Ok"
  PROVE  IF WRITABLE[n].range THEN Number(v) /\ InRule(WRITABLE[n], v)
                              ELSE v.variant = "Bool"
  <1>1. PICK rule : rule = WRITABLE[n] /\ RuleShaped(rule)
    BY RulesShaped
  <1>2. \/ ~rule.range /\ v.variant = "Bool"
        \/ rule.range /\ Number(v) /\ InRange(rule, v) /\ Decimals(v) <= rule.decimals
    BY <1>1 DEF Verdict
  <1>3. CASE ~rule.range /\ v.variant = "Bool"
    BY <1>1, <1>3
  <1>4. CASE rule.range /\ Number(v) /\ InRange(rule, v) /\ Decimals(v) <= rule.decimals
    <2>1. rule.decimals \in 0..4
      BY <1>1, <1>4 DEF RuleShaped
    <2>2. Printed(v.ticks, rule.decimals)
      BY <1>4, <2>1, DecimalsFacts
    <2>. QED
      BY <1>1, <1>4, <2>2 DEF InRule, Printed
  <1>. QED
    BY <1>2, <1>3, <1>4

(* What may be typed is a word or a number; without a point it is whole. *)
LEMMA InputFacts ==
  ASSUME NEW raw \in Inputs
  PROVE  /\ raw.kind \in {"word", "number"}
         /\ raw.kind = "number" =>
              /\ raw.dot \in BOOLEAN /\ raw.whole \in Int /\ raw.ticks \in Nat
              /\ ~raw.dot => raw.ticks = 0
  <1>1. \A t \in Ticks : t \in Nat
    BY SMT DEF Ticks
  <1>. QED
    BY <1>1, ToolAssumption

(* parse_value makes a bool, a float, or an integer of the object's width. *)
LEMMA EnteredFacts ==
  ASSUME Known, HasRule(name), NEW raw \in Inputs, Entered(raw).kind = "Ok"
  PROVE  \/ /\ Type = "Bool" /\ raw.kind = "word"
            /\ Entered(raw).value \in {Bool(TRUE), Bool(FALSE)}
         \/ /\ Type # "Bool" /\ raw.kind = "number"
            /\ raw.dot \/ Type = "Float"
            /\ Entered(raw).value = F32(raw.whole, raw.ticks)
         \/ /\ Type \notin {"Bool", "Float"} /\ raw.kind = "number" /\ ~raw.dot
            /\ Entered(raw).value = Num(IntVariant(Type), Cast(raw.whole, IntVariant(Type)))
  <1>1. CASE raw.kind = "word"
    <2>1. Entered(raw) = ParseWord(Type, raw)
      BY <1>1 DEF Entered, ParseValue, Known, Type, Object
    <2>2. PICK v : v = Bool(raw.word = "true")
      OBVIOUS
    <2>3. Type = "Bool" /\ Entered(raw) = Ok(v)
      BY <2>1, <2>2 DEF ParseWord, Err
    <2>4. v \in {Bool(TRUE), Bool(FALSE)}
      BY <2>2 DEF Bool
    <2>5. Entered(raw).value = v
      BY <2>3 DEF Ok
    <2>. QED
      BY <1>1, <2>3, <2>4, <2>5
  <1>2. CASE raw.kind = "number"
    <2>1. Type # "Bool" /\ Entered(raw) = Ok(ParseNumber(Type, raw))
      BY <1>2 DEF Entered, ParseValue, Known, Type, Object, Err
    <2>2. Entered(raw).value = ParseNumber(Type, raw)
      BY <2>1 DEF Ok
    <2>3. raw.dot \in BOOLEAN /\ (~raw.dot => raw.ticks = 0)
      BY <1>2, InputFacts
    <2>4. CASE raw.dot
      BY <1>2, <2>1, <2>2, <2>4 DEF ParseNumber
    <2>5. CASE ~raw.dot /\ Type = "Float"
      <3>1. ParseNumber(Type, raw) = F32(raw.whole, 0)
        BY <2>5 DEF ParseNumber
      <3>. QED
        BY <1>2, <2>1, <2>2, <2>3, <2>5, <3>1
    <2>6. CASE ~raw.dot /\ Type # "Float"
      BY <1>2, <2>1, <2>2, <2>6 DEF ParseNumber
    <2>. QED
      BY <2>3, <2>4, <2>5, <2>6
  <1>. QED
    BY <1>1, <1>2, InputFacts

(* What the registry says of the object, if it has a rule (RegistryFits). *)
FitsHere ==
  Known /\ HasRule(name) =>
    Object.response_data_type = Type /\ RuleFits(WRITABLE[name], Type)

(* The variants of the data types. *)
LEMMA VariantFacts ==
  /\ DOMAIN WireVariant = {"Bool", "Uint8", "Enum", "Int8", "Uint16", "Int16", "Uint32",
                           "Int32", "Float", "String"}
  /\ DOMAIN ReadVariant = DOMAIN WireVariant
  /\ ReadVariant["Enum"] = "U32" /\ WireVariant["Enum"] = "U8"
  /\ WireVariant["Bool"] = "Bool" /\ ReadVariant["Bool"] = "Bool"
  /\ WireVariant["Float"] = "F32" /\ ReadVariant["Float"] = "F32"
  /\ \A type : Integral(type) =>
       /\ type \in DOMAIN WireVariant /\ type \notin {"Bool", "Float", "String"}
       /\ WireVariant[type] \in Whole \ {"Bool"} /\ IntVariant(type) = WireVariant[type]
       /\ ReadVariant[type] \in Whole \ {"Bool"}
       /\ type # "Enum" => ReadVariant[type] = WireVariant[type]
  <1>1. DOMAIN WireVariant = {"Bool", "Uint8", "Enum", "Int8", "Uint16", "Int16", "Uint32",
                              "Int32", "Float", "String"}
    BY DEF WireVariant
  <1>2. /\ WireVariant["Bool"] = "Bool" /\ WireVariant["Uint8"] = "U8"
        /\ WireVariant["Enum"] = "U8" /\ WireVariant["Int8"] = "I8"
        /\ WireVariant["Uint16"] = "U16" /\ WireVariant["Int16"] = "I16"
        /\ WireVariant["Uint32"] = "U32" /\ WireVariant["Int32"] = "I32"
        /\ WireVariant["Float"] = "F32"
    BY DEF WireVariant
  <1>3. /\ DOMAIN ReadVariant = DOMAIN WireVariant
        /\ ReadVariant["Enum"] = "U32"
        /\ \A type \in DOMAIN WireVariant \ {"Enum"} : ReadVariant[type] = WireVariant[type]
    BY <1>1 DEF ReadVariant
  <1>4. ASSUME NEW type, Integral(type)
        PROVE  /\ type \in DOMAIN WireVariant /\ type \notin {"Bool", "Float", "String"}
               /\ WireVariant[type] \in Whole \ {"Bool"} /\ IntVariant(type) = WireVariant[type]
               /\ ReadVariant[type] \in Whole \ {"Bool"}
               /\ type # "Enum" => ReadVariant[type] = WireVariant[type]
    <2>1. type \in {"Uint8", "Enum", "Int8", "Uint16", "Int16", "Uint32", "Int32"}
      BY <1>1, <1>4 DEF Integral
    <2>2. {"U8", "I8", "U16", "I16", "U32", "I32"} \subseteq Whole \ {"Bool"}
      BY WidthFacts DEF Whole
    <2>. QED
      BY <1>1, <1>2, <1>3, <2>1, <2>2 DEF IntVariant
  <1>. QED
    BY <1>1, <1>2, <1>3, <1>4

(* encode_for leaves an allowed value as it is, and an integer is the one   *)
(* that was typed, or the low bytes of it.                                  *)
LEMMA AllowedFacts ==
  ASSUME FitsHere, NEW raw \in Inputs, Allowed(raw), NEW v, v = Entered(raw).value
  PROVE  /\ Type \in DOMAIN WireVariant \ {"String"}
         /\ Encoded(raw).value = EncodeValue(Normalized(Type, v))
         /\ \/ /\ Type = "Bool" /\ raw.kind = "word"
               /\ v \in {Bool(TRUE), Bool(FALSE)} /\ Normalized(Type, v) = v
            \/ /\ Type = "Float" /\ raw.kind = "number"
               /\ v = F32(raw.whole, raw.ticks) /\ Normalized(Type, v) = v
            \/ /\ Integral(Type) /\ raw.kind = "number"
               /\ v.whole \in Int /\ v.ticks = 0 /\ Cast(v.whole, WireVariant[Type]) = v.whole
               /\ Normalized(Type, v) = Num(WireVariant[Type], v.whole)
               /\ \/ v = F32(raw.whole, raw.ticks)
                  \/ ~raw.dot /\ v = Num(WireVariant[Type], Cast(raw.whole, WireVariant[Type]))
         /\ WRITABLE[name].range => InRule(WRITABLE[name], v)
  <1>1. /\ Known /\ HasRule(name) /\ Entered(raw).kind = "Ok"
        /\ Verdict(WRITABLE[name], v) = "Ok"
        /\ EncodeFor(Type, v).kind = "Ok" /\ Encoded(raw) = EncodeFor(Type, v)
    BY DEF Allowed, Validate, Known, Encoded
  <1>2. /\ Type \in DOMAIN WireVariant /\ v.variant \in Accepted(Type)
        /\ Encoded(raw).value = EncodeValue(Normalized(Type, v))
    BY <1>1 DEF EncodeFor, Ok, Err
  <1>3. RuleFits(WRITABLE[name], Type)
    BY <1>1 DEF FitsHere
  <1>4. CASE /\ Type = "Bool" /\ raw.kind = "word"
             /\ v \in {Bool(TRUE), Bool(FALSE)}
    <2>1. v.variant = "Bool" /\ v.ticks = 0 /\ (v.whole = 0 \/ v.whole = 1)
          /\ Bool(v.whole # 0) = v
      BY <1>4 DEF Bool, Num
    <2>2. Normalized(Type, v) = v
      BY <1>4, <2>1 DEF Normalized
    <2>3. ~WRITABLE[name].range
      <3>1. v.ticks \in Nat
        BY <2>1
      <3>. QED
        BY <1>1, <2>1, <3>1, VerdictFacts DEF Number
    <2>. QED
      BY <1>2, <1>4, <2>2, <2>3
  <1>5. CASE /\ Type # "Bool" /\ raw.kind = "number"
             /\ raw.dot \/ Type = "Float"
             /\ v = F32(raw.whole, raw.ticks)
    <2>1. v.variant = "F32" /\ v.whole = raw.whole /\ v.ticks = raw.ticks
      BY <1>5 DEF F32
    <2>2. v.whole \in Int /\ v.ticks \in Nat
      BY <1>5, <2>1, InputFacts
    <2>3. WRITABLE[name].range /\ InRule(WRITABLE[name], v)
      BY <1>1, <2>1, <2>2, VerdictFacts
    <2>4. Type # "String"
      BY <1>2, <2>1 DEF Accepted
    <2>5. CASE Type = "Float"
      <3>1. Normalized(Type, v) = v
        BY <2>1, <2>5 DEF Normalized
      <3>. QED
        BY <1>2, <1>5, <2>3, <2>4, <2>5, <3>1
    <2>6. CASE Type # "Float"
      <3>1. Integral(Type)
        BY <1>2, <1>5, <2>4, <2>6 DEF Integral
      <3>2. PICK rule : rule = WRITABLE[name] /\ RuleShaped(rule)
        BY <1>1, RulesShaped
      <3>3. /\ rule.decimals = 0 /\ rule.min.ticks = 0 /\ rule.max.ticks = 0
            /\ \A n \in rule.min.whole..rule.max.whole : Cast(n, WireVariant[Type]) = n
        BY <1>3, <2>3, <3>1, <3>2 DEF RuleFits
      <3>4. rule.min.whole \in Int /\ rule.max.whole \in Int
        BY <2>3, <3>2 DEF RuleShaped
      <3>5. InRange(rule, v) /\ v.ticks % 10^(4 - rule.decimals) = 0
        BY <2>3, <3>2 DEF InRule
      <3>6. v.whole \in rule.min.whole..rule.max.whole
        BY <2>2, <3>4, <3>5, SMT DEF InRange, AtMost
      <3>7. v.ticks = 0
        <4>1. raw.ticks \in Ticks
          BY <1>5, ToolAssumption
        <4>2. 10^(4 - rule.decimals) = 10000
          BY <3>3, SMT
        <4>3. raw.ticks % 10000 = 0
          BY <2>1, <3>5, <4>2
        <4>4. ASSUME NEW t \in Int, 0 <= t, t <= 9999, t % 10000 = 0
              PROVE  t = 0
          BY <4>4, SMT
        <4>5. PICK t \in Ticks : t = raw.ticks
          BY <4>1
        <4>6. t \in Int /\ 0 <= t /\ t <= 9999
          BY SMT DEF Ticks
        <4>7. t % 10000 = 0
          BY <4>3, <4>5
        <4>. QED
          BY <2>1, <4>4, <4>5, <4>6, <4>7
      <3>8. Cast(v.whole, WireVariant[Type]) = v.whole
        BY <3>3, <3>6
      <3>9. ToI64(v) = v.whole
        BY <3>7, SMT DEF ToI64
      <3>10. Normalized(Type, v) = Num(WireVariant[Type], v.whole)
        BY <1>5, <2>4, <2>6, <3>8, <3>9 DEF Normalized
      <3>. QED
        BY <1>2, <1>5, <2>2, <2>3, <2>4, <3>1, <3>7, <3>8, <3>10
    <2>. QED
      BY <2>5, <2>6
  <1>6. CASE /\ Type \notin {"Bool", "Float"} /\ raw.kind = "number" /\ ~raw.dot
             /\ v = Num(IntVariant(Type), Cast(raw.whole, IntVariant(Type)))
    <2>1. v.variant = IntVariant(Type) /\ v.ticks = 0
      BY <1>6 DEF Num
    <2>2. Type # "String"
      <3>1. IntVariant("String") = "I32"
        BY DEF IntVariant
      <3>. QED
        BY <1>2, <2>1, <3>1 DEF Accepted
    <2>3. Integral(Type)
      BY <1>2, <1>6, <2>2 DEF Integral
    <2>4. v = Num(WireVariant[Type], Cast(raw.whole, WireVariant[Type]))
          /\ WireVariant[Type] \in Whole \ {"Bool"}
      BY <1>6, <2>3, VariantFacts
    <2>5. raw.whole \in Int
      BY <1>6, InputFacts
    <2>6. v.whole \in Int /\ Fits(v.whole, WireVariant[Type]) /\ v.variant = WireVariant[Type]
      BY <2>4, <2>5, CastFits DEF Num
    <2>7. Cast(v.whole, WireVariant[Type]) = v.whole
      BY <2>4, <2>6, CastKeeps
    <2>8. ToI64(v) = v.whole
      BY <2>1, <2>6, SMT DEF ToI64
    <2>9. Normalized(Type, v) = Num(WireVariant[Type], v.whole)
      BY <1>6, <2>2, <2>7, <2>8 DEF Normalized
    <2>10. WRITABLE[name].range => InRule(WRITABLE[name], v)
      BY <1>1, <2>1, VerdictFacts
    <2>. QED
      BY <1>2, <1>6, <2>1, <2>2, <2>3, <2>4, <2>6, <2>7, <2>9, <2>10
  <1>. QED
    BY <1>1, <1>4, <1>5, <1>6, EnteredFacts

(* The bytes that an allowed value is written in. *)
LEMMA PayloadFacts ==
  ASSUME FitsHere, NEW raw \in Inputs, Allowed(raw), NEW v, v = Entered(raw).value
  PROVE  /\ Type = "Bool" => v.whole \in {0, 1} /\ Encoded(raw).value = <<v.whole>>
         /\ Type = "Float" =>
              Encoded(raw).value =
                [i \in 1..4 |-> [byte |-> i, whole |-> v.whole, ticks |-> v.ticks]]
         /\ Integral(Type) =>
              Encoded(raw).value = Bytes(v.whole, Width[WireVariant[Type]])
  <1>1. Encoded(raw).value = EncodeValue(Normalized(Type, v))
    BY AllowedFacts
  <1>2. CASE Type = "Bool"
    <2>1. v \in {Bool(TRUE), Bool(FALSE)} /\ Normalized(Type, v) = v
      BY <1>2, AllowedFacts DEF Integral
    <2>2. v.variant = "Bool" /\ (v.whole = 0 \/ v.whole = 1)
      BY <2>1 DEF Bool, Num
    <2>3. EncodeValue(v) = Bytes(v.whole, Width["Bool"])
      BY <2>2, WidthFacts DEF EncodeValue
    <2>4. Bytes(0, 1) = <<0>> /\ Bytes(1, 1) = <<1>>
      <3>1. Low(0) = 0 /\ Low(1) = 1
        BY SMT DEF Low
      <3>. QED
        BY <3>1, BytesFacts
    <2>. QED
      BY <1>1, <1>2, <2>1, <2>2, <2>3, <2>4, WidthFacts DEF Integral
  <1>3. CASE Type = "Float"
    <2>1. v = F32(raw.whole, raw.ticks) /\ Normalized(Type, v) = v
      BY <1>3, AllowedFacts DEF Integral
    <2>2. v.variant = "F32"
      BY <2>1 DEF F32
    <2>3. EncodeValue(v) = [i \in 1..4 |-> [byte |-> i, whole |-> v.whole, ticks |-> v.ticks]]
      BY <2>2 DEF EncodeValue
    <2>. QED
      BY <1>1, <1>3, <2>1, <2>3 DEF Integral
  <1>4. CASE Integral(Type)
    <2>1. Normalized(Type, v) = Num(WireVariant[Type], v.whole)
      BY <1>4, AllowedFacts DEF Integral
    <2>2. WireVariant[Type] \in Whole \ {"Bool"}
      BY <1>4, VariantFacts
    <2>3. WireVariant[Type] \in DOMAIN Width \ {"F32"} /\ WireVariant[Type] \notin {"Str", "Raw", "F32"}
      BY <2>2, WidthFacts DEF Whole
    <2>4. PICK w : w = Num(WireVariant[Type], v.whole)
      OBVIOUS
    <2>5. w.variant = WireVariant[Type] /\ w.whole = v.whole
      BY <2>4 DEF Num
    <2>6. EncodeValue(w) = Bytes(w.whole, Width[w.variant])
      BY <2>3, <2>5 DEF EncodeValue
    <2>. QED
      BY <1>1, <1>4, <2>1, <2>4, <2>5, <2>6 DEF Integral
  <1>. QED
    BY <1>2, <1>3, <1>4

(* The payload of a response with what the object holds. *)
Answer(data) == DecodeValue(Object.response_data_type, data)

(* Encoded, kept by the inverter and decoded an allowed value is the same   *)
(* number, also when an ENUM is read in another width than it is written.   *)
LEMMA RoundTrip ==
  ASSUME FitsHere, EnumSize = 4, NEW raw \in Inputs, Allowed(raw)
  PROVE  /\ Numeric
         /\ Answer(Kept(Type, Encoded(raw).value)).kind = "Ok"
         /\ Same(Entered(raw).value, Answer(Kept(Type, Encoded(raw).value)).value)
  <1>1. PICK v, p : v = Entered(raw).value /\ p = Encoded(raw).value
    OBVIOUS
  <1>2. Object.response_data_type = Type /\ Known
    BY DEF Allowed, FitsHere
  <1>3. Type \in DOMAIN WireVariant \ {"String"} /\ Numeric
    BY <1>1, <1>2, AllowedFacts, VariantFacts DEF Numeric
  <1>4. ASSUME NEW d, NEW w, d = Kept(Type, p), Decoded(Type, d) = w, ~(Len(d) < Need(Type)),
               Same(v, w)
        PROVE  Answer(d).kind = "Ok" /\ Same(v, Answer(d).value)
    <2>1. Answer(d) = Ok(w)
      BY <1>2, <1>3, <1>4, VariantFacts DEF Answer, DecodeValue
    <2>. QED
      BY <1>4, <2>1 DEF Ok
  <1>5. CASE Type = "Bool"
    <2>1. v.whole \in {0, 1} /\ p = <<v.whole>> /\ v.ticks = 0
      BY <1>1, <1>5, PayloadFacts, AllowedFacts DEF Bool, Num, Integral
    <2>2. Kept(Type, p) = p
      BY <1>5 DEF Kept
    <2>3. PICK w : w = Bool(v.whole # 0)
      OBVIOUS
    <2>4. Decoded(Type, p) = w
      BY <1>5, <2>1, <2>3 DEF Decoded
    <2>6. Same(v, w)
      BY <2>1, <2>3 DEF Bool, Num, Same
    <2>5. ~(Len(p) < Need(Type))
      BY <1>5, <2>1, WidthFacts, VariantFacts DEF Need
    <2>. QED
      BY <1>1, <1>3, <1>4, <2>2, <2>4, <2>5, <2>6
  <1>6. CASE Type = "Float"
    <2>1. p = [i \in 1..4 |-> [byte |-> i, whole |-> v.whole, ticks |-> v.ticks]]
      BY <1>1, <1>6, PayloadFacts
    <2>2. Kept(Type, p) = p
      BY <1>6 DEF Kept
    <2>3. Len(p) = 4 /\ p[1].whole = v.whole /\ p[1].ticks = v.ticks
      BY <2>1
    <2>4. Decoded(Type, p) = F32(v.whole, v.ticks)
      BY <1>6, <2>3 DEF Decoded
    <2>5. ~(Len(p) < Need(Type))
      BY <1>6, <2>3, WidthFacts, VariantFacts DEF Need
    <2>6. Same(v, F32(v.whole, v.ticks))
      BY DEF Same, F32
    <2>. QED
      BY <1>1, <1>3, <1>4, <2>2, <2>4, <2>5, <2>6
  <1>7. CASE Integral(Type)
    <2>1. /\ p = Bytes(v.whole, Width[WireVariant[Type]])
          /\ v.whole \in Int /\ v.ticks = 0 /\ Cast(v.whole, WireVariant[Type]) = v.whole
      BY <1>1, <1>7, PayloadFacts, AllowedFacts DEF Integral
    <2>2. WireVariant[Type] \in Whole \ {"Bool"} /\ ReadVariant[Type] \in Whole \ {"Bool"}
      BY <1>7, VariantFacts
    <2>3. \A d : Decoded(Type, d) = Num(ReadVariant[Type], FromBytes(ReadVariant[Type], d))
      BY <1>7 DEF Decoded, Integral
    <2>4. \A n : Num(ReadVariant[Type], n).whole = n /\ Num(ReadVariant[Type], n).ticks = 0
      BY DEF Num
    <2>5. FromBytes(ReadVariant[Type], Kept(Type, p)) = v.whole /\ ~(Len(Kept(Type, p)) < Need(Type))
      <3>1. CASE Type # "Enum"
        <4>1. Kept(Type, p) = p /\ ReadVariant[Type] = WireVariant[Type]
          BY <1>7, <3>1, VariantFacts DEF Kept
        <4>2. Len(p) = Width[WireVariant[Type]]
          <5>1. Width[WireVariant[Type]] \in Nat
            BY <2>2, Widths DEF Whole
          <5>. QED
            BY <2>1, <5>1 DEF Bytes
        <4>3. Need(Type) = Width[WireVariant[Type]]
          BY <1>7, <4>1 DEF Need, Integral
        <4>4. ~(Width[WireVariant[Type]] < Width[WireVariant[Type]])
          BY <2>2, Widths DEF Whole
        <4>. QED
          BY <2>1, <4>1, <4>2, <4>3, <4>4 DEF Cast
      <3>2. CASE Type = "Enum"
        <4>1. v.whole \in Byte /\ Low(v.whole) = v.whole
          <5>1. Width["U8"] = 1 /\ Cast(v.whole, "U8") = v.whole
            BY <2>1, <3>2, VariantFacts, WidthFacts
          <5>2. v.whole = Top("U8", Low(v.whole))
            BY <2>1, <5>1, CastFacts
          <5>3. "U8" \notin Signed
            BY DEF Signed
          <5>. QED
            BY <2>1, <5>2, <5>3, JoinFacts DEF Top
        <4>2. p[1] = v.whole
          BY <2>1, <3>2, <4>1, VariantFacts, WidthFacts, ByteFacts
        <4>3. PICK d : d = Kept(Type, p)
          OBVIOUS
        <4>4. d = [i \in 1..4 |-> IF i = 4 THEN v.whole ELSE 0]
          BY <3>2, <4>2, <4>3 DEF Kept
        <4>5. d[1] = 0 /\ d[2] = 0 /\ d[3] = 0 /\ d[4] = v.whole /\ Len(d) = 4
          BY <4>4
        <4>6. FromBytes("U32", d) = Join(Join(Join(Top("U32", 0), 0), 0), v.whole)
          BY <4>5, WidthFacts, FromBytesFacts
        <4>7. Top("U32", 0) = 0
          BY DEF Top, Signed
        <4>8. Join(0, 0) = 0 /\ Join(0, v.whole) = v.whole
          BY <2>1, SMT DEF Join
        <4>9. Need(Type) = 4
          BY <3>2, VariantFacts, WidthFacts DEF Need
        <4>. QED
          BY <3>2, <4>3, <4>5, <4>6, <4>7, <4>8, <4>9, VariantFacts
      <3>. QED
        BY <3>1, <3>2
    <2>. QED
      BY <1>1, <1>3, <1>4, <2>1, <2>3, <2>4, <2>5 DEF Same
  <1>8. Type = "Bool" \/ Type = "Float" \/ Integral(Type)
    BY <1>3 DEF Integral
  <1>. QED
    BY <1>3, <1>1, <1>5, <1>6, <1>7, <1>8

(* 0 and 1 are the numbers of a bool. *)
LEMMA BoolProper == Proper(Bool(TRUE)) /\ Proper(Bool(FALSE))
  <1>1. Fits(0, "Bool") /\ Fits(1, "Bool")
    <2>1. "Bool" \notin Signed /\ Width["Bool"] = 1
      BY WidthFacts DEF Signed
    <2>2. 0 \in Byte /\ 1 \in Byte
      BY SMT DEF Byte
    <2>. QED
      BY <2>1, <2>2 DEF Fits, TopBytes
  <1>2. Cast(0, "Bool") = 0 /\ Cast(1, "Bool") = 1
    BY <1>1, CastKeeps, WidthFacts DEF Whole
  <1>3. Bool(TRUE) = Num("Bool", 1) /\ Bool(FALSE) = Num("Bool", 0)
    BY DEF Bool
  <1>4. ASSUME NEW v, NEW n \in {0, 1}, v = Num("Bool", n)
        PROVE  Proper(v)
    <2>1. v.whole = n /\ v.variant = "Bool"
      BY <1>4 DEF Num
    <2>. QED
      BY <1>2, <1>4, <2>1 DEF Proper
  <1>. QED
    BY <1>3, <1>4

(* An integer that fits its variant. *)
LEMMA NumProper ==
  ASSUME NEW variant \in Whole \ {"Bool"}, NEW n \in Int, Fits(n, variant)
  PROVE  Proper(Num(variant, n))
  <1>1. PICK v : v = Num(variant, n)
    OBVIOUS
  <1>2. v.variant = variant /\ v.whole = n
    BY <1>1 DEF Num
  <1>3. Cast(n, variant) = n
    BY CastKeeps
  <1>. QED
    BY <1>1, <1>2, <1>3 DEF Proper

(* Values that are not integers. *)
LEMMA OtherProper ==
  /\ \A n, t : Proper(F32(n, t))
  /\ \A s : Proper(Text("Raw", s)) /\ Proper(Text("Str", s))
  <1>1. "Raw" \notin DOMAIN Width /\ "Str" \notin DOMAIN Width
    BY WidthFacts
  <1>2. \A n, t : F32(n, t).variant = "F32"
    BY DEF F32
  <1>3. \A s : Text("Raw", s).variant = "Raw" /\ Text("Str", s).variant = "Str"
    BY DEF Text
  <1>. QED
    BY <1>1, <1>2, <1>3 DEF Proper

(* decode_value makes a value of its variant from bytes. *)
LEMMA DecodeProper ==
  ASSUME NEW type, NEW data, Integral(type) => data \in Seq(Byte),
         DecodeValue(type, data).kind = "Ok"
  PROVE  Proper(DecodeValue(type, data).value)
  <1>1. CASE type \notin DOMAIN ReadVariant
    <2>1. DecodeValue(type, data).value = Text("Raw", data)
      BY <1>1 DEF DecodeValue, Ok
    <2>. QED
      BY <2>1, OtherProper
  <1>2. CASE type \in DOMAIN ReadVariant
    <2>1. ~(Len(data) < Need(type)) /\ DecodeValue(type, data).value = Decoded(type, data)
      BY <1>2 DEF DecodeValue, Ok, Err
    <2>2. CASE type = "Bool"
      <3>1. PICK v : v = Bool(data[1] # 0)
        OBVIOUS
      <3>2. v = Bool(TRUE) \/ v = Bool(FALSE)
        BY <3>1 DEF Bool
      <3>3. Decoded(type, data) = v
        BY <2>2, <3>1 DEF Decoded
      <3>. QED
        BY <2>1, <3>2, <3>3, BoolProper
    <2>3. CASE type = "String"
      BY <2>1, <2>3, OtherProper DEF Decoded
    <2>4. CASE type = "Float"
      BY <2>1, <2>4, OtherProper DEF Decoded
    <2>5. CASE Integral(type)
      <3>1. PICK variant \in Whole \ {"Bool"} : variant = ReadVariant[type]
        BY <2>5, VariantFacts
      <3>2. Decoded(type, data) = Num(variant, FromBytes(variant, data))
        BY <2>5, <3>1 DEF Decoded, Integral
      <3>3. Need(type) = Width[variant] /\ Width[variant] \in Nat
        BY <2>5, <3>1, Widths DEF Need, Integral, Whole
      <3>4. data \in Seq(Byte) /\ Len(data) \in Nat /\ Width[variant] <= Len(data)
        BY <2>1, <2>5, <3>3
      <3>5. \A i \in 1..Width[variant] : data[i] \in Byte
        <4>1. \A i \in 1..Width[variant] : i \in 1..Len(data)
          BY <3>3, <3>4, SMT
        <4>. QED
          BY <3>4, <4>1
      <3>. QED
        BY <2>1, <3>2, <3>5, FromBytesFits, NumProper
    <2>. QED
      BY <1>2, <2>2, <2>3, <2>4, <2>5, VariantFacts DEF Integral
  <1>. QED
    BY <1>1, <1>2

(* parse_value makes a value of its variant. *)
LEMMA EnteredProper ==
  ASSUME Known, HasRule(name), NEW raw \in Inputs, Entered(raw).kind = "Ok"
  PROVE  Proper(Entered(raw).value)
  <1>1. IntVariant(Type) \in Whole \ {"Bool"}
    <2>1. {"U8", "I8", "U16", "I16", "U32", "I32"} \subseteq Whole \ {"Bool"}
      BY WidthFacts DEF Whole
    <2>. QED
      BY <2>1 DEF IntVariant, WireVariant
  <1>2. raw.kind = "number" => Cast(raw.whole, IntVariant(Type)) \in Int
                               /\ Fits(Cast(raw.whole, IntVariant(Type)), IntVariant(Type))
    BY <1>1, InputFacts, CastFits
  <1>. QED
    BY <1>1, <1>2, EnteredFacts, BoolProper, OtherProper, NumProper

(* What the inverter keeps of an integer are bytes. *)
LEMMA KeptBytes ==
  ASSUME FitsHere, NEW raw \in Inputs, Allowed(raw), Integral(Type)
  PROVE  Kept(Type, Encoded(raw).value) \in Seq(Byte)
  <1>1. PICK n \in Int : Encoded(raw).value = Bytes(n, Width[WireVariant[Type]])
    BY AllowedFacts, PayloadFacts DEF Integral
  <1>2. WireVariant[Type] \in Whole
    BY VariantFacts
  <1>3. Width[WireVariant[Type]] \in Nat /\ Width[WireVariant[Type]] >= 1
    BY <1>2, Widths DEF Whole
  <1>4. Bytes(n, Width[WireVariant[Type]]) \in Seq(Byte)
    <2>1. PICK w \in Nat : w = Width[WireVariant[Type]]
      BY <1>3
    <2>2. \A i \in 1..w : Bytes(n, w)[i] \in Byte
      BY <1>2, <2>1, BytesAreBytes
    <2>3. DOMAIN Bytes(n, w) = 1..w /\ Bytes(n, w) = [i \in 1..w |-> Bytes(n, w)[i]]
      BY DEF Bytes
    <2>4. Bytes(n, w) \in [1..w -> Byte]
      BY <2>2, <2>3
    <2>5. \A f \in [1..w -> Byte] : f \in Seq(Byte)
      OBVIOUS
    <2>. QED
      BY <2>1, <2>4, <2>5
  <1>5. CASE Type # "Enum"
    BY <1>1, <1>4, <1>5 DEF Kept
  <1>6. CASE Type = "Enum"
    <2>1. Encoded(raw).value[1] \in Byte
      <3>1. 1 \in 1..Width[WireVariant[Type]]
        BY <1>3, SMT
      <3>2. Len(Bytes(n, Width[WireVariant[Type]])) = Width[WireVariant[Type]]
        BY <1>3 DEF Bytes
      <3>. QED
        BY <1>1, <1>4, <3>1, <3>2
    <2>2. 0 \in Byte
      BY SMT DEF Byte
    <2>3. EnumSize \in Nat
      BY ToolAssumption
    <2>. QED
      BY <1>6, <2>1, <2>2, <2>3 DEF Kept
  <1>. QED
    BY <1>5, <1>6

-----------------------------------------------------------------------------
(* The command up to its first frame.                                      *)

(* Commands are get or set, and a set with --yes has an input. *)
LEMMA CommandFacts ==
  ASSUME NEW k \in Commands
  PROVE  /\ k.op \in {"get", "set"} /\ k.yes \in BOOLEAN
         /\ k.yes => k.op = "set" /\ k.raw \in Inputs
  <1>1. CASE k = Command("get", Word("other"), FALSE) \/ k = Command("set", Word("other"), FALSE)
    <2>1. k.op \in {"get", "set"} /\ k.yes = FALSE
      BY <1>1 DEF Command
    <2>. QED
      BY <2>1
  <1>2. CASE \E raw \in Inputs : k = Command("set", raw, TRUE)
    BY <1>2 DEF Command
  <1>. QED
    BY <1>1, <1>2 DEF Commands

(* encode_for fails or returns bytes, it does not panic. *)
LEMMA EncodeKinds ==
  ASSUME NEW type, NEW v
  PROVE  EncodeFor(type, v).kind \in {"Ok", "UnknownDataType", "InvalidValue"}
  BY DEF EncodeFor, Ok, Err

(* validate has three answers. *)
LEMMA ValidateKinds ==
  ASSUME NEW v
  PROVE  Validate(reg, name, v) \in {"Ok", "InvalidValue", "ValueOutOfRange"}
  BY DEF Validate, Verdict

(* parse_value does not panic for an object of the registry. *)
LEMMA ParseKinds ==
  ASSUME Known, NEW raw, raw.kind \in {"word", "number"}
  PROVE  /\ Entered(raw).kind \in {"Ok", "InvalidValue"}
         /\ Entered(raw).kind = "Ok" => HasRule(name)
  BY DEF Entered, ParseValue, ParseWord, Known, Ok, Err

(* A decoded value or an error, no panic. *)
LEMMA DecodeKinds ==
  ASSUME NEW type, NEW data
  PROVE  DecodeValue(type, data).kind \in {"Ok", "PayloadTooShort"}
  BY DEF DecodeValue, Ok, Err

(* Every command sends a frame that may be sent, or is refused: the         *)
(* registry is asked before parse_value relies on it, and the value is      *)
(* validated before it is encoded.                                          *)
LEMMA PreparedFacts ==
  ASSUME NEW k \in Commands
  PROVE  /\ Prepared(k).kind # "panic"
         /\ Prepared(k).kind = "Ok" =>
              /\ Known
              /\ \/ k.op = "get" /\ Prepared(k).value = ReadFrame
                 \/ k.op = "set" /\ k.raw \in Inputs /\ Carries(Prepared(k).value, k.raw)
              /\ Sendable(Prepared(k).value)
  <1>1. /\ k.op \in {"get", "set"} /\ k.yes \in BOOLEAN
        /\ k.yes => k.op = "set" /\ k.raw \in Inputs
    BY CommandFacts
  <1>2. CASE k.op = "set" /\ ~k.yes
    <2>1. Prepared(k) = Err("refused")
      BY <1>2 DEF Prepared
    <2>. QED
      BY <2>1 DEF Err
  <1>3. CASE ~Known /\ ~(k.op = "set" /\ ~k.yes)
    <2>1. Prepared(k) = Err("InvalidParameter")
      BY <1>1, <1>3 DEF Prepared
    <2>. QED
      BY <2>1 DEF Err
  <1>4. CASE Known /\ k.op = "get"
    <2>1. Prepared(k) = Ok(ReadFrame)
      BY <1>1, <1>4 DEF Prepared
    <2>2. Prepared(k).kind = "Ok" /\ Prepared(k).value = ReadFrame
      BY <2>1 DEF Ok
    <2>. QED
      BY <1>4, <2>2 DEF Sendable
  <1>5. CASE Known /\ k.op = "set" /\ k.yes
    <2>1. Prepared(k) = Parsed(k)
      BY <1>1, <1>5 DEF Prepared
    <2>2. k.raw \in Inputs /\ k.raw.kind \in {"word", "number"}
      BY <1>1, <1>5, InputFacts
    <2>3. PICK v : v = Entered(k.raw)
      OBVIOUS
    <2>4. v.kind \in {"Ok", "InvalidValue"} /\ (v.kind = "Ok" => HasRule(name))
      BY <1>5, <2>2, <2>3, ParseKinds
    <2>5. Parsed(k) = IF v.kind = "Ok" THEN Checked(v.value) ELSE v
      BY <2>3 DEF Parsed, Entered
    <2>6. CASE v.kind # "Ok"
      BY <2>1, <2>4, <2>5, <2>6
    <2>7. CASE v.kind = "Ok" /\ Validate(reg, name, v.value) # "Ok"
      <3>1. Prepared(k) = Err(Validate(reg, name, v.value))
        BY <2>1, <2>5, <2>7 DEF Checked
      <3>. QED
        BY <2>7, <3>1, ValidateKinds DEF Err
    <2>8. CASE v.kind = "Ok" /\ Validate(reg, name, v.value) = "Ok"
      <3>1. Prepared(k) = WriteFrame(v.value)
        BY <2>1, <2>5, <2>8 DEF Checked
      <3>2. PICK payload : payload = EncodeFor(Type, v.value)
        OBVIOUS
      <3>3. CASE payload.kind # "Ok"
        <4>1. Prepared(k) = payload
          BY <3>1, <3>2, <3>3 DEF WriteFrame, Type
        <4>. QED
          BY <3>2, <3>3, <4>1, EncodeKinds
      <3>4. CASE payload.kind = "Ok"
        <4>1. PICK f : f = [command |-> "write", payload |-> payload.value, value |-> v.value]
          OBVIOUS
        <4>2. Prepared(k) = Ok(f)
          BY <3>1, <3>2, <3>4, <4>1 DEF WriteFrame, Type
        <4>3. Carries(f, k.raw)
          BY <1>5, <2>3, <2>4, <2>8, <3>2, <3>4, <4>1 DEF Carries, Allowed, Encoded
        <4>. QED
          BY <1>5, <2>2, <4>2, <4>3 DEF Ok, Sendable
      <3>. QED
        BY <3>3, <3>4
    <2>. QED
      BY <2>6, <2>7, <2>8
  <1>. QED
    BY <1>1, <1>2, <1>3, <1>4, <1>5

-----------------------------------------------------------------------------
(* The inductive invariant.                                                *)

(* What may be sent, and what is held, depend on the registry and the name. *)
LEMMA SameRules ==
  ASSUME UNCHANGED <<reg, name>>
  PROVE  /\ \A raw : /\ Allowed(raw)' <=> Allowed(raw)
                     /\ Encoded(raw)' = Encoded(raw)
         /\ Type' = Type
         /\ \A f : Sendable(f)' <=> Sendable(f)
         /\ \A k : Prepared(k)' = Prepared(k)
         /\ device' = device => (HeldIsAllowed' <=> HeldIsAllowed)
  <1>1. (Known' <=> Known) /\ Object' = Object
    BY DEF Known, Object
  <1>2. Type' = Type
    BY <1>1 DEF Type
  <1>3. \A raw : Entered(raw)' = Entered(raw)
    BY DEF Entered
  <1>4. \A raw : Encoded(raw)' = Encoded(raw)
    BY <1>2, <1>3 DEF Encoded
  <1>5. \A raw : Allowed(raw)' <=> Allowed(raw)
    BY <1>1, <1>3, <1>4 DEF Allowed
  <1>6. \A f : Sendable(f)' <=> Sendable(f)
    BY <1>3, <1>4, <1>5 DEF Sendable, Carries
  <1>7. \A v : WriteFrame(v)' = WriteFrame(v)
    BY <1>1 DEF WriteFrame
  <1>8. \A v : Checked(v)' = Checked(v)
    BY <1>7 DEF Checked
  <1>9. \A k : Parsed(k)' = Parsed(k)
    BY <1>8 DEF Parsed
  <1>10. \A k : Prepared(k)' = Prepared(k)
    BY <1>1, <1>9 DEF Prepared
  <1>11. device' = device => (HeldIsAllowed' <=> HeldIsAllowed)
    BY <1>1, <1>2, <1>4, <1>5 DEF HeldIsAllowed
  <1>. QED
    BY <1>2, <1>4, <1>5, <1>6, <1>10, <1>11

(* A write that is executed leaves what is kept of an allowed input. *)
LEMMA WriteHeld ==
  ASSUME UNCHANGED <<reg, name>>, NEW f, f.command = "write", Sendable(f),
         device' = Kept(Type, f.payload)
  PROVE  HeldIsAllowed'
  <1>1. PICK raw \in Inputs : Carries(f, raw)
    BY DEF Sendable, ReadFrame
  <1>2. Allowed(raw) /\ device' = Kept(Type, Encoded(raw).value)
    BY <1>1 DEF Carries
  <1>3. Allowed(raw)' /\ Type' = Type /\ Encoded(raw)' = Encoded(raw)
    BY <1>2, SameRules
  <1>. QED
    BY <1>2, <1>3 DEF HeldIsAllowed

(* The object may hold anything of its type at first.                      *)
LEMMA InitTool == Init => ToolInv
  BY DEF Init, ToolInv, HeldIsAllowed, NeverPanics, Nothing

(* Every command, answer, late write and loss keeps the invariant.         *)
LEMMA ToolStep == ToolInv /\ [Next]_vars => ToolInv'
  <1>. SUFFICES ASSUME ToolInv, [Next]_vars
                PROVE  ToolInv'
    OBVIOUS
  <1>0. /\ UNCHANGED <<reg, name>>
        /\ \A f : Sendable(f)' <=> Sendable(f)
        /\ \A k : Prepared(k)' = Prepared(k)
        /\ device' = device => (HeldIsAllowed' <=> HeldIsAllowed)
    <2>1. UNCHANGED <<reg, name>>
      BY DEF Next, vars, Refuse, Send, Receive, TryAgain, TimeOut, InverterStep, LateStep, Lose
    <2>. QED
      BY <2>1, SameRules
  <1>1. CASE Refuse
    <2>1. PICK k \in Commands : cmd' = k /\ shown' = Prepared(k)
      BY <1>1 DEF Refuse
    <2>2. pc' = "idle" /\ UNCHANGED <<up, late, device>>
      BY <1>1 DEF Refuse
    <2>. QED
      BY <1>0, <2>1, <2>2, PreparedFacts DEF ToolInv, NeverPanics
  <1>2. CASE Send
    <2>1. PICK k \in Commands : Prepared(k).kind = "Ok" /\ cmd' = k /\ up' = <<Prepared(k).value>>
      BY <1>2 DEF Send
    <2>2. shown' = Nothing /\ UNCHANGED <<late, device>>
      BY <1>2 DEF Send
    <2>3. shown'.kind # "panic"
      BY <2>2 DEF Nothing
    <2>. QED
      BY <1>0, <2>1, <2>2, <2>3, PreparedFacts DEF ToolInv, NeverPanics
  <1>3. CASE Receive
    <2>1. pc' = "idle" /\ UNCHANGED <<cmd, up, late, device>>
      BY <1>3 DEF Receive
    <2>2. shown'.kind # "panic"
      <3>1. Answered.kind # "panic"
        BY DecodeKinds DEF Answered, Ok
      <3>. QED
        BY <1>3, <3>1 DEF Receive, Err
    <2>. QED
      BY <1>0, <2>1, <2>2 DEF ToolInv, NeverPanics
  <1>4. \A f \in Unanswered : f.command = "write" /\ Sendable(f)
    <2>1. CASE up = << >>
      BY <2>1 DEF Unanswered
    <2>2. CASE \E f : up = <<f>> /\ Sendable(f)
      BY <2>2 DEF Unanswered
    <2>. QED
      BY <2>1, <2>2 DEF ToolInv
  <1>5. CASE TryAgain
    <2>1. /\ up' = <<Prepared(cmd).value>> /\ late' = late \cup Unanswered /\ pc = "await"
          /\ UNCHANGED <<cmd, pc, device, shown>>
      BY <1>5 DEF TryAgain
    <2>2. Sendable(Prepared(cmd).value)
      BY <2>1, PreparedFacts DEF ToolInv
    <2>. QED
      BY <1>0, <1>4, <2>1, <2>2 DEF ToolInv, NeverPanics
  <1>6. CASE TimeOut
    <2>1. /\ up' = << >> /\ late' = late \cup Unanswered /\ pc' = "idle"
          /\ shown'.kind # "panic" /\ UNCHANGED <<cmd, device>>
      BY <1>6 DEF TimeOut, Err
    <2>. QED
      BY <1>0, <1>4, <2>1 DEF ToolInv, NeverPanics
  <1>7. CASE InverterStep
    <2>1. up' = << >> /\ UNCHANGED <<cmd, pc, late, shown>>
      BY <1>7 DEF InverterStep
    <2>2. PICK f : up = <<f>> /\ Sendable(f)
      BY <1>7 DEF InverterStep, ToolInv
    <2>3. CASE f.command = "write"
      <3>1. device' = Kept(Type, f.payload)
        BY <1>7, <2>2, <2>3 DEF InverterStep, Type
      <3>2. HeldIsAllowed'
        BY <1>0, <2>2, <2>3, <3>1, WriteHeld
      <3>. QED
        BY <1>0, <2>1, <3>2 DEF ToolInv, NeverPanics
    <2>4. CASE f.command # "write"
      <3>1. device' = device
        BY <1>7, <2>2, <2>4 DEF InverterStep
      <3>. QED
        BY <1>0, <2>1, <3>1 DEF ToolInv, NeverPanics
    <2>. QED
      BY <2>3, <2>4
  <1>8. CASE LateStep
    <2>1. PICK f \in late : device' = Kept(Type, f.payload) /\ late' \in {late, late \ {f}}
      BY <1>8 DEF LateStep, Type
    <2>2. UNCHANGED <<cmd, pc, up, shown>>
      BY <1>8 DEF LateStep
    <2>3. HeldIsAllowed'
      BY <1>0, <2>1, WriteHeld DEF ToolInv
    <2>. QED
      BY <1>0, <2>1, <2>2, <2>3 DEF ToolInv, NeverPanics
  <1>9. CASE Lose
    <2>1. up' = << >> /\ UNCHANGED <<cmd, pc, late, device, shown>>
      BY <1>9 DEF Lose
    <2>. QED
      BY <1>0, <2>1 DEF ToolInv, NeverPanics
  <1>10. CASE UNCHANGED vars
    BY <1>0, <1>10 DEF vars, ToolInv, NeverPanics
  <1>. QED
    BY <1>1, <1>2, <1>3, <1>5, <1>6, <1>7, <1>8, <1>9, <1>10 DEF Next

(* The tool never panics, whatever parameter and registry it is given:      *)
(* both commands look the name up before parse_value unwraps its entry.     *)
THEOREM NoPanic == Spec => []NeverPanics
  <1>1. ToolInv => NeverPanics
    BY DEF ToolInv
  <1>. QED
    BY <1>1, InitTool, ToolStep, PTL DEF Spec

(* "Values are validated against the rct.py ruleset before sending"         *)
(* (README.md): the object only ever holds what it held at first or what    *)
(* the inverter keeps of an input that its rule allows, also when writes of *)
(* earlier commands arrive late or more than once.                          *)
THEOREM OnlyAllowedHeld == Spec => []HeldIsAllowed
  <1>1. ToolInv => HeldIsAllowed
    BY DEF ToolInv
  <1>. QED
    BY <1>1, InitTool, ToolStep, PTL DEF Spec

-----------------------------------------------------------------------------
(* What is printed, and what is sent.                                      *)

(* A value was sent to the object last. *)
HoldsSent ==
  \E raw \in Inputs : Allowed(raw) /\ device = Kept(Type, Encoded(raw).value)

(* While a command waits its frame may be on its way again and again; the   *)
(* answer on its way back is what the object holds.                         *)
Waiting ==
  pc = "await" =>
    /\ shown = Nothing
    /\ up \in {<< >>, <<Prepared(cmd).value>>}
    /\ cmd.op = "set" => Prepared(cmd).value.value \in told
    /\ down # << >> =>
         /\ up = << >> /\ down = <<device>>
         /\ cmd.op = "set" => device = Kept(Type, Encoded(cmd.raw).value)

(* A set that reports success prints the value that it has sent. *)
Reported ==
  shown.kind = "Ok" =>
    /\ Proper(shown.value)
    /\ cmd.op = "set" => /\ cmd.raw \in Inputs /\ Allowed(cmd.raw)
                         /\ shown.value = Entered(cmd.raw).value
                         /\ HoldsSent

(* The inductive invariant behind the values that are printed. *)
ValueInv ==
  /\ FitsHere
  /\ pc \in {"idle", "await"}
  /\ pc = "idle" => up = << >> /\ down = << >>
  /\ \A v \in told : Proper(v)
  /\ \A f \in late : f.value \in told
  /\ Waiting
  /\ Reported

(* The object is found in one of the registries. *)
LEMMA InitFits ==
  ASSUME RegistryFits, Init
  PROVE  FitsHere
  <1>. SUFFICES ASSUME Known, HasRule(name)
                PROVE  Object.response_data_type = Type /\ RuleFits(WRITABLE[name], Type)
    BY DEF FitsHere
  <1>1. PICK rows \in Files : reg = Build(rows)
    BY DEF Init
  <1>2. name \in DOMAIN Build(rows).by_name \cap DOMAIN WRITABLE
    BY <1>1 DEF Known, HasRule, WRITABLE
  <1>3. Object = Build(rows).by_name[name]
    BY <1>1 DEF Object
  <1>. QED
    BY <1>2, <1>3 DEF RegistryFits, Type

(* What the object holds is read as a value of its variant. *)
LEMMA AnswerProper ==
  ASSUME FitsHere, HeldIsAllowed, Known, Answer(device).kind = "Ok"
  PROVE  Proper(Answer(device).value)
  <1>1. Integral(Object.response_data_type) => device \in Seq(Byte)
    <2>1. CASE device \in Held[Object.response_data_type]
      BY <2>1, ToolAssumption, VariantFacts DEF Integral, Byte
    <2>2. CASE \E raw \in Inputs : Allowed(raw) /\ device = Kept(Type, Encoded(raw).value)
      BY <2>2, KeptBytes DEF FitsHere, Allowed
    <2>. QED
      BY <2>1, <2>2 DEF HeldIsAllowed
  <1>. QED
    BY <1>1, DecodeProper DEF Answer

(* At first nothing was printed, and what the object holds is told. *)
LEMMA InitValue ==
  ASSUME RegistryFits, Init
  PROVE  ValueInv
  <1>1. FitsHere /\ HeldIsAllowed
    BY InitFits, InitTool DEF ToolInv
  <1>2. \A v \in told : Proper(v)
    <2>1. told = IF Known /\ Answer(device).kind = "Ok" THEN {Answer(device).value} ELSE {}
      BY DEF Init, Answer
    <2>. QED
      BY <1>1, <2>1, AnswerProper
  <1>3. pc = "idle" /\ up = << >> /\ down = << >> /\ late = {} /\ shown.kind # "Ok"
    BY DEF Init, Nothing
  <1>. QED
    BY <1>1, <1>2, <1>3 DEF ValueInv, Waiting, Reported

(* What may be sent, is read and fits depends on the registry and the name. *)
LEMMA SameValues ==
  ASSUME UNCHANGED <<reg, name>>
  PROVE  /\ FitsHere' <=> FitsHere
         /\ Numeric' <=> Numeric
         /\ \A raw : Entered(raw)' = Entered(raw)
         /\ \A f, raw : Carries(f, raw)' <=> Carries(f, raw)
         /\ \A data : Answer(data)' = Answer(data)
         /\ device' = device => (HoldsSent' <=> HoldsSent)
  <1>1. (Known' <=> Known) /\ Object' = Object
    BY DEF Known, Object
  <1>2. Type' = Type
    BY <1>1 DEF Type
  <1>3. \A raw : Entered(raw)' = Entered(raw)
    BY DEF Entered
  <1>4. \A raw : (Allowed(raw)' <=> Allowed(raw)) /\ Encoded(raw)' = Encoded(raw)
    BY SameRules
  <1>5. FitsHere' <=> FitsHere
    BY <1>1, <1>2 DEF FitsHere
  <1>6. Numeric' <=> Numeric
    BY <1>1 DEF Numeric
  <1>7. \A f, raw : Carries(f, raw)' <=> Carries(f, raw)
    BY <1>3, <1>4 DEF Carries
  <1>8. \A data : Answer(data)' = Answer(data)
    BY <1>1 DEF Answer
  <1>9. device' = device => (HoldsSent' <=> HoldsSent)
    BY <1>2, <1>4 DEF HoldsSent
  <1>. QED
    BY <1>3, <1>5, <1>6, <1>7, <1>8, <1>9

(* Every step keeps what is printed and sent in step. *)
LEMMA ValueStep ==
  ASSUME ToolInv, ValueInv, [Next]_vars
  PROVE  ValueInv'
  <1>0. /\ UNCHANGED <<reg, name>>
        /\ FitsHere /\ FitsHere'
        /\ \A k : Prepared(k)' = Prepared(k)
        /\ \A raw : /\ Allowed(raw)' <=> Allowed(raw)
                    /\ Encoded(raw)' = Encoded(raw)
                    /\ Entered(raw)' = Entered(raw)
        /\ Type' = Type
        /\ device' = device => (HoldsSent' <=> HoldsSent)
    <2>1. UNCHANGED <<reg, name>>
      BY DEF Next, vars, Refuse, Send, Receive, TryAgain, TimeOut, InverterStep, LateStep, Lose
    <2>. QED
      BY <2>1, SameRules, SameValues DEF ValueInv
  <1>1. Nothing.kind # "Ok"
    BY DEF Nothing
  <1>2. CASE Refuse
    <2>1. pc = "idle" /\ shown'.kind # "Ok" /\ UNCHANGED <<pc, up, late, down, device, told>>
      BY <1>2 DEF Refuse
    <2>. QED
      BY <1>0, <2>1 DEF ValueInv, Waiting, Reported
  <1>3. CASE Send
    <2>1. PICK k \in Commands : /\ Prepared(k).kind = "Ok" /\ cmd' = k
                                /\ up' = <<Prepared(k).value>>
      BY <1>3 DEF Send
    <2>2. /\ pc' = "await" /\ shown' = Nothing /\ down' = << >> /\ UNCHANGED <<late, device>>
          /\ told' = IF up'[1].command = "write" THEN told \cup {up'[1].value} ELSE told
      BY <1>3 DEF Send
    <2>3. up'[1] = Prepared(k).value
      BY <2>1
    <2>4. CASE k.op = "get" /\ Prepared(k).value = ReadFrame
      <3>1. told' = told
        BY <2>2, <2>3, <2>4 DEF ReadFrame
      <3>. QED
        BY <1>0, <1>1, <2>1, <2>2, <2>4, <3>1 DEF ValueInv, Waiting, Reported
    <2>5. CASE k.op = "set" /\ k.raw \in Inputs /\ Carries(Prepared(k).value, k.raw)
      <3>1. PICK f : f = Prepared(k).value /\ f.command = "write" /\ f.value = Entered(k.raw).value
        BY <2>5 DEF Carries
      <3>2. told' = told \cup {f.value}
        BY <2>2, <2>3, <3>1
      <3>3. Proper(f.value)
        BY <2>5, <3>1, EnteredProper DEF Carries, Allowed
      <3>. QED
        BY <1>0, <1>1, <2>1, <2>2, <3>1, <3>2, <3>3 DEF ValueInv, Waiting, Reported
    <2>. QED
      BY <2>1, <2>4, <2>5, PreparedFacts
  <1>4. CASE Receive
    <2>1. /\ pc = "await" /\ down # << >> /\ pc' = "idle" /\ down' = << >>
          /\ UNCHANGED <<cmd, up, late, device>>
          /\ shown' = IF down[1] = << >> THEN Err("EmptyPayload") ELSE Answered
          /\ told' = IF shown'.kind = "Ok" THEN {shown'.value} \cup {f.value : f \in late} ELSE told
      BY <1>4 DEF Receive
    <2>2. /\ up = << >> /\ down[1] = device
          /\ cmd.op = "set" => device = Kept(Type, Encoded(cmd.raw).value)
      BY <2>1 DEF ValueInv, Waiting
    <2>3. /\ Known
          /\ cmd.op = "set" => /\ cmd.raw \in Inputs /\ Allowed(cmd.raw)
          /\ cmd.op \in {"get", "set"}
      BY <2>1, PreparedFacts DEF ToolInv, Carries
    <2>4. CASE shown'.kind # "Ok"
      BY <1>0, <2>1, <2>2, <2>4 DEF ValueInv, Waiting, Reported
    <2>5. CASE shown'.kind = "Ok"
      <3>1. shown' = Answered /\ told' = {shown'.value} \cup {f.value : f \in late}
        BY <2>1, <2>5 DEF Err
      <3>2. Answered = IF cmd.op = "set" /\ Answer(device).kind = "Ok"
                       THEN Ok(Entered(cmd.raw).value) ELSE Answer(device)
        BY <2>2 DEF Answered, Answer, Entered
      <3>3. CASE cmd.op = "set"
        <4>1. Answer(device).kind = "Ok"
          BY <2>5, <3>1, <3>2
        <4>2. shown'.value = Entered(cmd.raw).value
          BY <3>1, <3>2, <3>3, <4>1 DEF Ok
        <4>3. Proper(shown'.value)
          BY <2>3, <3>3, <4>2, EnteredProper DEF Allowed
        <4>4. HoldsSent
          BY <2>2, <2>3, <3>3 DEF HoldsSent
        <4>. QED
          BY <1>0, <2>1, <2>2, <2>3, <3>1, <4>2, <4>3, <4>4 DEF ValueInv, Waiting, Reported
      <3>4. CASE cmd.op = "get"
        <4>1. Answered = Answer(device)
          BY <3>2, <3>4
        <4>2. Proper(shown'.value)
          BY <2>3, <2>5, <3>1, <4>1, AnswerProper DEF ToolInv, ValueInv
        <4>. QED
          BY <1>0, <2>1, <2>2, <3>1, <3>4, <4>2 DEF ValueInv, Waiting, Reported
      <3>. QED
        BY <2>3, <3>3, <3>4
    <2>. QED
      BY <2>4, <2>5
  <1>5. pc = "await" => \A f \in Unanswered : f.value \in told
    <2>. SUFFICES ASSUME pc = "await", NEW f \in Unanswered
                  PROVE  f.value \in told
      OBVIOUS
    <2>1. up = <<f>> /\ f = Prepared(cmd).value /\ f.command = "write"
      BY DEF Unanswered, ValueInv, Waiting
    <2>2. cmd.op = "set"
      BY <2>1, PreparedFacts DEF ToolInv, ReadFrame
    <2>. QED
      BY <2>1, <2>2 DEF ValueInv, Waiting
  <1>6. CASE TryAgain
    <2>1. /\ pc = "await" /\ down = << >> /\ up' = <<Prepared(cmd).value>>
          /\ late' = late \cup Unanswered /\ UNCHANGED <<cmd, pc, down, device, shown, told>>
      BY <1>6 DEF TryAgain
    <2>. QED
      BY <1>0, <1>1, <1>5, <2>1 DEF ValueInv, Waiting, Reported
  <1>7. CASE TimeOut
    <2>1. /\ pc = "await" /\ down = << >> /\ up' = << >> /\ pc' = "idle" /\ shown'.kind # "Ok"
          /\ late' = late \cup Unanswered /\ UNCHANGED <<cmd, down, device, told>>
      BY <1>7 DEF TimeOut, Err
    <2>. QED
      BY <1>0, <1>5, <2>1 DEF ValueInv, Waiting, Reported
  <1>8. CASE InverterStep
    <2>1. /\ up # << >> /\ up' = << >> /\ down' \in {<<device'>>, << >>}
          /\ device' \in IF up[1].command = "write" THEN {Kept(Type, up[1].payload)} ELSE {device}
          /\ UNCHANGED <<cmd, pc, late, shown, told>>
      BY <1>8 DEF InverterStep, Type
    <2>2. pc = "await" /\ up[1] = Prepared(cmd).value
      BY <2>1 DEF ValueInv, Waiting
    <2>3. ASSUME cmd.op = "set"
          PROVE  device' = Kept(Type, Encoded(cmd.raw).value)
      <3>1. Carries(Prepared(cmd).value, cmd.raw)
        BY <2>2, <2>3, PreparedFacts DEF ToolInv
      <3>2. PICK f : f = Prepared(cmd).value /\ f.command = "write"
                     /\ f.payload = Encoded(cmd.raw).value
        BY <3>1 DEF Carries
      <3>3. up[1].command = "write" /\ up[1].payload = Encoded(cmd.raw).value
        BY <2>2, <3>2
      <3>. QED
        BY <2>1, <3>3
    <2>. QED
      BY <1>0, <1>1, <2>1, <2>2, <2>3 DEF ValueInv, Waiting, Reported
  <1>9. CASE LateStep
    <2>1. PICK f \in late : device' = Kept(Type, f.payload) /\ late' \in {late, late \ {f}}
      BY <1>9 DEF LateStep, Type
    <2>2. pc = "idle" /\ UNCHANGED <<cmd, pc, up, down, shown, told>>
      BY <1>9 DEF LateStep
    <2>3. PICK raw \in Inputs : Carries(f, raw)
      BY <2>1 DEF ToolInv, Sendable, ReadFrame
    <2>4. HoldsSent'
      BY <1>0, <2>1, <2>3 DEF HoldsSent, Carries
    <2>. QED
      BY <1>0, <2>1, <2>2, <2>4 DEF ValueInv, Waiting, Reported
  <1>10. CASE Lose
    <2>1. up # << >> /\ up' = << >> /\ UNCHANGED <<cmd, pc, late, down, device, shown, told>>
      BY <1>10 DEF Lose
    <2>. QED
      BY <1>0, <2>1 DEF ValueInv, Waiting, Reported
  <1>11. CASE UNCHANGED vars
    BY <1>0, <1>11 DEF vars, ValueInv, Waiting, Reported
  <1>. QED
    BY <1>2, <1>3, <1>4, <1>6, <1>7, <1>8, <1>9, <1>10, <1>11 DEF Next

(* The value that the object holds is one of those the operator was told    *)
(* of, or has sent since.                                                   *)
HeldIsTold ==
  Numeric /\ Answer(device).kind = "Ok" => \E v \in told : Same(v, Reading)

(* What an object with a rule holds at first is in its range. *)
HeldFitsHere ==
  Numeric /\ HasRule(name) /\ WRITABLE[name].range =>
    \A data \in Held[Object.response_data_type] : InRule(WRITABLE[name], Answer(data).value)

(* The object is found in one of the registries. *)
LEMMA InitHeld ==
  ASSUME HeldFits, Init
  PROVE  HeldFitsHere
  <1>. SUFFICES ASSUME Numeric, HasRule(name), WRITABLE[name].range,
                       NEW data \in Held[Object.response_data_type]
                PROVE  InRule(WRITABLE[name], Answer(data).value)
    BY DEF HeldFitsHere
  <1>1. PICK rows \in Files : reg = Build(rows)
    BY DEF Init
  <1>2. name \in DOMAIN Build(rows).by_name \cap DOMAIN WRITABLE
    BY <1>1 DEF Numeric, Known, HasRule, WRITABLE
  <1>3. Object = Build(rows).by_name[name]
    BY <1>1 DEF Object
  <1>4. Object.response_data_type \in DOMAIN ReadVariant \ {"String"}
    BY DEF Numeric
  <1>. QED
    BY <1>2, <1>3, <1>4 DEF HeldFits, Answer

(* What the object holds at first is told. *)
LEMMA InitTold == Init => HeldIsTold
  <1>. SUFFICES ASSUME Init, Numeric, Answer(device).kind = "Ok"
                PROVE  \E v \in told : Same(v, Reading)
    BY DEF HeldIsTold
  <1>1. told = {Reading}
    BY DEF Init, Numeric, Answer, Reading
  <1>. QED
    BY <1>1 DEF Same

(* What was told stays true of the object: a command that succeeds prints   *)
(* what the object holds, and a write that is executed was told when it was *)
(* sent.                                                                    *)
LEMMA ToldStep ==
  ASSUME EnumSize = 4, ToolInv, ValueInv, HeldIsTold, [Next]_vars
  PROVE  HeldIsTold'
  <1>. SUFFICES ASSUME Numeric', Answer(device)'.kind = "Ok"
                PROVE  \E v \in told' : Same(v, Answer(device)'.value)
    BY DEF HeldIsTold, Reading, Answer, Same
  <1>0. /\ UNCHANGED <<reg, name>>
        /\ FitsHere /\ Numeric
        /\ Answer(device)' = Answer(device')
    <2>1. UNCHANGED <<reg, name>>
      BY DEF Next, vars, Refuse, Send, Receive, TryAgain, TimeOut, InverterStep, LateStep, Lose
    <2>2. Object' = Object
      BY <2>1 DEF Object
    <2>. QED
      BY <2>1, <2>2, SameValues DEF ValueInv, Answer
  <1>1. ASSUME device' = device, told \subseteq told'
        PROVE  \E v \in told' : Same(v, Answer(device)'.value)
    <2>1. Answer(device).kind = "Ok" /\ Answer(device)'.value = Reading
      BY <1>0, <1>1 DEF Reading, Answer
    <2>. QED
      BY <1>0, <1>1, <2>1 DEF HeldIsTold
  <1>2. ASSUME NEW raw \in Inputs, Allowed(raw), device' = Kept(Type, Encoded(raw).value),
               Entered(raw).value \in told'
        PROVE  \E v \in told' : Same(v, Answer(device)'.value)
    BY <1>0, <1>2, RoundTrip
  <1>3. CASE Refuse
    BY <1>1, <1>3 DEF Refuse
  <1>4. CASE Send
    BY <1>1, <1>4 DEF Send
  <1>5. CASE Receive
    <2>1. /\ pc = "await" /\ down # << >> /\ device' = device
          /\ shown' = IF down[1] = << >> THEN Err("EmptyPayload") ELSE Answered
          /\ told' = IF shown'.kind = "Ok" THEN {shown'.value} \cup {f.value : f \in late} ELSE told
      BY <1>5 DEF Receive
    <2>2. CASE shown'.kind # "Ok"
      BY <1>1, <2>1, <2>2
    <2>3. CASE shown'.kind = "Ok"
      <3>1. down[1] = device /\ (cmd.op = "set" => device = Kept(Type, Encoded(cmd.raw).value))
        BY <2>1 DEF ValueInv, Waiting
      <3>2. shown' = Answered /\ shown'.value \in told'
        BY <2>1, <2>3 DEF Err
      <3>3. Answered = IF cmd.op = "set" /\ Answer(device).kind = "Ok"
                       THEN Ok(Entered(cmd.raw).value) ELSE Answer(device)
        BY <3>1 DEF Answered, Answer, Entered
      <3>4. CASE cmd.op = "set"
        <4>1. cmd.raw \in Inputs /\ Allowed(cmd.raw)
          BY <2>1, <3>4, PreparedFacts DEF ToolInv, Carries
        <4>2. Answer(device).kind = "Ok"
          BY <1>0, <2>1
        <4>3. Entered(cmd.raw).value \in told'
          BY <3>2, <3>3, <3>4, <4>2 DEF Ok
        <4>. QED
          BY <1>2, <2>1, <3>1, <3>4, <4>1, <4>3
      <3>5. CASE cmd.op # "set"
        <4>1. shown' = Answer(device)'
          BY <1>0, <2>1, <3>2, <3>3, <3>5
        <4>. QED
          BY <3>2, <4>1 DEF Same
      <3>. QED
        BY <3>4, <3>5
    <2>. QED
      BY <2>2, <2>3
  <1>6. CASE TryAgain
    BY <1>1, <1>6 DEF TryAgain
  <1>7. CASE TimeOut
    BY <1>1, <1>7 DEF TimeOut
  <1>8. CASE InverterStep
    <2>1. /\ up # << >> /\ told' = told
          /\ device' \in IF up[1].command = "write" THEN {Kept(Type, up[1].payload)} ELSE {device}
      BY <1>8 DEF InverterStep, Type
    <2>2. pc = "await" /\ up[1] = Prepared(cmd).value
      BY <2>1 DEF ValueInv, Waiting
    <2>3. CASE cmd.op = "set" /\ cmd.raw \in Inputs /\ Carries(Prepared(cmd).value, cmd.raw)
      <3>1. PICK f : f = Prepared(cmd).value /\ f.command = "write"
                     /\ f.payload = Encoded(cmd.raw).value /\ f.value = Entered(cmd.raw).value
        BY <2>3 DEF Carries
      <3>2. device' = Kept(Type, Encoded(cmd.raw).value)
        BY <2>1, <2>2, <3>1
      <3>3. Entered(cmd.raw).value \in told'
        BY <2>1, <2>2, <2>3, <3>1 DEF ValueInv, Waiting
      <3>. QED
        BY <1>2, <2>3, <3>2, <3>3 DEF Carries
    <2>4. CASE Prepared(cmd).value = ReadFrame
      <3>1. device' = device
        BY <2>1, <2>2, <2>4 DEF ReadFrame
      <3>. QED
        BY <1>1, <2>1, <3>1
    <2>. QED
      BY <2>2, <2>3, <2>4, PreparedFacts DEF ToolInv
  <1>9. CASE LateStep
    <2>1. PICK f \in late : device' = Kept(Type, f.payload) /\ told' = told
      BY <1>9 DEF LateStep, Type
    <2>2. PICK raw \in Inputs : Carries(f, raw)
      BY <2>1 DEF ToolInv, Sendable, ReadFrame
    <2>3. f.payload = Encoded(raw).value /\ f.value = Entered(raw).value /\ Allowed(raw)
      BY <2>2 DEF Carries
    <2>. QED
      BY <1>2, <2>1, <2>3 DEF ValueInv
  <1>10. CASE Lose
    BY <1>1, <1>10 DEF Lose
  <1>11. CASE UNCHANGED vars
    BY <1>1, <1>11 DEF vars
  <1>. QED
    BY <1>3, <1>4, <1>5, <1>6, <1>7, <1>8, <1>9, <1>10, <1>11 DEF Next

(* The registry and the name stay as they are. *)
LEMMA HeldStep ==
  ASSUME HeldFitsHere, [Next]_vars
  PROVE  HeldFitsHere'
  <1>1. UNCHANGED <<reg, name>>
    BY DEF Next, vars, Refuse, Send, Receive, TryAgain, TimeOut, InverterStep, LateStep, Lose
  <1>2. Object' = Object
    BY <1>1 DEF Object
  <1>3. (Numeric' <=> Numeric) /\ \A data : Answer(data)' = Answer(data)
    BY <1>1, SameValues
  <1>. QED
    BY <1>1, <1>2, <1>3 DEF HeldFitsHere

(* A value is printed, told or sent only if it fits its variant; a frame    *)
(* that is late was told when it was sent, and a command that is over       *)
(* leaves no frame and no answer behind.                                    *)
THEOREM TypeCorrect ==
  ASSUME RegistryFits
  PROVE  Spec => []TypeOK
  <1>1. ToolInv /\ ValueInv => TypeOK
    <2>. SUFFICES ASSUME ToolInv, ValueInv
                  PROVE  TypeOK
      OBVIOUS
    <2>1. Len(up) <= 1
      BY DEF ToolInv
    <2>2. Len(down) <= 1
      <3>1. CASE down = << >>
        BY <3>1
      <3>2. CASE down # << >>
        <4>1. down = <<device>>
          BY <3>2 DEF ValueInv, Waiting
        <4>. QED
          BY <4>1
      <3>. QED
        BY <3>1, <3>2
    <2>3. pc \in {"idle", "await"} /\ cmd \in Commands
      BY DEF ToolInv, ValueInv
    <2>4. (pc = "idle" => up = << >> /\ down = << >>) /\ (shown.kind = "Ok" => Proper(shown.value))
      BY DEF ValueInv, Reported
    <2>5. \A f \in late : f.command = "write" /\ f.value \in told
      BY DEF ToolInv, ValueInv
    <2>6. \A v \in told : Proper(v)
      BY DEF ValueInv
    <2>. QED
      BY <2>1, <2>2, <2>3, <2>4, <2>5, <2>6 DEF TypeOK
  <1>2. Init => ToolInv /\ ValueInv
    BY InitTool, InitValue
  <1>3. ToolInv /\ ValueInv /\ [Next]_vars => ToolInv' /\ ValueInv'
    BY ToolStep, ValueStep
  <1>. QED
    BY <1>1, <1>2, <1>3, PTL DEF Spec

(* "Values are validated against the rct.py ruleset before sending"         *)
(* (README.md): although validate looks at the value before encode_for      *)
(* changes it and the inverter keeps an ENUM in another width, what the     *)
(* object holds is in the range of its rule, with no more decimals than the *)
(* rule allows.                                                             *)
THEOREM InRangeHeld ==
  ASSUME RegistryFits, HeldFits, EnumSize = 4
  PROVE  Spec => []HeldInRange
  <1>1. ToolInv /\ ValueInv /\ HeldFitsHere => HeldInRange
    <2>. SUFFICES ASSUME ToolInv, ValueInv, HeldFitsHere,
                         Numeric, HasRule(name), WRITABLE[name].range
                  PROVE  InRule(WRITABLE[name], Reading)
      BY DEF HeldInRange
    <2>1. CASE device \in Held[Object.response_data_type]
      BY <2>1 DEF HeldFitsHere, Answer, Reading
    <2>2. CASE \E raw \in Inputs : Allowed(raw) /\ device = Kept(Type, Encoded(raw).value)
      <3>1. PICK raw \in Inputs : Allowed(raw) /\ device = Kept(Type, Encoded(raw).value)
        BY <2>2
      <3>2. PICK v : v = Entered(raw).value
        OBVIOUS
      <3>3. Same(v, Reading)
        BY <3>1, <3>2, RoundTrip DEF ValueInv, Answer, Reading
      <3>4. InRule(WRITABLE[name], v)
        BY <3>1, <3>2, AllowedFacts DEF ValueInv
      <3>. QED
        BY <3>3, <3>4 DEF Same, InRule, InRange, AtMost
    <2>. QED
      BY <2>1, <2>2 DEF ToolInv, HeldIsAllowed, Numeric
  <1>2. Init => ToolInv /\ ValueInv /\ HeldFitsHere
    BY InitTool, InitValue, InitHeld
  <1>3. ToolInv /\ ValueInv /\ HeldFitsHere /\ [Next]_vars
          => ToolInv' /\ ValueInv' /\ HeldFitsHere'
    BY ToolStep, ValueStep, HeldStep
  <1>. QED
    BY <1>1, <1>2, <1>3, PTL DEF Spec

(* What an allowed input is parsed to is the number that was typed, or its  *)
(* low bytes in the object's width.                                         *)
LEMMA EnteredMeans ==
  ASSUME FitsHere, NEW raw \in Inputs, Allowed(raw), raw.kind = "number",
         NEW w, Same(Entered(raw).value, w)
  PROVE  Means(raw, w)
  <1>1. PICK v : v = Entered(raw).value
    OBVIOUS
  <1>2. CASE v = F32(raw.whole, raw.ticks)
    <2>1. Same(w, raw)
      BY <1>1, <1>2 DEF Same, F32
    <2>. QED
      BY <2>1 DEF Means
  <1>3. CASE /\ Integral(Type) /\ ~raw.dot
             /\ v = Num(WireVariant[Type], Cast(raw.whole, WireVariant[Type]))
    <2>1. Same(w, Num("I32", Cast(raw.whole, WireVariant[Type])))
      BY <1>1, <1>3 DEF Same, Num
    <2>. QED
      BY <1>3, <2>1 DEF Means, Type
  <1>4. raw.kind # "word"
    OBVIOUS
  <1>. QED
    BY <1>1, <1>2, <1>3, <1>4, AllowedFacts

(* After a set that reports success the object holds the number that was    *)
(* typed, or, where it was too wide for the object, its low bytes in the    *)
(* object's own width, or that of an earlier set that had timed out and     *)
(* whose frame came late.                                                   *)
THEOREM TypedIsHeld ==
  ASSUME RegistryFits, EnumSize = 4
  PROVE  Spec => []SetsWhatWasTyped
  <1>1. ToolInv /\ ValueInv /\ HeldIsTold => SetsWhatWasTyped
    <2>. SUFFICES ASSUME ToolInv, ValueInv, HeldIsTold,
                         Numeric, cmd.op = "set", shown.kind = "Ok", cmd.raw.kind = "number"
                  PROVE  \/ Means(cmd.raw, Reading)
                         \/ \E v \in told \ {shown.value} : Same(v, Reading)
      BY DEF SetsWhatWasTyped
    <2>1. /\ FitsHere /\ cmd.raw \in Inputs /\ Allowed(cmd.raw)
          /\ shown.value = Entered(cmd.raw).value /\ HoldsSent
      BY DEF ValueInv, Reported
    <2>2. Answer(device).kind = "Ok"
      BY <2>1, RoundTrip DEF HoldsSent
    <2>3. PICK v \in told : Same(v, Reading)
      BY <2>2 DEF HeldIsTold
    <2>4. CASE v = shown.value
      BY <2>1, <2>3, <2>4, EnteredMeans
    <2>. QED
      BY <2>3, <2>4
  <1>2. Init => ToolInv /\ ValueInv /\ HeldIsTold
    BY InitTool, InitValue, InitTold
  <1>3. ToolInv /\ ValueInv /\ HeldIsTold /\ [Next]_vars
          => ToolInv' /\ ValueInv' /\ HeldIsTold'
    BY ToolStep, ValueStep, ToldStep
  <1>. QED
    BY <1>1, <1>2, <1>3, PTL DEF Spec

(* A get prints what the last command has printed, or what was sent since:  *)
(* the value comes back from the inverter as the number that it went there. *)
THEOREM ShownIsTold ==
  ASSUME RegistryFits, EnumSize = 4
  PROVE  Spec => GetShowsWhatSetShowed
  <1>1. ToolInv /\ ValueInv /\ HeldIsTold /\ [Next]_vars
          => [Numeric /\ HasRule(name) /\ cmd'.op = "get" /\ shown' # shown /\ shown'.kind = "Ok"
                => \E v \in told : Same(v, shown'.value)]_vars
    <2>. SUFFICES ASSUME ToolInv, ValueInv, HeldIsTold, [Next]_vars,
                         Numeric, cmd'.op = "get", shown' # shown, shown'.kind = "Ok"
                  PROVE  \E v \in told : Same(v, shown'.value)
      OBVIOUS
    <2>1. CASE Refuse
      BY <2>1 DEF Refuse
    <2>2. CASE Send
      BY <2>2 DEF Send, Nothing
    <2>3. CASE Receive
      <3>1. /\ pc = "await" /\ down # << >> /\ cmd' = cmd
            /\ shown' = IF down[1] = << >> THEN Err("EmptyPayload") ELSE Answered
        BY <2>3 DEF Receive
      <3>2. down[1] = device
        BY <3>1 DEF ValueInv, Waiting
      <3>3. shown' = Answered
        BY <3>1 DEF Err
      <3>4. shown' = Answer(device)
        BY <3>1, <3>2, <3>3 DEF Answered, Answer
      <3>. QED
        BY <3>4 DEF HeldIsTold, Reading, Answer
    <2>4. CASE TimeOut
      BY <2>4 DEF TimeOut, Err
    <2>5. CASE TryAgain \/ InverterStep \/ LateStep \/ Lose \/ UNCHANGED vars
      BY <2>5 DEF TryAgain, InverterStep, LateStep, Lose, vars
    <2>. QED
      BY <2>1, <2>2, <2>3, <2>4, <2>5 DEF Next
  <1>2. Init => ToolInv /\ ValueInv /\ HeldIsTold
    BY InitTool, InitValue, InitTold
  <1>3. ToolInv /\ ValueInv /\ HeldIsTold /\ [Next]_vars
          => ToolInv' /\ ValueInv' /\ HeldIsTold'
    BY ToolStep, ValueStep, ToldStep
  <1>. QED
    BY <1>1, <1>2, <1>3, PTL DEF Spec, GetShowsWhatSetShowed
=============================================================================
