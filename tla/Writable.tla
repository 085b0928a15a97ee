-------------------------------- MODULE Writable --------------------------------
(***************************************************************************)
(* The write rules (src/src/writable.rs): parse_value turns what an        *)
(* operator typed into a value, validate holds the value against the rule. *)
(***************************************************************************)
EXTENDS Registry

Dec(n, ticks)    == [whole |-> n, ticks |-> ticks]
Rule(lo, hi, d)  == [range |-> TRUE, min |-> lo, max |-> hi, decimals |-> d]
BoolRule         == [range |-> FALSE]

Rules ==
  {<<"power_mng.soc_strategy",          Rule(Dec(0, 0), Dec(5, 0), 0)>>,
   <<"power_mng.soc_target_set",        Rule(Dec(0, 0), Dec(1, 0), 2)>>,
   <<"power_mng.battery_power_extern",  Rule(Dec(-6000, 0), Dec(6000, 0), 2)>>,
   <<"power_mng.soc_min",               Rule(Dec(0, 500), Dec(1, 0), 2)>>,
   <<"power_mng.soc_max",               Rule(Dec(0, 0), Dec(1, 0), 2)>>,
   <<"power_mng.soc_charge_power",      Rule(Dec(-999999, 0), Dec(999999, 0), 2)>>,
   <<"power_mng.soc_charge",            Rule(Dec(-999999, 0), Dec(999999, 0), 2)>>,
   <<"p_rec_lim[1]",                    Rule(Dec(0, 0), Dec(6000, 0), 2)>>,
   <<"power_mng.use_grid_power_enable", BoolRule>>,
   <<"buf_v_control.power_reduction",   Rule(Dec(0, 0), Dec(1, 0), 3)>>}

(* Found by name. *)
RuleNames == {r[1] : r \in Rules}
WRITABLE == [name \in RuleNames |-> (CHOOSE r \in Rules : r[1] = name)[2]]

HasRule(name) == name \in RuleNames

AtMost(a, b) == a.whole < b.whole \/ (a.whole = b.whole /\ a.ticks <= b.ticks)

InRange(rule, v) == AtMost(rule.min, v) /\ AtMost(v, rule.max)

Number(v) == v.variant \in DOMAIN Width \ {"Bool"}

(* Mutant: the decimals are not counted. *)
VerdictAnyDecimals(rule, v) ==
  CASE ~rule.range /\ v.variant = "Bool" -> "Ok"
    [] rule.range /\ Number(v) /\ InRange(rule, v) -> "Ok"
    [] rule.range /\ Number(v) /\ ~InRange(rule, v) -> "ValueOutOfRange"
    [] OTHER -> "InvalidValue"

(* A rule wants a bool, or a number in its range that prints with no more   *)
(* decimals than it allows.                                                 *)
Verdict(rule, v) ==
  CASE ~rule.range /\ v.variant = "Bool" -> "Ok"
    [] rule.range /\ Number(v) /\ InRange(rule, v) /\ Decimals(v) <= rule.decimals -> "Ok"
    [] rule.range /\ Number(v) /\ ~InRange(rule, v) -> "ValueOutOfRange"
    [] OTHER -> "InvalidValue"

Validate(reg, name, v) ==
  IF HasRule(name) /\ name \in DOMAIN reg.by_name THEN Verdict(WRITABLE[name], v)
                                                  ELSE "InvalidValue"

-----------------------------------------------------------------------------
(* parse_value.  What was typed is a word (by what it is in lower case, any *)
(* but true and false is "other") or a number, with a point or without.     *)

Word(w)             == [kind |-> "word", word |-> w]
Typed(dot, n, ticks) == [kind |-> "number", dot |-> dot, whole |-> n, ticks |-> ticks]

IntVariant(type) ==
  IF type \in {"Enum", "Uint8", "Int8", "Uint16", "Int16", "Uint32"}
  THEN WireVariant[type] ELSE "I32"

(* Without a point, a number takes the width of the object, whatever it is. *)
ParseNumber(type, raw) ==
  CASE raw.dot -> F32(raw.whole, raw.ticks)
    [] ~raw.dot /\ type = "Float" -> F32(raw.whole, 0)
    [] ~raw.dot /\ type # "Float" ->
         Num(IntVariant(type), Cast(raw.whole, IntVariant(type)))

ParseWord(type, raw) ==
  IF type = "Bool" /\ raw.word \in {"true", "false"} THEN Ok(Bool(raw.word = "true"))
                                                     ELSE Err("InvalidValue")

(* A rule whose object is not in the registry makes it panic (unwrap).      *)
ParseValue(reg, name, raw) ==
  IF ~HasRule(name) THEN Err("InvalidValue")
  ELSE IF name \notin DOMAIN reg.by_name THEN Err("panic")
  ELSE LET type == reg.by_name[name].request_data_type
       IN  CASE raw.kind = "word" -> ParseWord(type, raw)
             [] raw.kind = "number" /\ type = "Bool" -> Err("InvalidValue")
             [] raw.kind = "number" /\ type # "Bool" -> Ok(ParseNumber(type, raw))
=============================================================================
