--------------------------------- MODULE RctTool ---------------------------------
(***************************************************************************)
(* The commands get and set of the rct tool (src/examples/rct.rs) from     *)
(* what the operator types to what an object of the inverter holds, and    *)
(* back: registry, parse_value, validate, encode_for and decode_value in   *)
(* one line.  The commands of one behaviour are about one parameter; how   *)
(* often a frame is tried is in SyncClient.                                *)
(***************************************************************************)
EXTENDS Writable, FiniteSets

CONSTANTS
  Files,       \* the registry.csv the tool may be built with: sequences of rows
  Parameters,  \* names the operator gives
  Inputs,      \* what may be typed as a value
  Held,        \* Held[t]: bytes an object of data type t may hold at first
  EnumSize,    \* the bytes in which the inverter keeps and sends an ENUM
  Doubts       \* bound: values the object may have when a set is sent

Ticks == 0..9999

(* What is typed is a word or a decimal; what an object of a type holds are  *)
(* bytes, for a float those of a number.                                    *)
ASSUME ToolAssumption ==
  /\ \A raw \in Inputs :
       \/ raw.kind = "word"
       \/ /\ raw.kind = "number" /\ raw.dot \in BOOLEAN
          /\ raw.whole \in Int /\ raw.ticks \in Ticks
          /\ ~raw.dot => raw.ticks = 0
  /\ \A t \in DOMAIN ReadVariant \ {"Float", "String"} : Held[t] \subseteq Seq(0..255)
  /\ EnumSize \in Nat \ {0}

VARIABLES
  reg,         \* the registry
  name,        \* the parameter of the commands
  cmd,         \* the command, or the last one
  pc,          \* "idle" or "await" (an answer)
  up,          \* the frame of the command on its way to the inverter, if any
  late,        \* writes that were still on their way when their try timed out
  down,        \* the payload on its way back, if any
  device,      \* the bytes the object of that name holds
  shown,       \* what the command printed in the end
  told         \* history: the value printed last, and those sent since

vars == <<reg, name, cmd, pc, up, late, down, device, shown, told>>

(* What is typed does not matter without --yes. *)
Command(op, raw, yes) == [op |-> op, raw |-> raw, yes |-> yes]
Commands == {Command("get", Word("other"), FALSE), Command("set", Word("other"), FALSE)}
              \cup {Command("set", raw, TRUE) : raw \in Inputs}

Known    == name \in DOMAIN reg.by_name
Object   == reg.by_name[name]
Nothing  == [kind |-> "none"]

-----------------------------------------------------------------------------
(* Cmd::Get and Cmd::Set up to the first frame                             *)

ReadFrame     == [command |-> "read"]
WriteFrame(v) ==
  LET payload == EncodeFor(Object.request_data_type, v)
  IN  IF payload.kind # "Ok" THEN payload
      ELSE Ok([command |-> "write", payload |-> payload.value, value |-> v])

Checked(v) ==
  IF Validate(reg, name, v) = "Ok" THEN WriteFrame(v) ELSE Err(Validate(reg, name, v))

Parsed(k) ==
  LET v == ParseValue(reg, name, k.raw)
  IN  IF v.kind = "Ok" THEN Checked(v.value) ELSE v

(* Mutant: the registry is not asked before parse_value is. *)
PreparedUnknown(k) ==
  CASE k.op = "set" /\ ~k.yes -> Err("refused")
    [] k.op = "get" /\ ~Known -> Err("InvalidParameter")
    [] k.op = "get" /\ Known -> Ok(ReadFrame)
    [] k.op = "set" /\ k.yes -> Parsed(k)

(* The frame to send, or why there is none. *)
Prepared(k) ==
  CASE k.op = "set" /\ ~k.yes -> Err("refused")
    [] (k.op = "get" \/ k.yes) /\ ~Known -> Err("InvalidParameter")
    [] k.op = "get" /\ Known -> Ok(ReadFrame)
    [] k.op = "set" /\ k.yes /\ Known -> Parsed(k)

Refuse ==
  /\ pc = "idle"
  /\ \E k \in Commands :
       /\ Prepared(k).kind # "Ok"
       /\ cmd' = k
       /\ shown' = Prepared(k)
  /\ UNCHANGED <<reg, name, pc, up, late, down, device, told>>

Send ==
  /\ pc = "idle"
  /\ \E k \in Commands :
       /\ Prepared(k).kind = "Ok"
       /\ k.op = "get" \/ Cardinality(told) <= Doubts
       /\ cmd' = k
       /\ up' = <<Prepared(k).value>>
  /\ pc' = "await"
  /\ shown' = Nothing
  /\ down' = << >>
  /\ told' = IF up'[1].command = "write" THEN told \cup {up'[1].value} ELSE told
  /\ UNCHANGED <<reg, name, late, device>>

-----------------------------------------------------------------------------
(* Client::read and Client::write from the first frame on                  *)

(* A set prints the value it has sent, a get the one it has decoded.        *)
Answered ==
  LET answer == DecodeValue(Object.response_data_type, down[1])
  IN  IF cmd.op = "set" /\ answer.kind = "Ok"
      THEN Ok(ParseValue(reg, name, cmd.raw).value) ELSE answer

Receive ==
  /\ pc = "await" /\ down # << >>
  /\ shown' = IF down[1] = << >> THEN Err("EmptyPayload") ELSE Answered
  /\ told' = IF shown'.kind = "Ok" THEN {shown'.value} \cup {f.value : f \in late} ELSE told
  /\ pc' = "idle"
  /\ down' = << >>
  /\ UNCHANGED <<reg, name, cmd, up, late, device>>

(* What is still on its way when a try times out may get there later. *)
Unanswered == {f \in {up[i] : i \in 1..Len(up)} : f.command = "write"}

(* A try has timed out: the same frame once more. *)
TryAgain ==
  /\ pc = "await" /\ down = << >>
  /\ up' = <<Prepared(cmd).value>>
  /\ late' = late \cup Unanswered
  /\ UNCHANGED <<reg, name, cmd, pc, down, device, shown, told>>

(* The last try has timed out. *)
TimeOut ==
  /\ pc = "await" /\ down = << >>
  /\ shown' = Err("Timeout")
  /\ pc' = "idle"
  /\ up' = << >>
  /\ late' = late \cup Unanswered
  /\ UNCHANGED <<reg, name, cmd, down, device, told>>

-----------------------------------------------------------------------------
(* The inverter (external): it keeps what it is sent, an ENUM in EnumSize  *)
(* bytes, and answers with what it holds, or not at all.                   *)

Kept(type, payload) ==
  IF type = "Enum"
  THEN [i \in 1..EnumSize |-> IF i = EnumSize THEN payload[1] ELSE 0] ELSE payload

InverterStep ==
  /\ up # << >>
  /\ device' \in IF up[1].command = "write"
                 THEN {Kept(Object.request_data_type, up[1].payload)} ELSE {device}
  /\ down' \in {<<device'>>, << >>}
  /\ up' = << >>
  /\ UNCHANGED <<reg, name, cmd, pc, late, shown, told>>

(* A write gets there after its command is over, nobody hears the answer;   *)
(* with the tries of the command there may be more of them.  While a        *)
(* command waits this step would commute with those of the command.         *)
LateStep ==
  /\ pc = "idle"
  /\ \E f \in late : /\ device' = Kept(Object.request_data_type, f.payload)
                     /\ late' \in {late, late \ {f}}
  /\ UNCHANGED <<reg, name, cmd, pc, up, down, shown, told>>

(* A frame may also be lost before the inverter has it. *)
Lose ==
  /\ up # << >>
  /\ up' = << >>
  /\ UNCHANGED <<reg, name, cmd, pc, late, down, device, shown, told>>

Init ==
  /\ reg \in {Build(rows) : rows \in Files}
  /\ name \in Parameters
  /\ cmd \in Commands /\ cmd.op = "get"
  /\ pc = "idle" /\ up = << >> /\ late = {} /\ down = << >>
  /\ device \in IF Known THEN Held[Object.response_data_type] ELSE {<< >>}
  /\ shown = Nothing
  /\ told = IF Known /\ DecodeValue(Object.response_data_type, device).kind = "Ok"
            THEN {DecodeValue(Object.response_data_type, device).value} ELSE {}

Next == Refuse \/ Send \/ Receive \/ TryAgain \/ TimeOut \/ InverterStep \/ LateStep \/ Lose

Spec == Init /\ [][Next]_vars

-----------------------------------------------------------------------------
(* Properties.                                                             *)

(* A value of its variant: nothing that does not fit its width. *)
Proper(v) ==
  /\ v.variant = "Bool" => v.whole \in {0, 1}
  /\ v.variant \in DOMAIN Width \ {"F32"} => v = Num(v.variant, Cast(v.whole, v.variant))

(* What data/registry.csv says of the objects that have a rule, and what    *)
(* validate() and decode_value rely on without looking: an object is read   *)
(* in the type it is written in, and encode_for leaves an integer alone     *)
(* that the rule allows.                                                    *)
Integral(type) == type \in DOMAIN WireVariant \ {"Bool", "Float", "String"}

RuleFits(rule, type) ==
  rule.range /\ Integral(type) =>
    /\ rule.decimals = 0 /\ rule.min.ticks = 0 /\ rule.max.ticks = 0
    /\ \A n \in rule.min.whole..rule.max.whole : Cast(n, WireVariant[type]) = n

RegistryFits ==
  \A rows \in Files :
    LET objects == Build(rows).by_name
    IN  \A n \in DOMAIN objects \cap DOMAIN WRITABLE :
          /\ objects[n].request_data_type = objects[n].response_data_type
          /\ RuleFits(WRITABLE[n], objects[n].request_data_type)

(* In the range of a rule, with no more decimals than it allows. *)
InRule(rule, v) == InRange(rule, v) /\ v.ticks % 10^(4 - rule.decimals) = 0

(* The inverter keeps an object in the range of its rule before the first    *)
(* write.                                                                   *)
HeldFits ==
  \A rows \in Files :
    LET objects == Build(rows).by_name
    IN  \A n \in DOMAIN objects \cap DOMAIN WRITABLE :
          WRITABLE[n].range =>
            LET type == objects[n].response_data_type
            IN  type \in DOMAIN ReadVariant \ {"String"} =>
                  \A data \in Held[type] : InRule(WRITABLE[n], DecodeValue(type, data).value)

(* Types: the values printed fit their variant. *)
TypeOK ==
  /\ pc \in {"idle", "await"}
  /\ cmd \in Commands
  /\ Len(up) <= 1 /\ Len(down) <= 1
  /\ pc = "idle" => up = << >> /\ down = << >>
  /\ \A f \in late : f.command = "write" /\ f.value \in told
  /\ shown.kind = "Ok" => Proper(shown.value)
  /\ \A v \in told : Proper(v)

Numeric == Known /\ Object.response_data_type \in DOMAIN ReadVariant \ {"String"}
Reading == DecodeValue(Object.response_data_type, device).value

(* "Values are validated against the rct.py ruleset before sending"         *)
(* (README.md): validate() looks at the value before encode_for changes it, *)
(* all the same what the inverter ends up with is in the range of the rule  *)
(* and has no more decimals than it allows.                                 *)
HeldInRange ==
  Numeric /\ HasRule(name) /\ WRITABLE[name].range => InRule(WRITABLE[name], Reading)

Same(v, w) == v.whole = w.whole /\ v.ticks = w.ticks

(* What the operator typed or, of an integer that is too wide for the       *)
(* object, the low bytes that parse_value keeps in the object's own width.  *)
Means(raw, v) ==
  \/ Same(v, raw)
  \/ /\ Integral(Object.request_data_type) /\ ~raw.dot
     /\ Same(v, Num("I32", Cast(raw.whole, WireVariant[Object.request_data_type])))

(* After a set that reports success the object holds the number that was    *)
(* typed, unless a write of an earlier set, which had timed out, comes late *)
(* (client.rs gives up after its tries, the frame is not taken back).       *)
SetsWhatWasTyped ==
  Numeric /\ cmd.op = "set" /\ shown.kind = "Ok" /\ cmd.raw.kind = "number" =>
    \/ Means(cmd.raw, Reading)
    \/ \E v \in told \ {shown.value} : Same(v, Reading)

(* A get shows what the last command showed, although a value is encoded,   *)
(* kept by the inverter, decoded and for an ENUM read in another width;     *)
(* sets that timed out may or may not count, then or later.                 *)
GetShowsWhatSetShowed ==
  [][Numeric /\ HasRule(name) /\ cmd'.op = "get" /\ shown' # shown /\ shown'.kind = "Ok"
       => \E v \in told : Same(v, shown'.value)]_vars

(* parse_value unwraps the registry entry of a rule; a registry that was    *)
(* generated anew and lost the object must not make the tool panic.         *)
NeverPanics == shown.kind # "panic"
=============================================================================
