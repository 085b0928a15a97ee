------------------------------ MODULE SyncClient ------------------------------
(***************************************************************************)
(* The synchronous client (src/src/client.rs): read, write and             *)
(* write_and_verify with their retries over one pooled connection, and the *)
(* inverter at the other end.  The client is used by one thread at a time  *)
(* (its connection is in a RefCell).  Calls take and return values, frames *)
(* and the inverter's objects hold payloads; Codec converts.               *)
(***************************************************************************)
EXTENDS Retry, Codec

CONSTANTS
  Objects,      \* the objects the program reads and writes
  ObjectType,   \* their data types
  Inputs,       \* Inputs[o]: the values the program writes to object o
  Held,         \* Held[o]: what object o may hold at first
  EnumSize,     \* the bytes in which the inverter keeps and sends an ENUM
  Operations,   \* the calls made: subset of {"read", "write", "verify"}
  Faults,       \* what may go wrong, see AllFaults
  LinkLimit     \* bound: items in flight on a connection

(* "late":   the answer comes after the timeout;                            *)
(* "ignore": the inverter neither applies nor answers a request;            *)
(* "noack":  it applies a write and does not answer;                        *)
(* "refuse": it keeps its value and answers a write with that;              *)
(* "close":  it closes the connection; "down": it cannot be connected to;   *)
(* "stall":  it does not read and a write times out;                        *)
(* the rest is what is wrong with an answer: the parser reports an error,   *)
(* no payload, a payload that lacks its end, or the parser panics.          *)
BadAnswers == {"garbled", "empty", "short", "panic"}
AllFaults  == {"late", "ignore", "noack", "refuse", "close", "down", "stall"} \cup BadAnswers

(* A request behind the part of a frame that a stalled write leaves may be  *)
(* taken for the rest of it, and is then ignored.                           *)
ASSUME ClientAssumption ==
  /\ ObjectType \in [Objects -> DataTypes]
  /\ \A o \in Objects : NoValue \notin Inputs[o]
  /\ EnumSize \in Nat \ {0}
  /\ Operations \subseteq {"read", "write", "verify"}
  /\ Faults \subseteq AllFaults
  /\ "stall" \in Faults => "ignore" \in Faults
  /\ LinkLimit \in Nat \ {0}

VARIABLES
  pc,       \* "idle", "try" (try_exchange begins) or "await" (its read loop)
  call,     \* the call in progress, or the last one
  step,     \* where the call stands, see Retry
  conn,     \* the pooled connection
  up,       \* requests on it, not seen by the inverter
  down,     \* answers on it, not read by the client
  store,    \* what the inverter's objects hold
  result,   \* what the last call returned
  seen,     \* history: what the object of the call held since it began
  frames,   \* history: frames the call has written
  smooth    \* history: nothing but the acks of writes was lost in the call

vars == <<pc, call, step, conn, up, down, store, result, seen, frames, smooth>>
history  == <<seen, frames, smooth>>

Call(op, o, v) == [op |-> op, object |-> o, value |-> v]
Calls ==
  {Call("read", o, NoValue) : o \in {p \in Objects : "read" \in Operations}}
    \cup UNION {{Call(op, o, v) : op \in Operations \ {"read"}, v \in Inputs[o]} : o \in Objects}

(* The payload of a call's frame: a READ has none. *)
Payload(k) ==
  IF k.op = "read" THEN Ok(<< >>) ELSE EncodeFor(ObjectType[k.object], k.value)

Decode(k, data) == DecodeValue(ObjectType[k.object], data)

(* The frame that call k sends at step s. *)
Frame(k, s) == Request([k EXCEPT !.value = Payload(k).value], s)

-----------------------------------------------------------------------------
(* read, write, write_and_verify                                           *)

Begin ==
  /\ pc = "idle"
  /\ \E k \in Calls :
       /\ Payload(k).kind = "Ok"
       /\ call' = k
       /\ step' = Start(k.op)
       /\ seen' = {store[k.object]}
  /\ pc' = "try"
  /\ frames' = 0
  /\ smooth' = (conn # "dead")
  /\ result' = NoResult
  /\ UNCHANGED <<conn, up, down, store>>

(* encode_for fails: the call returns before it has sent anything. *)
BeginInvalid ==
  /\ pc = "idle"
  /\ \E k \in Calls :
       /\ Payload(k).kind # "Ok"
       /\ call' = k
       /\ result' = [kind |-> Payload(k).kind, value |-> NoValue]
       /\ seen' = {store[k.object]}
  /\ frames' = 0
  /\ smooth' = FALSE
  /\ UNCHANGED <<pc, step, conn, up, down, store>>

(* The call makes its next exchange or returns. *)
Proceed(next) ==
  /\ step' = next.step
  /\ result' = next.result
  /\ pc' = IF next.result = NoResult THEN "try" ELSE "idle"
  /\ UNCHANGED call

Failed(e)    == Proceed(AfterError(step, e))
Succeeded(v) == Proceed(AfterValue(step, v, call.value))

-----------------------------------------------------------------------------
(* try_exchange                                                            *)

Connect ==
  /\ pc = "try" /\ conn = "none"
  /\ conn' = "live"
  /\ up' = << >> /\ down' = << >>
  /\ UNCHANGED <<pc, call, step, store, result, history>>

ConnectFail ==
  /\ pc = "try" /\ conn = "none"
  /\ "down" \in Faults
  /\ \E e \in {"Io", "Timeout"} : Failed(e)
  /\ smooth' = FALSE
  /\ UNCHANGED <<conn, up, down, store, seen, frames>>

(* A write to a connection the inverter has closed may still succeed. *)
Send ==
  /\ pc = "try" /\ conn # "none"
  /\ Len(up) + Len(down) < LinkLimit
  /\ up' = IF conn = "live" THEN Append(up, Frame(call, step)) ELSE up
  /\ frames' = frames + 1
  /\ pc' = "await"
  /\ UNCHANGED <<call, step, conn, down, store, result, seen, smooth>>

(* write_all fails, on a live connection by the write timeout.  The error   *)
(* goes up by `?`; the connection stays in the pool.                        *)
SendFail ==
  /\ pc = "try"
  /\ conn = "dead" \/ (conn = "live" /\ "stall" \in Faults)
  /\ Failed("Io")
  /\ smooth' = FALSE
  /\ UNCHANGED <<conn, up, down, store, seen, frames>>

(* A read returns one or more answers; the parser stops behind the first    *)
(* and the rest of the buffer is dropped.  Where it stops inside an answer, *)
(* what read() had not returned of it is taken to have no start token: the  *)
(* next exchange passes over it.                                            *)
ReadAnswer ==
  \E n \in 1..Len(down) : down' = SubSeq(down, n + 1, Len(down))

Complete == pc = "await" /\ down # << >> /\ Head(down).kind = "ok"

AwaitAnswer ==
  /\ Complete /\ Head(down).payload # << >>
  /\ Decode(call, Head(down).payload).kind = "Ok"
  /\ ReadAnswer
  /\ Succeeded(Decode(call, Head(down).payload).value)
  /\ UNCHANGED <<conn, up, store, history>>

(* A parser error or an empty payload: the connection stays in the pool. *)
AwaitBad ==
  /\ pc = "await" /\ down # << >>
  /\ Head(down).kind = "garbled" \/ (Complete /\ Head(down).payload = << >>)
  /\ ReadAnswer
  /\ Failed(IF Complete THEN "EmptyPayload" ELSE "Frame")
  /\ UNCHANGED <<conn, up, store, history>>

(* A payload that does not decode forces a reconnect. *)
AwaitUndecodable ==
  /\ Complete /\ Head(down).payload # << >>
  /\ Decode(call, Head(down).payload).kind # "Ok"
  /\ conn' = "none" /\ up' = << >> /\ down' = << >>
  /\ Failed(Decode(call, Head(down).payload).kind)
  /\ UNCHANGED <<store, history>>

(* The parser panics: the call unwinds and the connection stays. *)
AwaitPanic ==
  /\ pc = "await" /\ down # << >>
  /\ Head(down).kind = "panic"
  /\ ReadAnswer
  /\ Proceed(Done("panic", NoValue))
  /\ UNCHANGED <<conn, up, store, history>>

(* Mutant: the deadline does not leave the inverter its time. *)
AwaitTimeoutEarly ==
  /\ pc = "await" /\ conn = "live" /\ down = << >>
  /\ Failed("Timeout")
  /\ smooth' = (smooth /\ up = << >>)
  /\ UNCHANGED <<conn, up, down, store, seen, frames>>

(* The deadline passes.  An inverter that is not late has then seen the     *)
(* request and does not answer it.                                          *)
AwaitTimeout ==
  /\ pc = "await" /\ conn = "live" /\ down = << >>
  /\ up = << >> \/ "late" \in Faults
  /\ Failed("Timeout")
  /\ smooth' = (smooth /\ up = << >>)
  /\ UNCHANGED <<conn, up, down, store, seen, frames>>

(* Mutant: the read loop goes on at the end of file. *)
AwaitEofForever ==
  /\ pc = "await" /\ conn = "dead" /\ down = << >>
  /\ UNCHANGED vars

(* End of file counts as a timeout; a reset connection is an I/O error.     *)
AwaitEof ==
  /\ pc = "await" /\ conn = "dead" /\ down = << >>
  /\ \E e \in {"Timeout", "Io"} : Failed(e)
  /\ UNCHANGED <<conn, up, down, store, history>>

ClientStep ==
  \/ Connect \/ ConnectFail \/ Send \/ SendFail \/ AwaitAnswer \/ AwaitBad
  \/ AwaitUndecodable \/ AwaitPanic \/ AwaitTimeout \/ AwaitEof

-----------------------------------------------------------------------------
(* The inverter (external): it handles requests one by one and answers     *)
(* with what the object holds.  It keeps what it is sent, an ENUM in       *)
(* EnumSize bytes.                                                         *)

Kept(object, payload) ==
  IF ObjectType[object] = "Enum"
  THEN [i \in 1..EnumSize |-> IF i = EnumSize THEN payload[1] ELSE 0] ELSE payload

Hold(object, data) ==
  /\ store' = [store EXCEPT ![object] = data]
  /\ seen' = IF pc # "idle" /\ object = call.object THEN seen \cup {data} ELSE seen

Answer(k, data) ==
  [kind |-> IF k \in {"empty", "short"} THEN "ok" ELSE k,
   payload |-> CASE k = "short" -> SubSeq(data, 1, Len(data) - 1)
                 [] k \in {"ok", "panic"} -> data
                 [] k \in {"empty", "garbled"} -> << >>]

Handle(applied, answers) ==
  /\ conn = "live" /\ up # << >>
  /\ up' = Tail(up)
  /\ IF Head(up).command = "write" /\ applied
     THEN Hold(Head(up).object, Kept(Head(up).object, Head(up).value))
     ELSE UNCHANGED <<store, seen>>
  /\ \/ /\ answers = {}
        /\ smooth' = (smooth /\ applied)
        /\ UNCHANGED down
     \/ \E k \in answers :
          /\ down' = Append(down, Answer(k, store'[Head(up).object]))
          /\ smooth' = (smooth /\ applied /\ k = "ok")
  /\ UNCHANGED <<pc, call, step, conn, result, frames>>

InverterAnswer == Handle(TRUE, {"ok"} \cup (BadAnswers \cap Faults))
InverterRefuse == "refuse" \in Faults /\ Handle(FALSE, {"ok"})
InverterIgnore == "ignore" \in Faults /\ Handle(FALSE, {})

InverterNoAck ==
  /\ "noack" \in Faults
  /\ up # << >> /\ Head(up).command = "write"
  /\ Handle(TRUE, {})

InverterClose ==
  /\ "close" \in Faults
  /\ conn = "live"
  /\ conn' = "dead"
  /\ up' = << >>
  /\ down' \in {down, << >>}
  /\ smooth' = FALSE
  /\ UNCHANGED <<pc, call, step, store, result, seen, frames>>

InverterStep ==
  \/ InverterAnswer \/ InverterRefuse \/ InverterNoAck \/ InverterIgnore
  \/ InverterClose

Init ==
  /\ pc = "idle"
  /\ call \in Calls
  /\ step = Start("read")
  /\ conn = "none" /\ up = << >> /\ down = << >>
  /\ store \in {h \in [Objects -> UNION {Held[o] : o \in Objects}] : \A o \in Objects : h[o] \in Held[o]}
  /\ result = NoResult
  /\ seen = {} /\ frames = 0 /\ smooth = TRUE

Next == Begin \/ BeginInvalid \/ ClientStep \/ InverterStep

Spec == Init /\ [][Next]_vars

(* The call's thread runs; an inverter that is not late handles what it is  *)
(* sent within the timeout.                                                 *)
FairSpec ==
  Spec /\ WF_vars(ClientStep)
       /\ WF_vars(InverterAnswer \/ InverterRefuse \/ InverterNoAck \/ InverterIgnore)

-----------------------------------------------------------------------------
(* Properties.                                                             *)

(* What an object may hold: what it held at first, or a value as it is kept. *)
Payloads(o) ==
  Held[o] \cup {Kept(o, EncodeFor(ObjectType[o], v).value) :
                  v \in {w \in Inputs[o] : EncodeFor(ObjectType[o], w).kind = "Ok"}}

AllPayloads == UNION {Payloads(o) : o \in Objects}

Sent     == {Frame(k, s) : k \in {c \in Calls : Payload(c).kind = "Ok"}, s \in Steps}
Returned == {Answer(k, data) : k \in {"ok"} \cup BadAnswers, data \in AllPayloads}

(* Types, the range of the retry counters, and what objects may come to     *)
(* hold.                                                                    *)
TypeOK ==
  /\ pc \in {"idle", "try", "await"}
  /\ call \in Calls
  /\ step \in Steps
  /\ conn \in {"none", "live", "dead"}
  /\ up \in Seq(Sent) /\ down \in Seq(Returned)
  /\ store \in [Objects -> AllPayloads]
  /\ \A o \in Objects : store[o] \in Payloads(o)
  /\ seen \subseteq Payloads(call.object)
  /\ frames \in Nat /\ smooth \in BOOLEAN

(* A value returned by a call is one its own object held while the call was *)
(* going on, decoded by the object's type: no answer of an earlier          *)
(* exchange, of this or another object, is taken for it.                    *)
AnswerIsCurrent ==
  pc = "idle" /\ result.kind = "Ok" =>
    \E data \in seen : /\ Decode(call, data).kind = "Ok"
                      /\ Decode(call, data).value = result.value

(* The retries of a call are bounded: it never writes more frames than its  *)
(* loops allow.                                                             *)
RetryBudget == frames <= Budget(call.op)

(* A write_and_verify has returned, and nothing but acks was lost meanwhile *)
(* on a connection that was alive when it began.                            *)
AcksLostOnly == pc = "idle" /\ call.op = "verify" /\ result.kind # "none" /\ smooth

(* What is read after a write of v compares equal to v: the variants must   *)
(* match, so an ENUM is verified only if the caller gives a U32, a float    *)
(* only if he gives an F32.                                                 *)
Comparable(k) ==
  Decode(k, Kept(k.object, Payload(k).value)) = Ok(k.value)

(* Lost acknowledgements are no failure ("this method treats a write        *)
(* timeout as normal"): if nothing else goes wrong write_and_verify returns *)
(* the value, given in the variant that decode_value returns.               *)
LostAckTolerated ==
  AcksLostOnly /\ Comparable(call) => result = [kind |-> "Ok", value |-> call.value]

(* "Ok means the device answered with the value OR the read-back matches;   *)
(* only if the read-back differs (or also times out) is it an error"        *)
(* (write_and_verify): no error while the inverter holds what was written   *)
(* and answers the reads.                                                   *)
ErrorMeansDiffers ==
  AcksLostOnly /\ store[call.object] = Kept(call.object, Payload(call).value) =>
    result.kind = "Ok"

(* Every call returns: attempts, rounds and every wait for an answer are    *)
(* bounded, whatever the inverter does with the requests it is sent.        *)
CallsEnd == pc # "idle" ~> pc = "idle"

(* "Reconnects happen only when the inverter dropped the connection or an   *)
(* exchange failed" (client.rs) and "reconnects only after an error"        *)
(* (README.md): a call on a connection the inverter has closed gets rid of  *)
(* it.                                                                      *)
Reconnects == (pc = "try" /\ conn = "dead") ~> conn # "dead"
=============================================================================
