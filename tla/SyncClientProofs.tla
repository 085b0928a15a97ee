---------------------------- MODULE SyncClientProofs ----------------------------
(***************************************************************************)
(* Proofs about SyncClient for any objects, types and inputs, any number   *)
(* of retries and any faults.                                              *)
(***************************************************************************)
EXTENDS SyncClient, QueueFacts, RetryFacts

-----------------------------------------------------------------------------
(* Facts about calls and their frames.                                     *)

(* A call has an object, and a value of its inputs if it writes.           *)
LEMMA CallFacts ==
  ASSUME NEW k \in Calls
  PROVE  /\ k.object \in Objects
         /\ k.op # "read" => k.value \in Inputs[k.object]
         /\ k = Call(k.op, k.object, k.value)
  <1>1. CASE \E o \in Objects : k = Call("read", o, NoValue)
    BY <1>1 DEF Call
  <1>2. CASE \E o \in Objects : \E op \in Operations \ {"read"}, v \in Inputs[o] : k = Call(op, o, v)
    BY <1>2 DEF Call
  <1>. QED
    BY <1>1, <1>2 DEF Calls

(* A frame is about the object of its call and carries its payload.        *)
LEMMA FrameFacts ==
  ASSUME NEW k \in Calls, NEW s
  PROVE  /\ Frame(k, s).object = k.object
         /\ Frame(k, s).value = Payload(k).value
         /\ Frame(k, s).command = "write" => k.op # "read"
  <1>1. [k EXCEPT !.value = Payload(k).value] = Call(k.op, k.object, Payload(k).value)
    BY CallFacts DEF Call
  <1>. QED
    BY <1>1 DEF Frame, Request, Call

(* What a write leaves in the object. *)
LEMMA KeptFacts ==
  ASSUME NEW k \in Calls, k.op # "read", Payload(k).kind = "Ok"
  PROVE  Kept(k.object, Payload(k).value) \in Payloads(k.object)
  BY CallFacts DEF Payload, Payloads

-----------------------------------------------------------------------------
(* Type correctness.                                                       *)

(* A call in progress has a payload to send. *)
CallFits == pc # "idle" => Payload(call).kind = "Ok"

TypeInv == TypeOK /\ CallFits

(* What the end of an exchange does to the call. *)
LEMMA FailedFacts ==
  ASSUME TypeInv, NEW e, e # "Ok", Failed(e)
  PROVE  /\ pc' \in {"idle", "try"} /\ call' = call /\ step' \in Steps
         /\ result'.kind # "Ok"
  BY AfterErrorFacts DEF TypeInv, TypeOK, Failed, Proceed

(* The same for an exchange that returned a value,                         *)
LEMMA SucceededFacts ==
  ASSUME TypeInv, NEW v, Succeeded(v)
  PROVE  /\ pc' \in {"idle", "try"} /\ call' = call /\ step' \in Steps
         /\ result'.kind = "Ok" => result'.value = v
  BY AfterValueFacts DEF TypeInv, TypeOK, Succeeded, Proceed

(* and for one that unwinds.                                               *)
LEMMA PanickedFacts ==
  ASSUME TypeInv, Proceed(Done("panic", NoValue))
  PROVE  /\ pc' \in {"idle", "try"} /\ call' = call /\ step' \in Steps
         /\ result'.kind # "Ok"
  BY DoneFacts DEF TypeInv, Proceed

(* The parts of TypeInv that the client's steps leave alone. *)
LEMMA ClientTypes ==
  ASSUME TypeInv, pc # "idle",
         pc' \in {"idle", "try", "await"}, call' = call, step' \in Steps,
         conn' \in {"none", "live", "dead"},
         up' \in Seq(Sent), down' \in Seq(Returned),
         UNCHANGED <<store, seen>>, frames' \in Nat, smooth' \in BOOLEAN
  PROVE  TypeInv'
  <1>1. TypeOK'
    BY DEF TypeInv, TypeOK
  <1>2. CallFits'
    BY DEF TypeInv, CallFits, Payload
  <1>. QED
    BY <1>1, <1>2 DEF TypeInv

(* A read of answers. *)
LEMMA ReadAnswerFacts ==
  ASSUME TypeInv, ReadAnswer
  PROVE  /\ down' \in Seq(Returned)
         /\ Len(down) = 1 => down' = << >>
  <1>1. PICK n \in 1..Len(down) : down' = SubSeq(down, n + 1, Len(down))
    BY DEF ReadAnswer
  <1>2. down \in Seq(Returned)
    BY DEF TypeInv, TypeOK
  <1>3. down' \in Seq(Returned) /\ Len(down') = Len(down) - n
    BY <1>1, <1>2, SplitFacts
  <1>4. Len(down) = 1 => Len(down') = 0
    BY <1>3
  <1>. QED
    BY <1>3, <1>4, EmptyFacts

(* The steps of the client keep the types.                                 *)
LEMMA ClientTypeStep ==
  ASSUME TypeInv, ClientStep
  PROVE  TypeInv'
  <1>0. /\ << >> \in Seq(Sent) /\ << >> \in Seq(Returned)
        /\ up \in Seq(Sent) /\ down \in Seq(Returned)
        /\ call \in Calls /\ step \in Steps /\ frames \in Nat
        /\ conn \in {"none", "live", "dead"} /\ smooth \in BOOLEAN
    BY DEF TypeInv, TypeOK
  <1>1. CASE Connect
    BY <1>0, <1>1, ClientTypes DEF Connect, history
  <1>2. CASE ConnectFail
    <2>1. PICK e \in {"Io", "Timeout"} : Failed(e)
      BY <1>2 DEF ConnectFail
    <2>. QED
      BY <1>0, <1>2, <2>1, FailedFacts, ClientTypes DEF ConnectFail
  <1>3. CASE Send
    <2>1. Frame(call, step) \in Sent
      BY <1>0, <1>3 DEF Send, TypeInv, CallFits, Sent
    <2>2. up' \in Seq(Sent)
      BY <1>0, <1>3, <2>1, AppendFacts DEF Send
    <2>3. frames' \in Nat
      BY <1>0, <1>3 DEF Send
    <2>. QED
      BY <1>0, <1>3, <2>2, <2>3, ClientTypes DEF Send
  <1>4. CASE SendFail
    BY <1>0, <1>4, FailedFacts, ClientTypes DEF SendFail, history
  <1>5. CASE AwaitAnswer
    BY <1>0, <1>5, SucceededFacts, ReadAnswerFacts, ClientTypes
       DEF AwaitAnswer, Complete, history
  <1>6. CASE AwaitBad
    <2>1. PICK e \in {"EmptyPayload", "Frame"} : Failed(e)
      BY <1>6 DEF AwaitBad
    <2>. QED
      BY <1>0, <1>6, <2>1, FailedFacts, ReadAnswerFacts, ClientTypes DEF AwaitBad, history
  <1>7. CASE AwaitUndecodable
    BY <1>0, <1>7, FailedFacts, ClientTypes DEF AwaitUndecodable, Complete, history
  <1>8. CASE AwaitPanic
    BY <1>0, <1>8, PanickedFacts, ReadAnswerFacts, ClientTypes DEF AwaitPanic, history
  <1>9. CASE AwaitTimeout
    <2>1. smooth' \in BOOLEAN
      BY <1>9 DEF AwaitTimeout
    <2>. QED
      BY <1>0, <1>9, <2>1, FailedFacts, ClientTypes DEF AwaitTimeout
  <1>10. CASE AwaitEof
    <2>1. PICK e \in {"Timeout", "Io"} : Failed(e)
      BY <1>10 DEF AwaitEof
    <2>. QED
      BY <1>0, <1>10, <2>1, FailedFacts, ClientTypes DEF AwaitEof, history
  <1>. QED
    BY <1>1, <1>2, <1>3, <1>4, <1>5, <1>6, <1>7, <1>8, <1>9, <1>10 DEF ClientStep

(* The inverter handles a request: one that some call has sent. *)
LEMMA HandleTypes ==
  ASSUME TypeInv, NEW applied \in BOOLEAN, NEW answers, answers \subseteq {"ok"} \cup BadAnswers,
         Handle(applied, answers)
  PROVE  TypeInv'
  <1>0. /\ up \in Seq(Sent) /\ down \in Seq(Returned) /\ up # << >>
        /\ call \in Calls /\ step \in Steps /\ frames \in Nat
        /\ store \in [Objects -> AllPayloads]
        /\ \A o \in Objects : store[o] \in Payloads(o)
        /\ seen \subseteq Payloads(call.object)
    BY DEF TypeInv, TypeOK, Handle
  <1>1. Head(up) \in Sent /\ up' \in Seq(Sent)
    BY <1>0, TailFacts DEF Handle
  <1>2. PICK k \in Calls, s \in Steps : Head(up) = Frame(k, s) /\ Payload(k).kind = "Ok"
    BY <1>1 DEF Sent
  <1>3. /\ Head(up).object \in Objects
        /\ Head(up).command = "write" =>
             Kept(Head(up).object, Head(up).value) \in Payloads(Head(up).object)
    BY <1>2, CallFacts, FrameFacts, KeptFacts
  <1>4. /\ store' \in [Objects -> AllPayloads]
        /\ \A o \in Objects : store'[o] \in Payloads(o)
        /\ seen' \subseteq Payloads(call.object)
    <2>1. CASE Head(up).command = "write" /\ applied
      <3>1. Hold(Head(up).object, Kept(Head(up).object, Head(up).value))
        BY <2>1 DEF Handle
      <3>2. \A o \in Objects : Payloads(o) \subseteq AllPayloads
        BY DEF AllPayloads
      <3>. QED
        BY <1>0, <1>3, <2>1, <3>1, <3>2 DEF Hold
    <2>2. CASE ~(Head(up).command = "write" /\ applied)
      BY <1>0, <2>2 DEF Handle
    <2>. QED
      BY <2>1, <2>2
  <1>5. down' \in Seq(Returned)
    <2>1. store'[Head(up).object] \in AllPayloads
      BY <1>3, <1>4
    <2>2. \A a \in answers : Answer(a, store'[Head(up).object]) \in Returned
      BY <2>1 DEF Returned
    <2>. QED
      BY <1>0, <2>2, AppendFacts DEF Handle
  <1>6. smooth' \in BOOLEAN
    BY DEF Handle, TypeInv, TypeOK
  <1>7. UNCHANGED <<pc, call, step, conn, frames>>
    BY DEF Handle
  <1>8. TypeOK'
    BY <1>0, <1>1, <1>4, <1>5, <1>6, <1>7 DEF TypeInv, TypeOK
  <1>9. CallFits'
    BY <1>7 DEF TypeInv, CallFits, Payload
  <1>. QED
    BY <1>8, <1>9 DEF TypeInv

(* Every step keeps the types.                                             *)
LEMMA TypeStep == TypeInv /\ [Next]_vars => TypeInv'
  <1>. SUFFICES ASSUME TypeInv, [Next]_vars
                PROVE  TypeInv'
    OBVIOUS
  <1>1. CASE Begin
    <2>1. PICK k \in Calls : /\ Payload(k).kind = "Ok"
                             /\ call' = k /\ step' = Start(k.op)
                             /\ seen' = {store[k.object]}
      BY <1>1 DEF Begin
    <2>2. k.object \in Objects /\ step' \in Steps
      BY <2>1, CallFacts, StartType
    <2>3. seen' \subseteq Payloads(call'.object)
      BY <2>1, <2>2 DEF TypeInv, TypeOK
    <2>4. smooth' \in BOOLEAN
      BY <1>1 DEF Begin
    <2>5. TypeOK'
      BY <1>1, <2>1, <2>2, <2>3, <2>4 DEF Begin, TypeInv, TypeOK
    <2>6. CallFits'
      BY <2>1 DEF CallFits, Payload
    <2>. QED
      BY <2>5, <2>6 DEF TypeInv
  <1>2. CASE BeginInvalid
    <2>1. PICK k \in Calls : call' = k /\ seen' = {store[k.object]}
      BY <1>2 DEF BeginInvalid
    <2>2. seen' \subseteq Payloads(call'.object)
      BY <2>1, CallFacts DEF TypeInv, TypeOK
    <2>3. TypeOK'
      BY <1>2, <2>1, <2>2 DEF BeginInvalid, TypeInv, TypeOK
    <2>4. CallFits'
      BY <1>2 DEF BeginInvalid, CallFits
    <2>. QED
      BY <2>3, <2>4 DEF TypeInv
  <1>3. CASE ClientStep
    BY <1>3, ClientTypeStep
  <1>4. CASE InverterAnswer
    BY <1>4, HandleTypes DEF InverterAnswer
  <1>5. CASE InverterRefuse
    BY <1>5, HandleTypes DEF InverterRefuse
  <1>6. CASE InverterNoAck
    BY <1>6, HandleTypes DEF InverterNoAck
  <1>7. CASE InverterIgnore
    BY <1>7, HandleTypes DEF InverterIgnore
  <1>8. CASE InverterClose
    <2>0. << >> \in Seq(Sent) /\ << >> \in Seq(Returned) /\ down \in Seq(Returned)
      BY DEF TypeInv, TypeOK
    <2>1. up' \in Seq(Sent) /\ down' \in Seq(Returned)
      BY <1>8, <2>0 DEF InverterClose
    <2>2. /\ conn' \in {"none", "live", "dead"} /\ smooth' \in BOOLEAN
          /\ UNCHANGED <<pc, call, step, store, seen, frames>>
      BY <1>8 DEF InverterClose
    <2>3. TypeOK'
      BY <2>1, <2>2 DEF TypeInv, TypeOK
    <2>4. CallFits'
      BY <2>2 DEF TypeInv, CallFits, Payload
    <2>. QED
      BY <2>3, <2>4 DEF TypeInv
  <1>9. CASE UNCHANGED vars
    <2>1. TypeOK'
      BY <1>9 DEF vars, TypeInv, TypeOK
    <2>2. CallFits'
      BY <1>9 DEF vars, TypeInv, CallFits, Payload
    <2>. QED
      BY <2>1, <2>2 DEF TypeInv
  <1>. QED
    BY <1>1, <1>2, <1>3, <1>4, <1>5, <1>6, <1>7, <1>8, <1>9 DEF Next, InverterStep

(* At first nothing is in flight and the objects hold what they may.       *)
LEMMA InitTypes == Init => TypeInv
  <1>. SUFFICES ASSUME Init
                PROVE  TypeInv
    OBVIOUS
  <1>1. /\ store \in [Objects -> AllPayloads]
        /\ \A o \in Objects : store[o] \in Payloads(o)
    <2>1. \A o \in Objects : Held[o] \subseteq Payloads(o) /\ Payloads(o) \subseteq AllPayloads
      BY DEF Payloads, AllPayloads
    <2>2. store \in [Objects -> UNION {Held[o] : o \in Objects}]
      BY DEF Init
    <2>3. \A o \in Objects : store[o] \in Held[o]
      BY DEF Init
    <2>. QED
      BY <2>1, <2>2, <2>3
  <1>2. TypeOK
    BY <1>1, StartType DEF Init, TypeOK
  <1>3. CallFits
    BY DEF Init, CallFits
  <1>. QED
    BY <1>2, <1>3 DEF TypeInv

(* The variables keep their types: the loops of a call never leave their    *)
(* counters' ranges, and an object only ever holds what it held at first or *)
(* a value of its own type that a call has written.                         *)
THEOREM TypeCorrect == Spec => []TypeOK
  <1>1. TypeInv => TypeOK
    BY DEF TypeInv
  <1>. QED
    BY <1>1, InitTypes, TypeStep, PTL DEF Spec

-----------------------------------------------------------------------------
(* Answers are current, when the inverter is never late and the loss of the *)
(* end of a payload is noticed, as it is for every type of a fixed width.   *)

Cut(data) == SubSeq(data, 1, Len(data) - 1)

Punctual == "late" \notin Faults

CutsAreNoticed ==
  "short" \in Faults =>
    \A o \in Objects : \A data \in Payloads(o) :
      Cut(data) = << >> \/ DecodeValue(ObjectType[o], Cut(data)).kind # "Ok"

(* The payloads an answer to the present call may have. *)
Current(data) ==
  \/ data = << >> \/ data \in seen
  \/ "short" \in Faults /\ \E whole \in seen : data = Cut(whole)

(* Nothing is in flight but in an exchange, and then one request or answer, *)
(* about the object of the call.                                            *)
Quiet     == pc # "await" => up = << >> /\ down = << >>
Alone     == Len(up) + Len(down) <= 1
Upwards   == \A i \in 1..Len(up) : up[i].object = call.object
Downwards == \A i \in 1..Len(down) : down[i].kind = "ok" => Current(down[i].payload)
Closed    == conn # "live" => up = << >>
Witnessed == pc # "idle" => store[call.object] \in seen

Answered  == CutsAreNoticed => AnswerIsCurrent

Fresh == Quiet /\ Alone /\ Upwards /\ Downwards /\ Closed /\ Witnessed /\ Answered

(* After an exchange nothing is in flight. *)
LEMMA SilentFresh ==
  ASSUME TypeInv, Fresh,
         up' = << >>, down' = << >>, pc' \in {"idle", "try"},
         UNCHANGED <<call, store, seen>>, pc # "idle",
         CutsAreNoticed /\ result'.kind = "Ok" =>
           \E data \in seen : /\ Decode(call, data).kind = "Ok"
                             /\ Decode(call, data).value = result'.value
  PROVE  Fresh'
  <1>1. Len(<< >>) = 0
    OBVIOUS
  <1>2. Quiet' /\ Alone' /\ Upwards' /\ Downwards' /\ Closed'
    BY <1>1 DEF Quiet, Alone, Upwards, Downwards, Closed
  <1>3. Witnessed'
    BY DEF Fresh, Witnessed
  <1>4. Answered'
    BY DEF Answered, AnswerIsCurrent, Decode
  <1>. QED
    BY <1>2, <1>3, <1>4 DEF Fresh

(* The connection when an answer is read, or none is awaited any more. *)
LEMMA OneAnswer ==
  ASSUME TypeInv, Fresh, pc = "await", down # << >>
  PROVE  /\ up = << >> /\ Len(down) = 1
         /\ Head(down).kind = "ok" => Current(Head(down).payload)
  <1>1. up \in Seq(Sent) /\ down \in Seq(Returned)
    BY DEF TypeInv, TypeOK
  <1>2. Len(down) \in Nat \ {0} /\ Head(down) = down[1] /\ 1 \in 1..Len(down)
    BY <1>1, TailFacts
  <1>3. Len(up) \in Nat /\ (up = << >> <=> Len(up) = 0)
    BY <1>1, EmptyFacts
  <1>4. Len(up) = 0 /\ Len(down) = 1
    BY <1>2, <1>3 DEF Fresh, Alone
  <1>. QED
    BY <1>2, <1>3, <1>4 DEF Fresh, Downwards

(* The steps of the client: an exchange that ends leaves nothing in        *)
(* flight.                                                                 *)
LEMMA ClientFreshStep ==
  ASSUME Punctual, TypeInv, Fresh, ClientStep
  PROVE  Fresh'
  <1>1. CASE Connect
    BY <1>1 DEF Connect, history, Fresh, Quiet, Alone, Upwards, Downwards, Closed, Witnessed,
                Answered, AnswerIsCurrent
  <1>2. CASE ConnectFail
    <2>1. PICK e \in {"Io", "Timeout"} : Failed(e)
      BY <1>2 DEF ConnectFail
    <2>2. up = << >> /\ down = << >>
      BY <1>2 DEF ConnectFail, Fresh, Quiet
    <2>. QED
      BY <1>2, <2>1, <2>2, FailedFacts, SilentFresh DEF ConnectFail
  <1>3. CASE Send
    <2>0. /\ up = << >> /\ down = << >> /\ pc' = "await"
          /\ UNCHANGED <<call, down, store, seen, conn>>
      BY <1>3 DEF Send, Fresh, Quiet
    <2>1. up' = << >> \/ (up' = <<Frame(call, step)>> /\ conn = "live")
      BY <1>3, <2>0 DEF Send
    <2>2. Frame(call, step).object = call.object
      BY FrameFacts DEF TypeInv, TypeOK
    <2>3. /\ Len(up') \in {0, 1} /\ Len(down') = 0
          /\ \A i \in 1..Len(up') : up'[i] = Frame(call, step)
      BY <2>0, <2>1
    <2>4. Alone'
      BY <2>3 DEF Alone
    <2>5. Upwards'
      BY <2>0, <2>2, <2>3 DEF Upwards
    <2>6. Downwards'
      BY <2>3 DEF Downwards
    <2>7. Quiet' /\ Closed'
      BY <2>0, <2>1 DEF Quiet, Closed
    <2>8. Witnessed'
      BY <1>3, <2>0 DEF Send, Fresh, Witnessed
    <2>9. Answered'
      BY <2>0 DEF Answered, AnswerIsCurrent
    <2>. QED
      BY <2>4, <2>5, <2>6, <2>7, <2>8, <2>9 DEF Fresh
  <1>4. CASE SendFail
    <2>1. up = << >> /\ down = << >>
      BY <1>4 DEF SendFail, Fresh, Quiet
    <2>. QED
      BY <1>4, <2>1, FailedFacts, SilentFresh DEF SendFail, history
  <1>5. CASE AwaitAnswer
    <2> DEFINE data == Head(down).payload
    <2>1. /\ pc = "await" /\ down # << >> /\ data # << >>
          /\ Head(down).kind = "ok" /\ Decode(call, data).kind = "Ok"
          /\ ReadAnswer /\ Succeeded(Decode(call, data).value)
          /\ UNCHANGED <<up, store, seen>>
      BY <1>5 DEF AwaitAnswer, Complete, history
    <2>2. up = << >> /\ Len(down) = 1 /\ Current(data)
      BY <2>1, OneAnswer
    <2>3. CutsAreNoticed => data \in seen
      <3>1. ASSUME CutsAreNoticed, NEW whole \in seen, data = Cut(whole), "short" \in Faults
            PROVE  FALSE
        <4>1. whole \in Payloads(call.object) /\ call.object \in Objects
          BY CallFacts DEF TypeInv, TypeOK
        <4>. QED
          BY <2>1, <3>1, <4>1 DEF CutsAreNoticed, Decode
      <3>. QED
        BY <2>1, <2>2, <3>1 DEF Current
    <2>4. down' = << >>
      BY <2>1, <2>2, ReadAnswerFacts
    <2>5. result'.kind = "Ok" => result'.value = Decode(call, data).value
      BY <2>1, SucceededFacts
    <2>6. pc' \in {"idle", "try"} /\ call' = call
      BY <2>1, SucceededFacts
    <2>. QED
      BY <2>1, <2>2, <2>3, <2>4, <2>5, <2>6, SilentFresh
  <1>6. CASE AwaitBad
    <2>1. PICK e \in {"EmptyPayload", "Frame"} : Failed(e)
      BY <1>6 DEF AwaitBad
    <2>2. up = << >> /\ Len(down) = 1
      BY <1>6, OneAnswer DEF AwaitBad
    <2>3. down' = << >>
      BY <1>6, <2>2, ReadAnswerFacts DEF AwaitBad
    <2>. QED
      BY <1>6, <2>1, <2>2, <2>3, FailedFacts, SilentFresh DEF AwaitBad, history
  <1>7. CASE AwaitUndecodable
    BY <1>7, FailedFacts, SilentFresh DEF AwaitUndecodable, Complete, history
  <1>8. CASE AwaitPanic
    <2>1. up = << >> /\ Len(down) = 1
      BY <1>8, OneAnswer DEF AwaitPanic
    <2>2. down' = << >>
      BY <1>8, <2>1, ReadAnswerFacts DEF AwaitPanic
    <2>. QED
      BY <1>8, <2>1, <2>2, PanickedFacts, SilentFresh DEF AwaitPanic, history
  <1>9. CASE AwaitTimeout
    BY <1>9, FailedFacts, SilentFresh DEF AwaitTimeout, Punctual
  <1>10. CASE AwaitEof
    <2>1. PICK e \in {"Timeout", "Io"} : Failed(e)
      BY <1>10 DEF AwaitEof
    <2>2. up = << >> /\ down = << >>
      BY <1>10 DEF AwaitEof, Fresh, Closed
    <2>. QED
      BY <1>10, <2>1, <2>2, FailedFacts, SilentFresh DEF AwaitEof, history
  <1>. QED
    BY <1>1, <1>2, <1>3, <1>4, <1>5, <1>6, <1>7, <1>8, <1>9, <1>10 DEF ClientStep

(* The inverter answers the request of the exchange, about its object. *)
LEMMA HandleFresh ==
  ASSUME TypeInv, Fresh, NEW applied \in BOOLEAN, NEW answers,
         answers \subseteq {"ok"} \cup (BadAnswers \cap Faults), Handle(applied, answers)
  PROVE  Fresh'
  <1> DEFINE object == Head(up).object
  <1>0. /\ up \in Seq(Sent) /\ down \in Seq(Returned) /\ up # << >>
        /\ store \in [Objects -> AllPayloads] /\ call \in Calls
    BY DEF TypeInv, TypeOK, Handle
  <1>1. pc = "await" /\ pc' = "await" /\ call' = call
    BY <1>0 DEF Handle, Fresh, Quiet
  <1>2. Len(up) = 1 /\ Len(down) = 0
    <2>1. Len(up) \in Nat \ {0}
      BY <1>0, TailFacts
    <2>2. Len(down) \in Nat
      BY <1>0, EmptyFacts
    <2>3. Len(up) + Len(down) <= 1
      BY DEF Fresh, Alone
    <2>4. \A a \in Nat \ {0}, b \in Nat : a + b <= 1 => a = 1 /\ b = 0
      OBVIOUS
    <2>. QED
      BY <2>1, <2>2, <2>3, <2>4
  <1>3. up' = << >>
    <2>1. Tail(up) \in Seq(Sent) /\ Len(Tail(up)) = 0
      BY <1>0, <1>2, TailFacts
    <2>. QED
      BY <2>1, EmptyFacts DEF Handle
  <1>4. object = call.object /\ object \in Objects
    BY <1>0, <1>2, TailFacts, CallFacts DEF Fresh, Upwards
  <1>5. store'[object] \in seen'
    <2>1. CASE Head(up).command = "write" /\ applied
      <3>1. Hold(object, Kept(object, Head(up).value))
        BY <2>1 DEF Handle
      <3>. QED
        BY <1>0, <1>1, <1>4, <3>1 DEF Hold
    <2>2. CASE ~(Head(up).command = "write" /\ applied)
      BY <1>1, <1>4, <2>2 DEF Handle, Fresh, Witnessed
    <2>. QED
      BY <2>1, <2>2
  <1>6. down' = << >> \/ \E k \in answers : down' = <<Answer(k, store'[object])>>
    <2>1. down = << >>
      BY <1>0, <1>2, EmptyFacts
    <2>. QED
      BY <2>1 DEF Handle
  <1>7. \A k \in answers, data \in seen' : Answer(k, data).kind = "ok" =>
          \/ Answer(k, data).payload \in {data, << >>}
          \/ "short" \in Faults /\ Answer(k, data).payload = Cut(data)
    <2>. SUFFICES ASSUME NEW k \in answers, NEW data, Answer(k, data).kind = "ok"
                  PROVE  \/ Answer(k, data).payload \in {data, << >>}
                         \/ "short" \in Faults /\ Answer(k, data).payload = Cut(data)
      OBVIOUS
    <2>1. k \in {"ok", "empty", "short"}
      BY DEF Answer
    <2>2. k = "short" => "short" \in Faults
      OBVIOUS
    <2>. QED
      BY <2>1, <2>2 DEF Answer, Cut
  <1>8. Quiet' /\ Closed' /\ Answered'
    BY <1>1, <1>3 DEF Quiet, Closed, Answered, AnswerIsCurrent
  <1>9. Len(up') = 0 /\ (Len(down') = 0 \/ Len(down') = 1)
    BY <1>3, <1>6
  <1>10. Alone' /\ Upwards'
    <2>1. Upwards'
      BY <1>9 DEF Upwards
    <2>2. Len(up') + Len(down') <= 1
      <3>1. 0 + 0 <= 1 /\ 0 + 1 <= 1
        OBVIOUS
      <3>. QED
        BY <1>9, <3>1, Zenon
    <2>3. Alone'
      BY <2>2 DEF Alone
    <2>. QED
      BY <2>1, <2>3
  <1>11. Downwards'
    <2>1. CASE down' = << >>
      <3>1. Len(down') = 0
        BY <2>1
      <3>. QED
        BY <3>1 DEF Downwards
    <2>2. CASE \E k \in answers : down' = <<Answer(k, store'[object])>>
      <3>1. PICK k \in answers : down' = <<Answer(k, store'[object])>>
        BY <2>2
      <3>2. Len(down') = 1 /\ down'[1] = Answer(k, store'[object])
        BY <3>1
      <3>3. \A i \in 1..Len(down') : i = 1
        BY <3>2
      <3>. QED
        BY <1>5, <1>7, <3>2, <3>3 DEF Downwards, Current
    <2>. QED
      BY <1>6, <2>1, <2>2
  <1>12. Witnessed'
    BY <1>1, <1>4, <1>5 DEF Witnessed
  <1>. QED
    BY <1>8, <1>10, <1>11, <1>12 DEF Fresh

(* Every step keeps Fresh, if the inverter is not late.                    *)
LEMMA FreshStep ==
  ASSUME Punctual
  PROVE  TypeInv /\ Fresh /\ [Next]_vars => Fresh'
  <1>. SUFFICES ASSUME TypeInv, Fresh, [Next]_vars
                PROVE  Fresh'
    OBVIOUS
  <1>0. Len(<< >>) = 0
    OBVIOUS
  <1>1. CASE Begin
    <2>1. /\ pc = "idle" /\ pc' = "try" /\ result' = NoResult
          /\ UNCHANGED <<conn, up, down, store>>
      BY <1>1 DEF Begin
    <2>2. up = << >> /\ down = << >>
      BY <2>1 DEF Fresh, Quiet
    <2>3. store'[call'.object] \in seen'
      BY <1>1 DEF Begin
    <2>4. Quiet' /\ Alone' /\ Upwards' /\ Downwards' /\ Closed'
      BY <1>0, <2>1, <2>2 DEF Quiet, Alone, Upwards, Downwards, Closed
    <2>5. Witnessed' /\ Answered'
      BY <2>1, <2>3 DEF Witnessed, Answered, AnswerIsCurrent
    <2>. QED
      BY <2>4, <2>5 DEF Fresh
  <1>2. CASE BeginInvalid
    <2>1. /\ pc = "idle" /\ pc' = "idle" /\ result'.kind # "Ok"
          /\ UNCHANGED <<conn, up, down, store>>
      BY <1>2 DEF BeginInvalid
    <2>2. up = << >> /\ down = << >>
      BY <2>1 DEF Fresh, Quiet
    <2>3. Quiet' /\ Alone' /\ Upwards' /\ Downwards' /\ Closed'
      BY <1>0, <2>1, <2>2 DEF Quiet, Alone, Upwards, Downwards, Closed
    <2>4. Witnessed' /\ Answered'
      BY <2>1 DEF Witnessed, Answered, AnswerIsCurrent
    <2>. QED
      BY <2>3, <2>4 DEF Fresh
  <1>3. CASE ClientStep
    BY <1>3, ClientFreshStep
  <1>4. CASE InverterAnswer
    BY <1>4, HandleFresh DEF InverterAnswer
  <1>5. CASE InverterRefuse
    BY <1>5, HandleFresh DEF InverterRefuse
  <1>6. CASE InverterNoAck
    BY <1>6, HandleFresh DEF InverterNoAck
  <1>7. CASE InverterIgnore
    BY <1>7, HandleFresh DEF InverterIgnore
  <1>8. CASE InverterClose
    <2>1. /\ up' = << >> /\ down' \in {down, << >>}
          /\ UNCHANGED <<pc, call, store, result, seen>>
      BY <1>8 DEF InverterClose
    <2>2. Len(up) \in Nat /\ Len(down) \in Nat
      BY EmptyFacts DEF TypeInv, TypeOK
    <2>3. Alone'
      BY <1>0, <2>1, <2>2 DEF Fresh, Alone
    <2>4. Quiet' /\ Upwards' /\ Closed'
      BY <1>0, <2>1 DEF Fresh, Quiet, Upwards, Closed
    <2>5. Downwards'
      BY <1>0, <2>1 DEF Fresh, Downwards, Current
    <2>6. Witnessed' /\ Answered'
      BY <2>1 DEF Fresh, Witnessed, Answered, AnswerIsCurrent, Decode
    <2>. QED
      BY <2>3, <2>4, <2>5, <2>6 DEF Fresh
  <1>9. CASE UNCHANGED vars
    <2>1. Quiet' /\ Alone' /\ Upwards' /\ Closed' /\ Witnessed'
      BY <1>9 DEF vars, Fresh, Quiet, Alone, Upwards, Closed, Witnessed
    <2>2. Downwards' /\ Answered'
      BY <1>9 DEF vars, Fresh, Downwards, Current, Answered, AnswerIsCurrent, Decode
    <2>. QED
      BY <2>1, <2>2 DEF Fresh
  <1>. QED
    BY <1>1, <1>2, <1>3, <1>4, <1>5, <1>6, <1>7, <1>8, <1>9 DEF Next, InverterStep

(* At first there is no connection.                                        *)
LEMMA InitFresh == Init => Fresh
  <1>. SUFFICES ASSUME Init
                PROVE  Fresh
    OBVIOUS
  <1>1. /\ pc = "idle" /\ up = << >> /\ down = << >> /\ result.kind # "Ok"
    BY DEF Init, NoResult
  <1>2. Len(<< >>) = 0
    OBVIOUS
  <1>. QED
    BY <1>1, <1>2 DEF Fresh, Quiet, Alone, Upwards, Downwards, Closed, Witnessed,
                      Answered, AnswerIsCurrent

(* A call only returns a value that its object held while the call was      *)
(* going on, if no answer comes after its timeout: the connection is then   *)
(* empty whenever an exchange begins, although nothing in a frame tells     *)
(* which request it answers.                                                *)
THEOREM AnswersAreCurrent ==
  ASSUME Punctual, CutsAreNoticed
  PROVE  Spec => []AnswerIsCurrent
  <1>1. Fresh => AnswerIsCurrent
    BY DEF Fresh, Answered
  <1>2. TypeInv /\ Fresh /\ [Next]_vars => Fresh'
    BY FreshStep
  <1>. QED
    BY <1>1, <1>2, InitTypes, TypeStep, InitFresh, PTL DEF Spec

-----------------------------------------------------------------------------
(* The retries of a call are bounded.                                      *)

(* Frames are counted by the steps of the call. *)
Counted ==
  /\ pc # "idle" => Fits(call.op, step)
  /\ pc = "try" => frames <= Spent(step)
  /\ pc = "await" => frames <= Spent(step) + 1

CountInv == Counted /\ RetryBudget

(* The end of an exchange, which has written one frame at most. *)
LEMMA ProceedCounts ==
  ASSUME TypeInv, CountInv, pc # "idle", NEW next, Proceed(next), frames' = frames,
         next.result = NoResult =>
           Fits(call.op, next.step) /\ Spent(step) + 1 <= Spent(next.step)
  PROVE  CountInv'
  <1>1. call' = call /\ RetryBudget'
    BY DEF CountInv, RetryBudget, Proceed
  <1>2. CASE next.result # NoResult
    BY <1>1, <1>2 DEF Proceed, CountInv, Counted
  <1>3. CASE next.result = NoResult
    <2>1. pc' = "try" /\ step' = next.step
      BY <1>3 DEF Proceed
    <2>2. pc \in {"try", "await"} /\ frames \in Nat
      BY DEF TypeInv, TypeOK
    <2>3. Spent(step) \in Nat /\ Spent(next.step) \in Nat
      BY <1>3, WithinBudget DEF CountInv, Counted
    <2>4. frames <= Spent(next.step)
      BY <1>3, <2>2, <2>3 DEF CountInv, Counted
    <2>. QED
      BY <1>1, <1>3, <2>1, <2>4 DEF CountInv, Counted
  <1>. QED
    BY <1>2, <1>3

(* An exchange that failed,                                                *)
LEMMA FailedCounts ==
  ASSUME TypeInv, CountInv, pc # "idle", NEW e, e # "none", Failed(e), frames' = frames
  PROVE  CountInv'
  BY ProceedCounts, AfterErrorCounts DEF Failed, CountInv, Counted

(* and one that returned a value.                                          *)
LEMMA SucceededCounts ==
  ASSUME TypeInv, CountInv, pc # "idle", NEW v, Succeeded(v), frames' = frames
  PROVE  CountInv'
  BY ProceedCounts, AfterValueCounts DEF Succeeded, CountInv, Counted

(* Every step keeps the count.                                             *)
LEMMA CountStep == TypeInv /\ CountInv /\ [Next]_vars => CountInv'
  <1>. SUFFICES ASSUME TypeInv, CountInv, [Next]_vars
                PROVE  CountInv'
    OBVIOUS
  <1>1. CASE Begin
    <2>1. PICK k \in Calls : call' = k /\ step' = Start(k.op)
      BY <1>1 DEF Begin
    <2>2. step' \in Steps /\ step'.phase = (IF k.op = "verify" THEN "first" ELSE "exchange")
          /\ step'.attempt = 1
      BY <2>1, StartType DEF Start
    <2>3. Fits(call'.op, step') /\ Spent(step') = 0
      BY <2>1, <2>2 DEF Fits, Spent
    <2>4. pc' = "try" /\ frames' = 0
      BY <1>1 DEF Begin
    <2>5. 0 <= Budget(call'.op)
      BY <2>3, WithinBudget
    <2>. QED
      BY <2>3, <2>4, <2>5 DEF CountInv, Counted, RetryBudget
  <1>2. CASE BeginInvalid
    <2>1. pc' = "idle" /\ frames' = 0
      BY <1>2 DEF BeginInvalid
    <2>2. Budget(call'.op) \in Nat
      BY TriesPositive DEF Budget
    <2>. QED
      BY <2>1, <2>2 DEF CountInv, Counted, RetryBudget
  <1>3. CASE Send
    <2>1. /\ pc = "try" /\ pc' = "await" /\ frames' = frames + 1
          /\ UNCHANGED <<call, step>>
      BY <1>3 DEF Send
    <2>2. Fits(call.op, step) /\ frames <= Spent(step) /\ frames \in Nat
      BY <2>1 DEF CountInv, Counted, TypeInv, TypeOK
    <2>3. /\ Spent(step) \in Nat /\ Budget(call.op) \in Nat
          /\ Spent(step) + 1 <= Budget(call.op)
      BY <2>2, WithinBudget
    <2>4. frames' <= Spent(step) + 1 /\ frames' <= Budget(call.op)
      BY <2>1, <2>2, <2>3
    <2>. QED
      BY <2>1, <2>2, <2>4 DEF CountInv, Counted, RetryBudget
  <1>4. CASE \/ ConnectFail \/ SendFail \/ AwaitBad \/ AwaitUndecodable \/ AwaitTimeout
             \/ AwaitEof
    <2>1. Decode(call, Head(down).payload).kind \in {"Ok", "PayloadTooShort"}
      BY DEF Decode, DecodeValue, Ok, Err
    <2>2. \E e \in {"Io", "Timeout", "EmptyPayload", "Frame", "PayloadTooShort"} : Failed(e)
      BY <1>4, <2>1 DEF ConnectFail, SendFail, AwaitBad, AwaitUndecodable, AwaitTimeout, AwaitEof
    <2>3. pc # "idle" /\ frames' = frames
      BY <1>4 DEF ConnectFail, SendFail, AwaitBad, AwaitUndecodable, AwaitTimeout, AwaitEof,
                  Complete, history
    <2>. QED
      BY <2>2, <2>3, FailedCounts
  <1>5. CASE AwaitAnswer
    BY <1>5, SucceededCounts DEF AwaitAnswer, Complete, history
  <1>6. CASE AwaitPanic
    <2>1. Done("panic", NoValue).result # NoResult
      BY DEF Done, NoResult
    <2>. QED
      BY <1>6, <2>1, ProceedCounts DEF AwaitPanic, history
  <1>7. CASE Connect \/ InverterStep \/ UNCHANGED vars
    <2>1. UNCHANGED <<pc, call, step, frames>>
      BY <1>7 DEF Connect, InverterStep, InverterAnswer, InverterRefuse, InverterNoAck,
                  InverterIgnore, InverterClose, Handle, history, vars
    <2>. QED
      BY <2>1 DEF CountInv, Counted, RetryBudget
  <1>. QED
    BY <1>1, <1>2, <1>3, <1>4, <1>5, <1>6, <1>7 DEF Next, ClientStep

(* At first there is no call.                                              *)
LEMMA InitCounts == Init => CountInv
  BY TriesPositive DEF Init, CountInv, Counted, RetryBudget, Budget

(* A call writes no more frames than its loops allow, whatever the inverter *)
(* does: for write_and_verify Tries * (Tries + 1) in all.                   *)
THEOREM RetriesBounded == Spec => []RetryBudget
  <1>1. CountInv => RetryBudget
    BY DEF CountInv
  <1>. QED
    BY <1>1, InitTypes, TypeStep, InitCounts, CountStep, PTL DEF Spec

-----------------------------------------------------------------------------
(* Lost acknowledgements are tolerated.                                    *)

(* What a write_and_verify leaves in its object. *)
Written == Kept(call.object, Payload(call).value)

(* A write_and_verify for which nothing but acks is lost. *)
Smooth == smooth /\ call.op = "verify" /\ Comparable(call)

(* It is in its first exchange, or reads back the value that is there; what *)
(* is on its connection is its request, or the right answer to it, or       *)
(* nothing when the ack of the write is lost.                               *)
Tolerated ==
  pc # "idle" /\ Smooth =>
    /\ conn # "dead"
    /\ step.phase \in {"first", "readback"}
    /\ step.phase = "readback" => store[call.object] = Written
    /\ pc = "await" =>
         \/ up = <<Frame(call, step)>> /\ down = << >>
         \/ up = << >> /\ down = <<Answer("ok", Written)>>
         \/ /\ up = << >> /\ down = << >>
            /\ step.phase = "first" /\ store[call.object] = Written

AckInv == Tolerated /\ LostAckTolerated

(* The value comes back as it was written, and is not mistaken for no       *)
(* answer at all.                                                           *)
LEMMA RightAnswer ==
  ASSUME TypeInv, pc # "idle", Comparable(call), call.op # "read"
  PROVE  /\ Answer("ok", Written) = [kind |-> "ok", payload |-> Written]
         /\ Decode(call, Written).kind = "Ok" /\ Decode(call, Written).value = call.value
         /\ Written # << >>
  <1>1. Answer("ok", Written) = [kind |-> "ok", payload |-> Written]
    BY DEF Answer
  <1>2. Decode(call, Written) = Ok(call.value)
    BY DEF Comparable, Written
  <1>3. Decode(call, << >>).kind # "Ok"
    <2>1. PICK type : type = ObjectType[call.object]
      OBVIOUS
    <2>2. type \in DOMAIN WireVariant
      <3>1. EncodeFor(type, call.value).kind = "Ok"
        BY <2>1 DEF TypeInv, CallFits, Payload
      <3>. QED
        BY <3>1 DEF EncodeFor, Err
    <2>3. type \in DOMAIN ReadVariant /\ Need(type) \in {1, 2, 4}
      BY <2>2 DEF ReadVariant, WireVariant, Need, Width
    <2>4. Len(<< >>) = 0
      OBVIOUS
    <2>. QED
      BY <2>1, <2>3, <2>4 DEF Decode, DecodeValue, Err
  <1>. QED
    BY <1>1, <1>2, <1>3 DEF Ok

(* An exchange of a smooth call that is over: the next is a read-back, or   *)
(* the call has returned its value.                                         *)
LEMMA SmoothAnswer ==
  ASSUME TypeInv, step.phase \in {"first", "readback"}, Succeeded(call.value)
  PROVE  result' = [kind |-> "Ok", value |-> call.value] /\ pc' = "idle"
  BY DEF Succeeded, Proceed, AfterValue, Done, NoResult

(* The first write timed out: its ack was lost.                            *)
LEMMA SmoothTimeout ==
  ASSUME TypeInv, step.phase = "first", Failed("Timeout")
  PROVE  pc' = "try" /\ step'.phase = "readback" /\ call' = call
  BY DEF Failed, Proceed, AfterError, Again

(* The steps of the client. *)
LEMMA ClientAckStep ==
  ASSUME TypeInv, Fresh, AckInv, ClientStep
  PROVE  AckInv'
  <1>1. call' = call /\ (smooth' => smooth) /\ pc # "idle" /\ store' = store
    <2>1. CASE Connect \/ ConnectFail \/ Send \/ SendFail
      BY <2>1 DEF Connect, ConnectFail, Send, SendFail, Failed, Proceed, history
    <2>2. CASE AwaitAnswer \/ AwaitBad \/ AwaitUndecodable \/ AwaitPanic
      BY <2>2 DEF AwaitAnswer, AwaitBad, AwaitUndecodable, AwaitPanic, Complete,
                  Failed, Succeeded, Proceed, history
    <2>3. CASE AwaitTimeout
      <3>1. smooth' => smooth
        BY <2>3, Zenon DEF AwaitTimeout
      <3>2. call' = call /\ pc # "idle" /\ store' = store
        BY <2>3 DEF AwaitTimeout, Failed, Proceed
      <3>. QED
        BY <3>1, <3>2
    <2>4. CASE AwaitEof
      BY <2>4 DEF AwaitEof, Failed, Proceed, history
    <2>. QED
      BY <2>1, <2>2, <2>3, <2>4 DEF ClientStep
  <1>2. CASE ~Smooth'
    BY <1>2 DEF AckInv, Tolerated, LostAckTolerated, AcksLostOnly, Smooth
  <1>3. CASE Smooth'
    <2>1. Smooth /\ Written' = Written
      BY <1>1, <1>3 DEF Smooth, Comparable, Decode, Written, Payload
    <2>2. /\ conn # "dead" /\ step.phase \in {"first", "readback"}
          /\ step.phase = "readback" => store[call.object] = Written
          /\ pc = "await" =>
               \/ up = <<Frame(call, step)>> /\ down = << >>
               \/ up = << >> /\ down = <<Answer("ok", Written)>>
               \/ /\ up = << >> /\ down = << >>
                  /\ step.phase = "first" /\ store[call.object] = Written
      BY <1>1, <2>1 DEF AckInv, Tolerated
    <2>3. /\ Answer("ok", Written) = [kind |-> "ok", payload |-> Written]
          /\ Decode(call, Written).kind = "Ok" /\ Decode(call, Written).value = call.value
          /\ Written # << >>
      BY <1>1, <2>1, RightAnswer DEF Smooth
    <2>4. ASSUME pc = "await", down # << >>
          PROVE  Head(down).kind = "ok" /\ Head(down).payload = Written
      <3>1. down = <<[kind |-> "ok", payload |-> Written]>>
        BY <2>2, <2>3, <2>4
      <3>. QED
        BY <3>1
    <2>5. CASE Connect
      BY <1>1, <2>1, <2>2, <2>5 DEF Connect, AckInv, Tolerated, LostAckTolerated, AcksLostOnly
    <2>6. CASE Send
      <3>1. up' = <<Frame(call, step)>> /\ down' = << >>
        BY <2>2, <2>6 DEF Send, Fresh, Quiet, TypeInv, TypeOK
      <3>2. pc' = "await" /\ UNCHANGED <<call, step, conn, store>>
        BY <2>6 DEF Send
      <3>3. Frame(call, step)' = Frame(call, step)
        BY <3>2 DEF Frame, Request, Payload
      <3>4. Tolerated'
        BY <2>1, <2>2, <3>1, <3>2, <3>3 DEF Tolerated
      <3>. QED
        BY <3>2, <3>4 DEF AckInv, LostAckTolerated, AcksLostOnly
    <2>7. CASE AwaitAnswer
      <3>1. Succeeded(call.value)
        BY <2>3, <2>4, <2>7 DEF AwaitAnswer, Complete
      <3>. QED
        BY <1>1, <2>2, <3>1, SmoothAnswer DEF AckInv, Tolerated, LostAckTolerated
    <2>8. CASE AwaitTimeout
      <3>0. up = << >>
        BY <1>3, <2>8, Zenon DEF AwaitTimeout, Smooth
      <3>1. step.phase = "first" /\ store[call.object] = Written /\ conn' = conn
        BY <2>2, <2>8, <3>0 DEF AwaitTimeout
      <3>2. pc' = "try" /\ step'.phase = "readback"
        BY <2>8, <3>1, SmoothTimeout DEF AwaitTimeout
      <3>. QED
        BY <1>1, <2>1, <2>2, <3>1, <3>2
           DEF AckInv, Tolerated, LostAckTolerated, AcksLostOnly
    <2>9. ~ConnectFail /\ ~SendFail /\ ~AwaitEof
      BY <1>3, <2>2 DEF ConnectFail, SendFail, AwaitEof, Smooth
    <2>10. ~AwaitBad /\ ~AwaitUndecodable /\ ~AwaitPanic
      BY <2>3, <2>4 DEF AwaitBad, AwaitUndecodable, AwaitPanic, Complete
    <2>. QED
      BY <2>5, <2>6, <2>7, <2>8, <2>9, <2>10 DEF ClientStep
  <1>. QED
    BY <1>2, <1>3

(* The inverter handles the request: after it the object holds what is      *)
(* written, the answer says so, or the ack of a write is lost.              *)
LEMMA HandleAck ==
  ASSUME TypeInv, Fresh, AckInv, NEW applied \in BOOLEAN, NEW answers,
         answers \subseteq {"ok"} \cup BadAnswers, Handle(applied, answers),
         answers = {} => ~applied \/ Head(up).command = "write"
  PROVE  AckInv'
  <1>1. /\ up # << >> /\ pc = "await" /\ UNCHANGED <<pc, call, step, conn, result>>
        /\ smooth' => smooth /\ applied
    BY DEF Handle, Fresh, Quiet
  <1>2. CASE ~Smooth'
    BY <1>2 DEF AckInv, Tolerated, LostAckTolerated, AcksLostOnly, Smooth
  <1>3. CASE Smooth'
    <2>1. Smooth /\ applied /\ Written' = Written
      BY <1>1, <1>3 DEF Smooth, Comparable, Decode, Written, Payload
    <2>2. /\ conn # "dead" /\ step.phase \in {"first", "readback"}
          /\ step.phase = "readback" => store[call.object] = Written
          /\ up = <<Frame(call, step)>> /\ down = << >>
      BY <1>1, <2>1 DEF AckInv, Tolerated
    <2>3. up' = << >> /\ Head(up) = Frame(call, step)
      BY <2>2 DEF Handle
    <2>4. /\ Frame(call, step).object = call.object
          /\ Frame(call, step).value = Payload(call).value
          /\ call \in Calls /\ call.object \in Objects
      BY FrameFacts, CallFacts DEF TypeInv, TypeOK
    <2>5. Frame(call, step).command = "write" <=> step.phase = "first"
      <3>1. [call EXCEPT !.value = Payload(call).value].op = call.op
        BY <2>4, CallFacts DEF Call
      <3>. QED
        BY <2>1, <2>2, <3>1 DEF Frame, Request, Smooth
    <2>6. store'[call.object] = Written
      <3>1. CASE step.phase = "first"
        <4>1. store' = [store EXCEPT ![call.object] = Written]
          BY <2>1, <2>3, <2>4, <2>5, <3>1 DEF Handle, Hold, Written
        <4>. QED
          BY <2>4, <4>1 DEF TypeInv, TypeOK
      <3>2. CASE step.phase # "first"
        BY <2>2, <2>3, <2>5, <3>2 DEF Handle
      <3>. QED
        BY <3>1, <3>2
    <2>7. \/ down' = << >> /\ step.phase = "first"
          \/ down' = <<Answer("ok", Written)>>
      <3>1. CASE answers = {}
        BY <2>1, <2>2, <2>3, <2>5, <3>1 DEF Handle
      <3>2. CASE answers # {}
        <4>1. down' = Append(down, Answer("ok", store'[Head(up).object]))
          BY <1>3, <3>2 DEF Handle, Smooth
        <4>. QED
          BY <2>2, <2>3, <2>4, <2>6, <4>1
      <3>. QED
        BY <3>1, <3>2
    <2>8. Tolerated'
      BY <1>1, <2>1, <2>2, <2>3, <2>6, <2>7 DEF Tolerated
    <2>. QED
      BY <1>1, <2>8 DEF AckInv, LostAckTolerated, AcksLostOnly
  <1>. QED
    BY <1>2, <1>3

(* Every step keeps AckInv, if the connection is empty between exchanges.  *)
LEMMA AckStep ==
  ASSUME TypeInv, Fresh, AckInv, [Next]_vars
  PROVE  AckInv'
  <1>1. CASE Begin
    <2>1. pc' = "try" /\ step'.phase = IF call'.op = "verify" THEN "first" ELSE "exchange"
      BY <1>1 DEF Begin, Start
    <2>2. smooth' => conn' # "dead"
      <3>1. smooth' = (conn # "dead") /\ conn' = conn
        BY <1>1 DEF Begin
      <3>. QED
        BY <3>1, Zenon
    <2>. QED
      BY <2>1, <2>2 DEF AckInv, Tolerated, LostAckTolerated, AcksLostOnly, Smooth
  <1>2. CASE BeginInvalid \/ InverterClose
    BY <1>2 DEF BeginInvalid, InverterClose, AckInv, Tolerated, LostAckTolerated,
                AcksLostOnly, Smooth
  <1>3. CASE ClientStep
    BY <1>3, ClientAckStep
  <1>4. CASE InverterAnswer
    <2>1. {"ok"} \cup (BadAnswers \cap Faults) # {}
      OBVIOUS
    <2>. QED
      BY <1>4, <2>1, HandleAck DEF InverterAnswer
  <1>5. CASE InverterRefuse
    BY <1>5, HandleAck DEF InverterRefuse
  <1>6. CASE InverterNoAck
    BY <1>6, HandleAck DEF InverterNoAck
  <1>7. CASE InverterIgnore
    BY <1>7, HandleAck DEF InverterIgnore
  <1>8. CASE UNCHANGED vars
    BY <1>8 DEF vars, AckInv, Tolerated, LostAckTolerated, AcksLostOnly, Smooth, Written,
                Comparable, Decode, Payload, Frame, Request
  <1>. QED
    BY <1>1, <1>2, <1>3, <1>4, <1>5, <1>6, <1>7, <1>8 DEF Next, InverterStep

(* With an inverter that is not late, a write_and_verify for which nothing  *)
(* but acks is lost returns the value it was given, if that is what the     *)
(* object, read back, compares equal to.                                    *)
THEOREM LostAcksTolerated ==
  ASSUME Punctual
  PROVE  Spec => []LostAckTolerated
  <1>1. Init => AckInv
    BY DEF Init, AckInv, Tolerated, LostAckTolerated, AcksLostOnly, NoResult
  <1>2. TypeInv /\ Fresh /\ [Next]_vars => Fresh'
    BY FreshStep
  <1>3. TypeInv /\ Fresh /\ AckInv /\ [Next]_vars => AckInv'
    BY AckStep
  <1>4. AckInv => LostAckTolerated
    BY DEF AckInv
  <1>. QED
    BY <1>1, <1>2, <1>3, <1>4, InitTypes, TypeStep, InitFresh, PTL DEF Spec
=============================================================================
