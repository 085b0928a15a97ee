--------------------------- MODULE AsyncClientProofs ---------------------------
(***************************************************************************)
(* Proofs about AsyncClient for any tasks, threads and placements, any     *)
(* objects and values, any number of retries and any faults.               *)
(***************************************************************************)
EXTENDS AsyncClient, QueueFacts, RetryFacts

-----------------------------------------------------------------------------
(* The inductive invariant.                                                *)

ControlPoints == {"idle", "lock", "blocked", "connect", "send", "await"}
Using         == {"connect", "send", "await"}    \* with the guard

(* What may be on the connection. *)
Frames   == {Request(k, s) : k \in Calls, s \in Steps}
Returned == [kind : {"ok"} \cup BadAnswers, value : Values]

Types ==
  /\ thread \in [Tasks -> Threads]
  /\ made \in [Tasks -> Nat]
  /\ pc \in [Tasks -> ControlPoints]
  /\ call \in [Tasks -> Calls]
  /\ step \in [Tasks -> Steps]
  /\ DOMAIN result = Tasks
  /\ seen \in [Tasks -> SUBSET Values]
  /\ guard \in Tasks \cup {Nobody}
  /\ poisoned \in BOOLEAN /\ torn \in BOOLEAN
  /\ conn \in {"none", "live", "dead"}
  /\ up \in Seq(Frames) /\ down \in Seq(Returned)
  /\ store \in [Objects -> Values]

(* The guard is held exactly between Lock and the end of the exchange, and  *)
(* by no one any more once the mutex is poisoned.                           *)
Guarded ==
  /\ \A t \in Tasks : guard = t <=> pc[t] \in Using
  /\ poisoned => guard = Nobody

(* Unless an exchange was cancelled on the connection or the mutex is       *)
(* poisoned, there is something on it only while a task awaits its answer,  *)
(* and then one request or one answer, about the object of its call.        *)
Quiet     == guard = Nobody \/ pc[guard] # "await" => up = << >> /\ down = << >>
Alone     == Len(up) + Len(down) <= 1
Upwards   == guard # Nobody => \A i \in 1..Len(up) : up[i].object = call[guard].object
Downwards == guard # Nobody =>
               \A i \in 1..Len(down) : down[i].kind = "ok" => down[i].value \in seen[guard]

Whole == ~torn /\ ~poisoned => Quiet /\ Alone /\ Upwards /\ Downwards

(* A call has seen what its object holds now. *)
Witnessed == \A t \in Tasks : pc[t] # "idle" => store[call[t].object] \in seen[t]

Invariant == Types /\ Guarded /\ Whole /\ Witnessed

-----------------------------------------------------------------------------
(* Calls and their frames.                                                 *)

(* A frame is about the object of its call, and writes a value. *)
LEMMA FrameFacts ==
  ASSUME NEW k \in Calls, NEW s \in Steps
  PROVE  /\ Request(k, s) \in Frames
         /\ Request(k, s).object = k.object
  BY DEF Frames, Request

(* The object and the value of a frame have their types. *)
LEMMA FramesTyped ==
  ASSUME NEW f \in Frames
  PROVE  f.object \in Objects /\ (f.command = "write" => f.value \in Values)
  <1>1. PICK k \in Calls, s \in Steps : f = Request(k, s)
    BY DEF Frames
  <1>2. k.object \in Objects /\ (k.op # "read" => k.value \in Values)
    BY DEF Calls
  <1>. QED
    BY <1>1, <1>2 DEF Request

-----------------------------------------------------------------------------
(* What the end of an exchange does to the task that made it.              *)

(* The call goes on, or is over. *)
Turned(t) ==
  /\ call' = call
  /\ step' \in [Tasks -> Steps] /\ DOMAIN result' = Tasks
  /\ pc' \in [Tasks -> ControlPoints] /\ seen' \in [Tasks -> SUBSET Values]
  /\ pc'[t] \in {"lock", "idle"}
  /\ pc'[t] # "idle" => seen'[t] = seen[t]
  /\ \A u \in Tasks \ {t} : pc'[u] = pc[u] /\ seen'[u] = seen[u]

(* The task goes on or is over, as the next step says. *)
LEMMA ProceedFacts ==
  ASSUME Types, NEW t \in Tasks, NEW next, next.step \in Steps, Proceed(t, next)
  PROVE  Turned(t) /\ result'[t] = next.result
  <1>1. CASE next.result = NoResult
    BY <1>1 DEF Types, Proceed, Turned, ControlPoints
  <1>2. CASE next.result # NoResult
    BY <1>2 DEF Types, Proceed, Turned, ControlPoints
  <1>. QED
    BY <1>1, <1>2

(* An error never makes a call succeed. *)
LEMMA FailedFacts ==
  ASSUME Types, NEW t \in Tasks, NEW e, e # "Ok", Failed(t, e)
  PROVE  Turned(t) /\ result'[t].kind # "Ok"
  <1>1. /\ AfterError(step[t], e).step \in Steps
        /\ AfterError(step[t], e).result.kind # "Ok"
    BY AfterErrorFacts DEF Types
  <1>. QED
    BY <1>1, ProceedFacts DEF Failed

(* The value a call returns is the one it was given. *)
LEMMA SucceededFacts ==
  ASSUME Types, NEW t \in Tasks, NEW v, Succeeded(t, v)
  PROVE  Turned(t) /\ (result'[t].kind = "Ok" => result'[t].value = v)
  <1>1. /\ AfterValue(step[t], v, call[t].value).step \in Steps
        /\ AfterValue(step[t], v, call[t].value).result.kind = "Ok" =>
             AfterValue(step[t], v, call[t].value).result.value = v
    BY AfterValueFacts DEF Types
  <1>. QED
    BY <1>1, ProceedFacts DEF Succeeded

(* Neither does a panic, nor being dropped. *)
LEMMA GivenUpFacts ==
  ASSUME Types, NEW t \in Tasks, NEW e, e # "Ok", Proceed(t, Done(e, NoValue))
  PROVE  Turned(t) /\ result'[t].kind # "Ok"
  BY DoneFacts, ProceedFacts

(* A read of answers. *)
LEMMA ReadFacts ==
  ASSUME Types, ReadAnswer
  PROVE  down' \in Seq(Returned) /\ (Alone => up = << >> /\ down' = << >>)
  <1>1. PICK n \in 1..Len(down) : down' = SubSeq(down, n + 1, Len(down))
    BY DEF ReadAnswer
  <1>2. up \in Seq(Frames) /\ down \in Seq(Returned)
    BY DEF Types
  <1>3. down' \in Seq(Returned) /\ Len(down') = Len(down) - n
    BY <1>1, <1>2, SplitFacts
  <1>4. Len(up) \in Nat /\ Len(down) \in Nat /\ Len(down') \in Nat
    BY <1>2, <1>3, EmptyFacts
  <1>5. Alone => Len(up) = 0 /\ Len(down') = 0
    BY <1>3, <1>4 DEF Alone
  <1>6. Len(up) = 0 => up = << >>
    BY <1>2, EmptyFacts
  <1>7. Len(down') = 0 => down' = << >>
    BY <1>3, EmptyFacts
  <1>. QED
    BY <1>3, <1>5, <1>6, <1>7

-----------------------------------------------------------------------------
(* Kinds of steps.                                                         *)

(* The owner of the guard ends its exchange and leaves nothing on the       *)
(* connection, unless it is cancelled.                                      *)
LEMMA ExchangeEnds ==
  ASSUME Invariant, NEW t \in Tasks, pc[t] \in Using, Turned(t),
         guard' = Nobody, poisoned' \in BOOLEAN, torn' \in BOOLEAN,
         conn' \in {"none", "live", "dead"},
         up' \in Seq(Frames), down' \in Seq(Returned),
         ~torn' /\ ~poisoned' => up' = << >> /\ down' = << >>,
         UNCHANGED fixed
  PROVE  Invariant'
  <1>1. Types'
    BY DEF Invariant, Types, Turned, fixed
  <1>2. Guarded'
    <2>1. \A u \in Tasks \ {t} : pc[u] \notin Using
      BY DEF Invariant, Guarded
    <2>2. pc'[t] \notin Using
      BY DEF Turned, Using
    <2>. QED
      BY <2>1, <2>2, AsyncAssumption DEF Guarded, Turned
  <1>3. Whole'
    <2>1. Len(<< >>) = 0
      OBVIOUS
    <2>. QED
      BY <2>1 DEF Whole, Quiet, Alone, Upwards, Downwards
  <1>4. Witnessed'
    BY DEF Invariant, Witnessed, Turned, Using, fixed
  <1>. QED
    BY <1>1, <1>2, <1>3, <1>4 DEF Invariant

(* A task without the guard moves. *)
LEMMA OutsideMoves ==
  ASSUME Invariant, NEW t \in Tasks, pc[t] \notin Using, pc'[t] \notin Using,
         \A u \in Tasks \ {t} : pc'[u] = pc[u] /\ seen'[u] = seen[u] /\ call'[u] = call[u],
         Types', UNCHANGED <<lock, torn, up, down, store>>,
         pc'[t] # "idle" => store[call'[t].object] \in seen'[t]
  PROVE  Invariant'
  <1>0. guard' = guard /\ poisoned' = poisoned
    BY DEF lock
  <1>1. Guarded'
    BY <1>0 DEF Invariant, Guarded
  <1>2. guard # t
    BY DEF Invariant, Guarded
  <1>3. Whole'
    <2>1. CASE guard = Nobody
      BY <1>0, <2>1 DEF Invariant, Whole, Quiet, Alone, Upwards, Downwards
    <2>2. CASE guard # Nobody
      <3>1. guard \in Tasks \ {t}
        BY <1>2, <2>2 DEF Invariant, Types
      <3>. QED
        BY <1>0, <3>1 DEF Invariant, Whole, Quiet, Alone, Upwards, Downwards
    <2>. QED
      BY <2>1, <2>2
  <1>4. Witnessed'
    BY DEF Invariant, Witnessed
  <1>. QED
    BY <1>1, <1>3, <1>4 DEF Invariant

-----------------------------------------------------------------------------
(* The steps of a task.                                                    *)

(* A call begins: it has seen what its object holds. *)
LEMMA BeginStep ==
  ASSUME Invariant, NEW t \in Tasks, Begin(t)
  PROVE  Invariant'
  <1>0. Types
    BY DEF Invariant
  <1>1. PICK k \in Calls : /\ call' = [call EXCEPT ![t] = k]
                           /\ step' = [step EXCEPT ![t] = Start(k.op)]
                           /\ seen' = [seen EXCEPT ![t] = {store[k.object]}]
    BY DEF Begin
  <1>2. k.object \in Objects /\ Start(k.op) \in Steps
    BY StartType DEF Calls
  <1>3. {store[k.object]} \in SUBSET Values
    BY <1>0, <1>2 DEF Types
  <1>4. Types'
    <2>1. made' \in [Tasks -> Nat] /\ DOMAIN result' = Tasks
      BY <1>0 DEF Begin, Types
    <2>2. pc' \in [Tasks -> ControlPoints]
      BY <1>0 DEF Begin, Types, ControlPoints
    <2>. QED
      BY <1>0, <1>1, <1>2, <1>3, <2>1, <2>2 DEF Begin, Types, lock, link
  <1>5. /\ pc[t] \notin Using /\ pc'[t] \notin Using
        /\ \A u \in Tasks \ {t} : pc'[u] = pc[u] /\ seen'[u] = seen[u] /\ call'[u] = call[u]
        /\ store'[call'[t].object] \in seen'[t]
    BY <1>0, <1>1 DEF Begin, Types, Using
  <1>. QED
    BY <1>4, <1>5, OutsideMoves DEF Begin, lock, link

(* A call waits for the mutex. *)
LEMMA BlockStep ==
  ASSUME Invariant, NEW t \in Tasks, Block(t)
  PROVE  Invariant'
  <1>1. /\ pc' \in [Tasks -> ControlPoints] /\ pc[t] = "lock" /\ pc'[t] = "blocked"
        /\ \A u \in Tasks \ {t} : pc'[u] = pc[u]
        /\ UNCHANGED <<call, step, result, seen, fixed, lock, link>>
    BY DEF Block, Invariant, Types, ControlPoints
  <1>2. Types'
    BY <1>1 DEF Invariant, Types, fixed, lock, link
  <1>. QED
    BY <1>1, <1>2, OutsideMoves DEF Using, fixed, lock, link, Invariant, Witnessed

(* A poisoned mutex ends the call. *)
LEMMA LockPoisonedStep ==
  ASSUME Invariant, NEW t \in Tasks, LockPoisoned(t)
  PROVE  Invariant'
  <1>1. Turned(t) /\ pc[t] \in {"lock", "blocked"}
    BY GivenUpFacts DEF LockPoisoned, Invariant
  <1>2. Types'
    BY <1>1 DEF LockPoisoned, Turned, Invariant, Types, fixed, lock, link
  <1>. QED
    BY <1>1, <1>2, OutsideMoves
       DEF LockPoisoned, Turned, Using, fixed, lock, link, Invariant, Witnessed

(* A dropped call releases the guard and marks what it leaves behind. *)
LEMMA CancelStep ==
  ASSUME Invariant, NEW t \in Tasks, Cancel(t)
  PROVE  Invariant'
  <1>1. Turned(t) /\ pc[t] \in {"lock", "connect", "send", "await"}
    BY GivenUpFacts DEF Cancel, Invariant
  <1>2. guard = t <=> pc[t] \in Using
    BY DEF Invariant, Guarded
  <1>3. torn' \in BOOLEAN /\ UNCHANGED <<fixed, poisoned, conn, up, down>>
    BY <1>1, Zenon DEF Cancel, Tears, Invariant, Types
  <1>4. CASE pc[t] = "lock"
    <2>1. guard' = guard /\ torn' = torn
      BY <1>2, <1>4 DEF Cancel, Tears, Using
    <2>2. Types'
      BY <1>1, <1>3, <2>1 DEF Turned, Invariant, Types, fixed
    <2>. QED
      BY <1>1, <1>3, <1>4, <2>1, <2>2, OutsideMoves
         DEF Turned, Using, fixed, lock, Invariant, Witnessed
  <1>5. CASE pc[t] \in Using
    <2>1. guard = t /\ guard' = Nobody
      BY <1>2, <1>5 DEF Cancel
    <2>2. ~torn' /\ ~poisoned' => up' = << >> /\ down' = << >>
      <3>1. ~torn' => ~torn /\ pc[t] # "await"
        BY <1>1, <1>5 DEF Cancel, Tears, Using
      <3>. QED
        BY <1>3, <2>1, <3>1 DEF Invariant, Whole, Quiet
    <2>3. poisoned' \in BOOLEAN /\ conn' \in {"none", "live", "dead"}
          /\ up' \in Seq(Frames) /\ down' \in Seq(Returned)
      BY <1>3 DEF Invariant, Types
    <2>. QED
      BY <1>1, <1>3, <1>5, <2>1, <2>2, <2>3, ExchangeEnds
  <1>. QED
    BY <1>1, <1>4, <1>5 DEF Using

(* Who gets the mutex finds nothing on the connection. *)
LEMMA LockStep ==
  ASSUME Invariant, NEW t \in Tasks, Lock(t)
  PROVE  Invariant'
  <1>1. /\ pc[t] \in {"lock", "blocked"} /\ guard = Nobody /\ guard' = t /\ ~poisoned
        /\ pc' \in [Tasks -> ControlPoints]
        /\ pc'[t] \in {"connect", "send"}
        /\ \A u \in Tasks \ {t} : pc'[u] = pc[u]
        /\ UNCHANGED <<call, step, result, seen, fixed, poisoned, link>>
    BY DEF Lock, Invariant, Types, ControlPoints
  <1>2. Types'
    BY <1>1 DEF Invariant, Types, fixed, link
  <1>3. Guarded'
    BY <1>1, AsyncAssumption DEF Invariant, Guarded, Using
  <1>4. Whole'
    <2>1. ~torn => up = << >> /\ down = << >> /\ Len(up) = 0 /\ Len(down) = 0
      <3>1. Len(<< >>) = 0
        OBVIOUS
      <3>. QED
        BY <1>1, <3>1 DEF Invariant, Whole, Quiet
    <2>. QED
      BY <1>1, <2>1 DEF link, Whole, Quiet, Alone, Upwards, Downwards
  <1>5. Witnessed'
    BY <1>1 DEF Invariant, Witnessed, fixed
  <1>. QED
    BY <1>2, <1>3, <1>4, <1>5 DEF Invariant

(* A new connection has nothing on it. *)
LEMMA ConnectStep ==
  ASSUME Invariant, NEW t \in Tasks, Connect(t)
  PROVE  Invariant'
  <1>1. /\ pc[t] = "connect" /\ pc' = [pc EXCEPT ![t] = "send"] /\ guard' = guard
        /\ pc \in [Tasks -> ControlPoints]
        /\ conn' = "live" /\ up' = << >> /\ down' = << >> /\ torn' = FALSE
        /\ UNCHANGED <<call, step, result, seen, fixed, poisoned>>
    BY DEF Connect, Fresh, lock, Invariant, Types
  <1>2. << >> \in Seq(Frames) /\ << >> \in Seq(Returned) /\ Len(<< >>) = 0
    OBVIOUS
  <1>3. pc' \in [Tasks -> ControlPoints]
    BY <1>1 DEF ControlPoints
  <1>4. Types'
    BY <1>1, <1>2, <1>3 DEF Invariant, Types, fixed
  <1>5. Guarded' /\ Witnessed'
    BY <1>1 DEF Invariant, Guarded, Witnessed, Using, fixed
  <1>6. Whole'
    BY <1>1, <1>2 DEF Whole, Quiet, Alone, Upwards, Downwards
  <1>. QED
    BY <1>4, <1>5, <1>6 DEF Invariant

(* The request is alone on the connection. *)
LEMMA SendStep ==
  ASSUME Invariant, NEW t \in Tasks, Send(t)
  PROVE  Invariant'
  <1> DEFINE frame == Request(call[t], step[t])
  <1>1. /\ pc[t] = "send" /\ pc' = [pc EXCEPT ![t] = "await"]
        /\ pc \in [Tasks -> ControlPoints]
        /\ UNCHANGED <<call, step, result, seen, fixed, lock, conn, down, torn>>
        /\ up \in Seq(Frames)
    BY DEF Send, Invariant, Types
  <1>2. guard = t
    BY <1>1 DEF Invariant, Guarded, Using
  <1>3. frame \in Frames /\ frame.object = call[t].object
    BY FrameFacts DEF Invariant, Types
  <1>4. up' = up \/ up' = Append(up, frame)
    BY DEF Send
  <1>5. up' \in Seq(Frames) /\ pc' \in [Tasks -> ControlPoints]
    <2>1. Append(up, frame) \in Seq(Frames)
      BY <1>1, <1>3, AppendFacts
    <2>. QED
      BY <1>1, <1>4, <2>1 DEF ControlPoints
  <1>6. Types'
    BY <1>1, <1>5 DEF Invariant, Types, fixed, lock
  <1>7. Guarded' /\ Witnessed'
    BY <1>1 DEF Invariant, Guarded, Witnessed, Using, fixed, lock
  <1>8. Whole'
    <2>1. SUFFICES ASSUME ~torn, ~poisoned
                   PROVE  (Quiet /\ Alone /\ Upwards /\ Downwards)'
      BY <1>1 DEF Whole, lock
    <2>2. up = << >> /\ down = << >>
      BY <1>1, <1>2, <2>1 DEF Invariant, Whole, Quiet
    <2>3. up' = << >> \/ up' = <<frame>>
      <3>1. Append(<< >>, frame) = <<frame>>
        OBVIOUS
      <3>. QED
        BY <1>4, <2>2, <3>1
    <2>4. /\ Len(up') = 0 \/ Len(up') = 1
          /\ \A i \in 1..Len(up') : up'[i].object = call[t].object
          /\ Len(down') = 0
      <3>1. CASE up' = << >>
        BY <1>1, <2>2, <3>1
      <3>2. CASE up' = <<frame>>
        BY <1>1, <1>3, <2>2, <3>2
      <3>. QED
        BY <2>3, <3>1, <3>2
    <2>5. Quiet'
      <3>1. guard' # Nobody /\ pc'[guard'] = "await"
        BY <1>1, <1>2, AsyncAssumption DEF lock
      <3>. QED
        BY <3>1 DEF Quiet
    <2>6. Alone' /\ Upwards' /\ Downwards'
      BY <1>1, <1>2, <2>4 DEF Alone, Upwards, Downwards, lock
    <2>. QED
      BY <2>5, <2>6
  <1>. QED
    BY <1>6, <1>7, <1>8 DEF Invariant

(* The task that ends its exchange leaves an empty connection, or no        *)
(* connection.                                                              *)
LEMMA ConnectFailStep ==
  ASSUME Invariant, NEW t \in Tasks, ConnectFail(t)
  PROVE  Invariant' /\ result'[t].kind # "Ok"
  <1>1. Turned(t) /\ result'[t].kind # "Ok"
    BY FailedFacts DEF ConnectFail, Invariant
  <1>2. /\ pc[t] = "connect" /\ guard' = Nobody
        /\ UNCHANGED <<fixed, poisoned, conn, up, down, torn>>
    BY DEF ConnectFail, Unlock, link
  <1>3. guard = t /\ pc[t] \in Using
    BY <1>2 DEF Invariant, Guarded, Using
  <1>4. ~torn /\ ~poisoned => up = << >> /\ down = << >>
    BY <1>2, <1>3 DEF Invariant, Whole, Quiet
  <1>5. /\ poisoned' \in BOOLEAN /\ torn' \in BOOLEAN /\ conn' \in {"none", "live", "dead"}
        /\ up' \in Seq(Frames) /\ down' \in Seq(Returned)
    BY <1>2 DEF Invariant, Types
  <1>. QED
    BY <1>1, <1>2, <1>3, <1>4, <1>5, ExchangeEnds

(* A failed exchange takes the connection with it. *)
LEMMA DropStep ==
  ASSUME Invariant, NEW t \in Tasks, pc[t] \in Using, NEW e, e # "Ok", Drop(t, e)
  PROVE  Invariant' /\ result'[t].kind # "Ok"
  <1>1. Turned(t) /\ result'[t].kind # "Ok"
    BY FailedFacts DEF Drop, Invariant
  <1>2. /\ guard' = Nobody /\ poisoned' = poisoned /\ UNCHANGED fixed
        /\ conn' = "none" /\ up' = << >> /\ down' = << >> /\ torn' = FALSE
    BY DEF Drop, Fresh, Unlock
  <1>3. << >> \in Seq(Frames) /\ << >> \in Seq(Returned) /\ poisoned \in BOOLEAN
    BY DEF Invariant, Types
  <1>. QED
    BY <1>1, <1>2, <1>3, ExchangeEnds

(* A write that fails or times out. *)
LEMMA SendFailStep ==
  ASSUME Invariant, NEW t \in Tasks, SendFail(t)
  PROVE  Invariant' /\ result'[t].kind # "Ok"
  <1>1. pc[t] \in Using /\ (Drop(t, "Io") \/ Drop(t, "Timeout"))
    BY DEF SendFail, Using
  <1>. QED
    BY <1>1, DropStep

(* An answer that is no value is an error. *)
LEMMA AwaitBadStep ==
  ASSUME Invariant, NEW t \in Tasks, AwaitBad(t)
  PROVE  Invariant' /\ result'[t].kind # "Ok"
  <1>1. pc[t] \in Using /\ Drop(t, ErrorOf(Head(down).kind))
    BY DEF AwaitBad, Answered, Using
  <1>2. ErrorOf(Head(down).kind) # "Ok"
    BY DEF AwaitBad, Answered, ErrorOf
  <1>. QED
    BY <1>1, <1>2, DropStep

(* A read that times out. *)
LEMMA AwaitTimeoutStep ==
  ASSUME Invariant, NEW t \in Tasks, AwaitTimeout(t)
  PROVE  Invariant' /\ result'[t].kind # "Ok"
  BY DropStep DEF AwaitTimeout, Using

(* The end of the stream. *)
LEMMA AwaitEofStep ==
  ASSUME Invariant, NEW t \in Tasks, AwaitEof(t)
  PROVE  Invariant' /\ result'[t].kind # "Ok"
  <1>1. pc[t] \in Using /\ \E e \in {"Timeout", "Io"} : Drop(t, e)
    BY DEF AwaitEof, Using
  <1>2. PICK e \in {"Timeout", "Io"} : Drop(t, e)
    BY <1>1
  <1>. QED
    BY <1>1, <1>2, DropStep

(* A read takes the answer off the connection, unless it poisons the mutex. *)
LEMMA AnswerTaken ==
  ASSUME Invariant, NEW t \in Tasks, pc[t] = "await", Turned(t),
         guard' = Nobody, poisoned' \in BOOLEAN,
         ReadAnswer \/ (poisoned' /\ UNCHANGED down),
         UNCHANGED <<fixed, conn, up, torn>>
  PROVE  Invariant'
  <1>0. ~poisoned
    BY AsyncAssumption DEF Invariant, Guarded, Using
  <1>1. down' \in Seq(Returned) /\ (ReadAnswer /\ Alone => up = << >> /\ down' = << >>)
    BY ReadFacts DEF Invariant, Types
  <1>2. ~torn' /\ ~poisoned' => up' = << >> /\ down' = << >>
    BY <1>0, <1>1 DEF Invariant, Whole
  <1>3. torn' \in BOOLEAN /\ conn' \in {"none", "live", "dead"} /\ up' \in Seq(Frames)
    BY DEF Invariant, Types
  <1>4. pc[t] \in Using
    BY DEF Using
  <1>. QED
    BY <1>1, <1>2, <1>3, <1>4, ExchangeEnds

(* The value of an answer on an untorn connection is one that the object of *)
(* the call held while it went on.                                          *)
LEMMA AwaitAnswerStep ==
  ASSUME Invariant, NEW t \in Tasks, AwaitAnswer(t)
  PROVE  Invariant' /\ (~torn /\ result'[t].kind = "Ok" => result'[t].value \in seen[t])
  <1>1. Turned(t) /\ (result'[t].kind = "Ok" => result'[t].value = Head(down).value)
    BY SucceededFacts DEF AwaitAnswer, Invariant
  <1>2. /\ pc[t] = "await" /\ down # << >> /\ Head(down).kind = "ok" /\ ReadAnswer
        /\ guard' = Nobody /\ poisoned' = poisoned /\ UNCHANGED <<fixed, conn, up, torn>>
    BY DEF AwaitAnswer, Answered, Unlock
  <1>3. Invariant'
    BY <1>1, <1>2, AnswerTaken DEF Invariant, Types
  <1>4. ~torn => Head(down).value \in seen[t]
    <2>1. guard = t /\ guard # Nobody /\ ~poisoned
      BY <1>2, AsyncAssumption DEF Invariant, Guarded, Using
    <2>2. down \in Seq(Returned)
      BY DEF Invariant, Types
    <2>3. 1 \in 1..Len(down) /\ Head(down) = down[1]
      BY <1>2, <2>2, EmptyFacts
    <2>. QED
      BY <1>2, <2>1, <2>3 DEF Invariant, Whole, Downwards
  <1>. QED
    BY <1>1, <1>3, <1>4

(* A panic of the parser: the mutex is poisoned. *)
LEMMA AwaitPanicStep ==
  ASSUME Invariant, NEW t \in Tasks, AwaitPanic(t)
  PROVE  Invariant' /\ result'[t].kind # "Ok"
  <1>1. Turned(t) /\ result'[t].kind # "Ok"
    BY GivenUpFacts DEF AwaitPanic, Invariant
  <1>2. /\ pc[t] = "await" /\ guard' = Nobody /\ poisoned' = TRUE
        /\ ReadAnswer \/ UNCHANGED down
        /\ UNCHANGED <<fixed, conn, up, torn>>
    BY DEF AwaitPanic, Answered
  <1>. QED
    BY <1>1, <1>2, AnswerTaken

-----------------------------------------------------------------------------
(* The steps of the inverter.                                              *)

(* A request is handled only while its task awaits the answer, and then     *)
(* nothing is left on the connection.                                       *)
LEMMA HandleFacts ==
  ASSUME Invariant, NEW request, Handle(request)
  PROVE  /\ request \in Frames /\ up' \in Seq(Frames)
         /\ ~torn /\ ~poisoned =>
                     /\ guard \in Tasks /\ pc[guard] = "await"
                     /\ request.object = call[guard].object
                     /\ up' = << >> /\ down = << >>
  <1>1. up \in Seq(Frames) /\ down \in Seq(Returned) /\ guard \in Tasks \cup {Nobody}
    BY DEF Invariant, Types
  <1>2. up # << >> /\ request = Head(up) /\ up' = Tail(up)
    BY DEF Handle
  <1>3. /\ Head(up) \in Frames /\ Tail(up) \in Seq(Frames) /\ Head(up) = up[1]
        /\ 1 \in 1..Len(up) /\ Len(up) \in Nat \ {0} /\ Len(Tail(up)) = Len(up) - 1
    BY <1>1, <1>2, TailFacts
  <1>4. ASSUME ~torn, ~poisoned
        PROVE  /\ guard \in Tasks /\ pc[guard] = "await"
               /\ request.object = call[guard].object
               /\ up' = << >> /\ down = << >>
    <2>1. Quiet /\ Alone /\ Upwards
      BY <1>4 DEF Invariant, Whole
    <2>2. guard # Nobody /\ pc[guard] = "await"
      BY <1>2, <2>1 DEF Quiet
    <2>3. request.object = call[guard].object
      BY <1>2, <1>3, <2>1, <2>2 DEF Upwards
    <2>4. Len(down) \in Nat
      BY <1>1, EmptyFacts
    <2>5. Len(down) = 0 /\ Len(Tail(up)) = 0
      BY <1>3, <2>1, <2>4 DEF Alone
    <2>6. down = << >> /\ Tail(up) = << >>
      BY <1>1, <1>3, <2>5, EmptyFacts
    <2>. QED
      BY <1>1, <1>2, <2>2, <2>3, <2>6
  <1>. QED
    BY <1>2, <1>3, <1>4

(* Every call on an object sees what it comes to hold.                      *)
Applied ==
  /\ store' \in [Objects -> Values] /\ seen' \in [Tasks -> SUBSET Values]
  /\ \A t \in Tasks : seen[t] \subseteq seen'[t]
  /\ \A t \in Tasks : pc[t] # "idle" => store'[call[t].object] \in seen'[t]

(* A write applied is seen by every call on the object. *)
LEMMA HoldFacts ==
  ASSUME Invariant, NEW object \in Objects, NEW value \in Values,
         Hold(object, value)
  PROVE  Applied
  <1>1. /\ store' = [store EXCEPT ![object] = value]
        /\ seen' = [t \in Tasks |->
             IF pc[t] # "idle" /\ call[t].object = object THEN seen[t] \cup {value}
                                                          ELSE seen[t]]
    BY DEF Hold
  <1>2. store \in [Objects -> Values] /\ seen \in [Tasks -> SUBSET Values]
        /\ call \in [Tasks -> Calls]
    BY DEF Invariant, Types
  <1>3. store' \in [Objects -> Values]
    BY <1>1, <1>2
  <1>4. ASSUME NEW t \in Tasks
        PROVE  /\ seen'[t] \in SUBSET Values /\ seen[t] \subseteq seen'[t]
               /\ pc[t] # "idle" => store'[call[t].object] \in seen'[t]
    <2>1. call[t].object \in Objects
      BY <1>2 DEF Calls
    <2>2. CASE pc[t] # "idle" /\ call[t].object = object
      BY <1>1, <1>2, <2>1, <2>2
    <2>3. CASE ~(pc[t] # "idle" /\ call[t].object = object)
      <3>1. seen'[t] = seen[t]
        BY <1>1, <2>3
      <3>2. pc[t] # "idle" => store'[call[t].object] = store[call[t].object]
        BY <1>1, <1>2, <2>1, <2>3
      <3>. QED
        BY <1>2, <3>1, <3>2 DEF Invariant, Witnessed
    <2>. QED
      BY <2>2, <2>3
  <1>5. seen' \in [Tasks -> SUBSET Values]
    BY <1>1, <1>4
  <1>. QED
    BY <1>3, <1>4, <1>5 DEF Applied

(* A request that is no write, or is not applied, changes nothing. *)
LEMMA NothingApplied ==
  ASSUME Invariant, UNCHANGED <<store, seen>>
  PROVE  Applied
  BY DEF Applied, Invariant, Types, Witnessed

(* What the inverter takes and answers keeps the invariant.                 *)
LEMMA ServedStep ==
  ASSUME Invariant, NEW request, Handle(request), Applied,
         down' \in Seq(Returned),
         ~torn /\ ~poisoned =>
                  \/ down' = down
                  \/ \E k \in {"ok"} \cup BadAnswers :
                       down' = Append(down, [kind |-> k, value |-> store'[request.object]])
  PROVE  Invariant'
  <1>1. /\ request \in Frames /\ up' \in Seq(Frames)
        /\ ~torn /\ ~poisoned =>
                    /\ guard \in Tasks /\ pc[guard] = "await"
                    /\ request.object = call[guard].object
                    /\ up' = << >> /\ down = << >>
    BY HandleFacts
  <1>2. UNCHANGED <<thread, pc, call, step, made, result, lock, conn, torn>>
    BY DEF Handle
  <1>3. Types'
    BY <1>1, <1>2 DEF Applied, Invariant, Types, lock
  <1>4. Guarded'
    BY <1>2 DEF Invariant, Guarded, lock
  <1>5. Witnessed'
    BY <1>2 DEF Applied, Witnessed
  <1>6. Whole'
    <2>1. SUFFICES ASSUME ~torn, ~poisoned
                   PROVE  (Quiet /\ Alone /\ Upwards /\ Downwards)'
      BY <1>2 DEF Whole, lock
    <2>2. guard' # Nobody /\ pc'[guard'] = "await"
      BY <1>1, <1>2, <2>1, AsyncAssumption DEF lock
    <2>3. store'[request.object] \in seen'[guard]
      BY <1>1, <2>1 DEF Applied
    <2>4. /\ Len(down') = 0 \/ Len(down') = 1
          /\ \A i \in 1..Len(down') : down'[i].value = store'[request.object]
      <3>1. PICK v : v = store'[request.object]
        OBVIOUS
      <3>2. CASE down' = << >>
        BY <3>2
      <3>3. ASSUME NEW k \in {"ok"} \cup BadAnswers, down' = Append(down, [kind |-> k, value |-> v])
            PROVE  /\ Len(down') = 1
                   /\ \A i \in 1..Len(down') : down'[i].value = v
        <4>1. Append(<< >>, [kind |-> k, value |-> v]) = <<[kind |-> k, value |-> v]>>
          OBVIOUS
        <4>2. down' = <<[kind |-> k, value |-> v]>>
          BY <1>1, <2>1, <3>3, <4>1
        <4>. QED
          BY <4>2
      <3>. QED
        BY <1>1, <2>1, <3>1, <3>2, <3>3
    <2>5. Len(up') = 0
      BY <1>1, <2>1
    <2>6. Quiet' /\ Alone' /\ Upwards'
      BY <2>2, <2>4, <2>5 DEF Quiet, Alone, Upwards
    <2>7. Downwards'
      BY <1>2, <2>3, <2>4 DEF Downwards, lock
    <2>. QED
      BY <2>6, <2>7
  <1>. QED
    BY <1>3, <1>4, <1>5, <1>6 DEF Invariant

(* The inverter answers a request. *)
LEMMA InverterAnswerStep ==
  ASSUME Invariant, InverterAnswer
  PROVE  Invariant'
  <1>1. PICK request : /\ Handle(request)
                       /\ IF request.command = "write"
                          THEN Hold(request.object, request.value)
                          ELSE UNCHANGED <<store, seen>>
                       /\ \E k \in {"ok"} \cup (BadAnswers \cap Faults) :
                            down' = Append(down, [kind |-> k, value |-> store'[request.object]])
    BY DEF InverterAnswer
  <1>2. request \in Frames
    BY <1>1, HandleFacts
  <1>3. request.object \in Objects /\ (request.command = "write" => request.value \in Values)
    BY <1>2, FramesTyped
  <1>4. Applied
    BY <1>1, <1>3, HoldFacts, NothingApplied
  <1>5. PICK k \in {"ok"} \cup BadAnswers :
          down' = Append(down, [kind |-> k, value |-> store'[request.object]])
    BY <1>1
  <1>6. PICK answer : answer = [kind |-> k, value |-> store'[request.object]]
    OBVIOUS
  <1>7. answer \in Returned /\ down \in Seq(Returned)
    BY <1>3, <1>4, <1>6 DEF Applied, Returned, Invariant, Types
  <1>8. down' \in Seq(Returned)
    BY <1>5, <1>6, <1>7, AppendFacts
  <1>. QED
    BY <1>1, <1>4, <1>5, <1>8, ServedStep

(* The inverter drops a request. *)
LEMMA InverterIgnoreStep ==
  ASSUME Invariant, InverterIgnore
  PROVE  Invariant'
  <1>1. PICK request : /\ Handle(request)
                       /\ \/ UNCHANGED <<store, seen>>
                          \/ /\ request.command = "write"
                             /\ Hold(request.object, request.value)
    BY DEF InverterIgnore
  <1>2. request.object \in Objects /\ (request.command = "write" => request.value \in Values)
    BY <1>1, HandleFacts, FramesTyped
  <1>3. Applied
    BY <1>1, <1>2, HoldFacts, NothingApplied
  <1>4. down' = down /\ down \in Seq(Returned)
    BY DEF InverterIgnore, Invariant, Types
  <1>. QED
    BY <1>1, <1>3, <1>4, ServedStep

(* The inverter closes the connection. *)
LEMMA InverterCloseStep ==
  ASSUME Invariant, InverterClose
  PROVE  Invariant'
  <1>1. /\ conn' = "dead" /\ up' = << >> /\ (down' = down \/ down' = << >>)
        /\ UNCHANGED <<pc, call, step, result, seen, fixed, lock, torn>>
    BY DEF InverterClose
  <1>2. << >> \in Seq(Frames) /\ << >> \in Seq(Returned) /\ Len(<< >>) = 0
    OBVIOUS
  <1>3. Types'
    BY <1>1, <1>2 DEF Invariant, Types, fixed, lock
  <1>4. Guarded' /\ Witnessed'
    BY <1>1 DEF Invariant, Guarded, Witnessed, fixed, lock
  <1>5. Whole'
    <2>1. Len(up) \in Nat /\ Len(down) \in Nat
      BY EmptyFacts DEF Invariant, Types
    <2>. QED
      BY <1>1, <1>2, <2>1 DEF Invariant, Whole, Quiet, Alone, Upwards, Downwards, lock
  <1>. QED
    BY <1>3, <1>4, <1>5 DEF Invariant

-----------------------------------------------------------------------------
(* The invariant.                                                          *)

(* The invariant holds at first. *)
LEMMA InvariantInit ==
  ASSUME Init
  PROVE  Invariant
  <1>1. << >> \in Seq(Frames) /\ << >> \in Seq(Returned) /\ Len(<< >>) = 0
    OBVIOUS
  <1>2. Start("read") \in Steps
    BY StartType
  <1>3. Types
    BY <1>1, <1>2, AsyncAssumption DEF Init, Types, ControlPoints
  <1>4. Guarded /\ Witnessed
    BY AsyncAssumption DEF Init, Guarded, Witnessed, Using
  <1>5. Whole
    BY <1>1 DEF Init, Whole, Quiet, Alone, Upwards, Downwards
  <1>. QED
    BY <1>3, <1>4, <1>5 DEF Invariant

(* Every step keeps the invariant. *)
LEMMA InvariantNext ==
  ASSUME Invariant, [Next]_vars
  PROVE  Invariant'
  <1>1. ASSUME NEW t \in Tasks, Begin(t) \/ Cancel(t)
        PROVE  Invariant'
    BY <1>1, BeginStep, CancelStep
  <1>2. ASSUME NEW t \in Tasks, Step(t)
        PROVE  Invariant'
    BY <1>2, BlockStep, LockStep, LockPoisonedStep, ConnectStep, ConnectFailStep,
       SendStep, SendFailStep, AwaitAnswerStep, AwaitBadStep, AwaitPanicStep,
       AwaitTimeoutStep, AwaitEofStep
       DEF Step
  <1>3. CASE UNCHANGED vars
    BY <1>3 DEF vars, lock, link, Invariant, Types, Guarded, Whole, Quiet, Alone,
                Upwards, Downwards, Witnessed
  <1>. QED
    BY <1>1, <1>2, <1>3, InverterAnswerStep, InverterIgnoreStep, InverterCloseStep
       DEF Next

(* Unless an exchange was cancelled on the connection or the mutex is       *)
(* poisoned, what is on it is one request or one answer of the task that    *)
(* holds the guard and awaits it.                                           *)
THEOREM InvariantHolds == Spec => []Invariant
  BY InvariantInit, InvariantNext, PTL DEF Spec

(* State has its type, and a task holds the guard of the connection exactly *)
(* from taking the mutex to the end of its exchange: no two tasks, on any   *)
(* threads, are on the connection at once.                                  *)
THEOREM TypeCorrect == Spec => []TypeOK
  <1>1. Invariant => TypeOK
    BY DEF Invariant, Types, Guarded, Using, ControlPoints, TypeOK
  <1>. QED
    BY <1>1, InvariantHolds, PTL

(* A call that gets the mutex finds a connection with nothing in flight,    *)
(* whatever went wrong in the exchange before it, unless one was cancelled; *)
(* after a panic of the parser no call gets it.                             *)
THEOREM CleanConnection == Spec => []CleanWhenFree
  <1>1. Invariant => CleanWhenFree
    BY DEF Invariant, Whole, Quiet, CleanWhenFree
  <1>. QED
    BY <1>1, InvariantHolds, PTL

(* A step of a task moves no other task. *)
LEMMA OthersStay ==
  ASSUME Invariant, NEW t \in Tasks, Begin(t) \/ Step(t) \/ Cancel(t)
  PROVE  \A u \in Tasks \ {t} : pc'[u] = pc[u]
  <1>1. ASSUME NEW next, Proceed(t, next)
        PROVE  \A u \in Tasks \ {t} : pc'[u] = pc[u]
    BY <1>1 DEF Proceed, Invariant, Types
  <1>2. CASE Begin(t) \/ Block(t) \/ Lock(t) \/ Connect(t) \/ Send(t)
    BY <1>2 DEF Begin, Block, Lock, Connect, Send, Invariant, Types
  <1>3. CASE LockPoisoned(t) \/ ConnectFail(t) \/ Cancel(t) \/ AwaitAnswer(t) \/ AwaitPanic(t)
    BY <1>1, <1>3 DEF LockPoisoned, ConnectFail, Cancel, AwaitAnswer, AwaitPanic,
                      Failed, Succeeded
  <1>4. CASE SendFail(t) \/ AwaitBad(t) \/ AwaitTimeout(t) \/ AwaitEof(t)
    BY <1>1, <1>4 DEF SendFail, AwaitBad, AwaitTimeout, AwaitEof, Drop, Failed
  <1>. QED
    BY <1>2, <1>3, <1>4 DEF Step

(* Only an answer read from the connection makes a call succeed. *)
LEMMA OkFromAnswer ==
  ASSUME Invariant, NEW t \in Tasks, Begin(t) \/ Step(t) \/ Cancel(t),
         pc'[t] = "idle", result'[t].kind = "Ok"
  PROVE  AwaitAnswer(t)
  <1>1. CASE Begin(t) \/ Block(t) \/ Lock(t) \/ Connect(t) \/ Send(t)
    <2>1. pc'[t] # "idle"
      BY <1>1 DEF Begin, Block, Lock, Connect, Send, Invariant, Types
    <2>. QED
      BY <2>1
  <1>2. CASE LockPoisoned(t) \/ Cancel(t)
    <2>1. result'[t].kind # "Ok"
      BY <1>2, GivenUpFacts DEF LockPoisoned, Cancel, Invariant
    <2>. QED
      BY <2>1
  <1>3. CASE \/ ConnectFail(t) \/ SendFail(t) \/ AwaitBad(t)
             \/ AwaitPanic(t) \/ AwaitTimeout(t) \/ AwaitEof(t)
    BY <1>3, ConnectFailStep, SendFailStep, AwaitBadStep, AwaitPanicStep,
       AwaitTimeoutStep, AwaitEofStep
  <1>. QED
    BY <1>1, <1>2, <1>3 DEF Step

(* The value a call returns is one that its own object held while the call  *)
(* went on: sharing the connection gives no task the answer of another, and *)
(* a retry none the answer of an exchange given up.                         *)
THEOREM AnswersAreCurrent == Spec => AnswerIsCurrent
  <1>1. ASSUME Invariant, [Next]_vars, NEW t \in Tasks,
               pc[t] # "idle", pc'[t] = "idle", result'[t].kind = "Ok", ~torn
        PROVE  result'[t].value \in seen[t]
    <2>1. pc' # pc
      BY <1>1
    <2>2. PICK u \in Tasks : Begin(u) \/ Step(u) \/ Cancel(u)
      BY <1>1, <2>1 DEF Next, vars, InverterAnswer, InverterIgnore, InverterClose, Handle
    <2>3. u = t
      BY <1>1, <2>2, OthersStay
    <2>. QED
      BY <1>1, <2>2, <2>3, OkFromAnswer, AwaitAnswerStep
  <1>2. Invariant /\ [Next]_vars =>
          [\A t \in Tasks :
             pc[t] # "idle" /\ pc'[t] = "idle" /\ result'[t].kind = "Ok" /\ ~torn =>
               result'[t].value \in seen[t]]_vars
    BY <1>1
  <1>. QED
    BY <1>2, InvariantHolds, PTL DEF Spec, AnswerIsCurrent
=============================================================================
