------------------------------ MODULE AsyncClient ------------------------------
(***************************************************************************)
(* The asynchronous client (src/src/async_client.rs): calls of several     *)
(* tasks share one pooled connection behind a std::sync::Mutex, whose      *)
(* guard try_exchange holds across its awaits.  The guard is not Send, so  *)
(* a task stays on its thread; waiting for the mutex blocks that thread,   *)
(* with every other task on it.  A call may be cancelled at an await.      *)
(***************************************************************************)
EXTENDS Retry, Sequences

CONSTANTS
  Tasks,        \* each makes one call at a time
  Threads,      \* the threads they run on
  Placements,   \* the ways tasks are placed on threads
  Nobody,       \* not a task
  Objects,      \* the objects read and written
  Values,       \* what an object may hold
  Operations,   \* the calls made: subset of {"read", "write", "verify"}
  Faults,       \* what may go wrong, see AllFaults
  CallLimit     \* bound: calls that a task makes

(* "late": the answer comes after the timeout; "ignore": a request is       *)
(* neither applied nor answered; "close": the inverter closes; "down": it   *)
(* cannot be connected to; "stall": a write times out; "cancel": a call is  *)
(* dropped; the rest is what is wrong with an answer, as in SyncClient.     *)
BadAnswers == {"garbled", "empty", "undecodable", "panic"}
AllFaults  == {"late", "ignore", "close", "down", "stall", "cancel"} \cup BadAnswers

(* A request behind the part of a frame that a cancelled write leaves may   *)
(* be taken for the rest of it, and is then ignored.                        *)
ASSUME AsyncAssumption ==
  /\ Nobody \notin Tasks
  /\ Placements \subseteq [Tasks -> Threads]
  /\ NoValue \notin Values
  /\ Operations \subseteq {"read", "write", "verify"}
  /\ Faults \subseteq AllFaults
  /\ "cancel" \in Faults => "ignore" \in Faults
  /\ CallLimit \in Nat \ {0}

VARIABLES
  thread,   \* thread[t]: where task t runs
  pc,       \* pc[t]: "idle", or the control point of its try_exchange
  call,     \* call[t]: its call
  step,     \* step[t]: where the call stands, see Retry
  made,     \* made[t]: calls made
  result,   \* result[t]: what its last call returned
  seen,     \* history: what the object of the call held since it began
  guard,    \* the task that holds the mutex, or Nobody
  poisoned, \* the mutex was released by a panic
  conn,     \* the pooled connection
  up,       \* requests on it, not seen by the inverter
  down,     \* answers on it, not read
  torn,     \* history: an exchange was cancelled on this connection
  store     \* what the inverter's objects hold

vars == <<thread, pc, call, step, made, result, seen, guard, poisoned, conn, up,
          down, torn, store>>

link  == <<conn, up, down, torn>>
lock  == <<guard, poisoned>>
fixed == <<thread, made, store>>

(* A call of read has no value to write. *)
Calls == [op : Operations \cap {"read"}, object : Objects, value : {NoValue}]
           \cup [op : Operations \ {"read"}, object : Objects, value : Values]

(* No task of the thread of t sits in Mutex::lock. *)
Runs(t) == \A u \in Tasks : thread[u] = thread[t] => pc[u] # "blocked"

-----------------------------------------------------------------------------
(* read, write, write_and_verify                                           *)

Begin(t) ==
  /\ pc[t] = "idle" /\ Runs(t)
  /\ made[t] < CallLimit
  /\ \E k \in Calls :
       /\ call' = [call EXCEPT ![t] = k]
       /\ step' = [step EXCEPT ![t] = Start(k.op)]
       /\ seen' = [seen EXCEPT ![t] = {store[k.object]}]
  /\ pc' = [pc EXCEPT ![t] = "lock"]
  /\ made' = [made EXCEPT ![t] = @ + 1]
  /\ result' = [result EXCEPT ![t] = NoResult]
  /\ UNCHANGED <<thread, lock, link, store>>

(* The next exchange, after a sleep if it is a retry, or the end. *)
Proceed(t, next) ==
  /\ step' = [step EXCEPT ![t] = next.step]
  /\ result' = [result EXCEPT ![t] = next.result]
  /\ IF next.result = NoResult
     THEN /\ pc' = [pc EXCEPT ![t] = "lock"]
          /\ UNCHANGED seen
     ELSE /\ pc' = [pc EXCEPT ![t] = "idle"]
          /\ seen' = [seen EXCEPT ![t] = {}]
  /\ UNCHANGED call

Failed(t, e)    == Proceed(t, AfterError(step[t], e))
Succeeded(t, v) == Proceed(t, AfterValue(step[t], v, call[t].value))

-----------------------------------------------------------------------------
(* try_exchange and exchange_on                                            *)

Block(t) ==
  /\ pc[t] = "lock" /\ Runs(t)
  /\ guard # Nobody
  /\ pc' = [pc EXCEPT ![t] = "blocked"]
  /\ UNCHANGED <<call, step, result, seen, fixed, lock, link>>

Lock(t) ==
  /\ pc[t] = "blocked" \/ (pc[t] = "lock" /\ Runs(t))
  /\ guard = Nobody /\ ~poisoned
  /\ guard' = t
  /\ pc' = [pc EXCEPT ![t] = IF conn = "none" THEN "connect" ELSE "send"]
  /\ UNCHANGED <<call, step, result, seen, fixed, poisoned, link>>

(* expect("async client conn lock") panics. *)
LockPoisoned(t) ==
  /\ pc[t] = "blocked" \/ (pc[t] = "lock" /\ Runs(t))
  /\ guard = Nobody /\ poisoned
  /\ Proceed(t, Done("panic", NoValue))
  /\ UNCHANGED <<fixed, lock, link>>

Unlock == guard' = Nobody /\ UNCHANGED poisoned

Fresh(state) == conn' = state /\ up' = << >> /\ down' = << >> /\ torn' = FALSE

Connect(t) ==
  /\ pc[t] = "connect" /\ Runs(t)
  /\ Fresh("live")
  /\ pc' = [pc EXCEPT ![t] = "send"]
  /\ UNCHANGED <<call, step, result, seen, fixed, lock>>

ConnectFail(t) ==
  /\ pc[t] = "connect" /\ Runs(t)
  /\ "down" \in Faults
  /\ \E e \in {"Io", "Timeout"} : Failed(t, e)
  /\ Unlock
  /\ UNCHANGED <<fixed, link>>

(* A write to a connection the inverter has closed may still succeed. *)
Send(t) ==
  /\ pc[t] = "send" /\ Runs(t)
  /\ up' = IF conn = "live" THEN Append(up, Request(call[t], step[t])) ELSE up
  /\ pc' = [pc EXCEPT ![t] = "await"]
  /\ UNCHANGED <<call, step, result, seen, fixed, lock, conn, down, torn>>

(* Mutant: the connection stays in the pool. *)
DropPooled(t, e) ==
  /\ Failed(t, e)
  /\ Unlock
  /\ UNCHANGED <<fixed, link>>

(* exchange_on returned an error: the connection is taken out of the pool. *)
Drop(t, e) ==
  /\ Fresh("none")
  /\ Failed(t, e)
  /\ Unlock
  /\ UNCHANGED fixed

(* write_all fails on a connection the inverter has closed, or times out on *)
(* one it does not read from; what was written goes with the connection.    *)
SendFail(t) ==
  /\ pc[t] = "send" /\ Runs(t)
  /\ \/ conn = "dead" /\ Drop(t, "Io")
     \/ conn = "live" /\ "stall" \in Faults /\ Drop(t, "Timeout")

(* A read returns one or more answers; the parser stops behind the first    *)
(* and the rest of the buffer is dropped.                                   *)
ReadAnswer ==
  \E n \in 1..Len(down) : down' = SubSeq(down, n + 1, Len(down))

Answered(t, kinds) ==
  /\ pc[t] = "await" /\ Runs(t)
  /\ down # << >>
  /\ Head(down).kind \in kinds

AwaitAnswer(t) ==
  /\ Answered(t, {"ok"})
  /\ ReadAnswer
  /\ Succeeded(t, Head(down).value)
  /\ Unlock
  /\ UNCHANGED <<fixed, conn, up, torn>>

ErrorOf(kind) ==
  CASE kind = "garbled" -> "Frame"
    [] kind = "empty" -> "EmptyPayload"
    [] kind = "undecodable" -> "PayloadTooShort"

AwaitBad(t) ==
  /\ Answered(t, {"garbled", "empty", "undecodable"})
  /\ Drop(t, ErrorOf(Head(down).kind))

(* The parser panics with the guard held: the mutex is poisoned.  It panics *)
(* in the header, so a rest of the answer may still be on the connection.   *)
AwaitPanic(t) ==
  /\ Answered(t, {"panic"})
  /\ ReadAnswer \/ UNCHANGED down
  /\ Proceed(t, Done("panic", NoValue))
  /\ guard' = Nobody /\ poisoned' = TRUE
  /\ UNCHANGED <<fixed, conn, up, torn>>

(* The timeout of one read.  An inverter that is not late has then seen the *)
(* request and does not answer it.                                          *)
AwaitTimeout(t) ==
  /\ pc[t] = "await" /\ Runs(t)
  /\ conn = "live" /\ down = << >>
  /\ up = << >> \/ "late" \in Faults
  /\ Drop(t, "Timeout")

(* Mutant: the read loop goes on at the end of file. *)
AwaitEofForever(t) ==
  /\ pc[t] = "await" /\ Runs(t)
  /\ conn = "dead" /\ down = << >>
  /\ UNCHANGED vars

AwaitEof(t) ==
  /\ pc[t] = "await" /\ Runs(t)
  /\ conn = "dead" /\ down = << >>
  /\ \E e \in {"Timeout", "Io"} : Drop(t, e)

(* A call dropped in write_all has written none or a part of its request,   *)
(* one dropped in read all of it.                                           *)
Tears(t) ==
  torn' \in CASE pc[t] = "await" -> {TRUE}
             [] pc[t] = "send" -> {torn, TRUE}
             [] OTHER -> {torn}

(* Mutant: a cancelled call keeps the mutex. *)
CancelLocked(t) ==
  /\ "cancel" \in Faults
  /\ pc[t] \in {"lock", "connect", "send", "await"} /\ Runs(t)
  /\ Proceed(t, Done("cancelled", NoValue))
  /\ Tears(t)
  /\ UNCHANGED <<fixed, guard, poisoned, conn, up, down>>

(* The future is dropped where it waits: the guard goes, the connection     *)
(* stays, and with it the part or the answer of a request already written.  *)
Cancel(t) ==
  /\ "cancel" \in Faults
  /\ pc[t] \in {"lock", "connect", "send", "await"} /\ Runs(t)
  /\ Proceed(t, Done("cancelled", NoValue))
  /\ guard' = IF guard = t THEN Nobody ELSE guard
  /\ Tears(t)
  /\ UNCHANGED <<fixed, poisoned, conn, up, down>>

Step(t) ==
  \/ Block(t) \/ Lock(t) \/ LockPoisoned(t) \/ Connect(t) \/ ConnectFail(t)
  \/ Send(t) \/ SendFail(t) \/ AwaitAnswer(t) \/ AwaitBad(t) \/ AwaitPanic(t)
  \/ AwaitTimeout(t) \/ AwaitEof(t)

-----------------------------------------------------------------------------
(* The inverter (external).                                                *)

Hold(object, value) ==
  /\ store' = [store EXCEPT ![object] = value]
  /\ seen' = [t \in Tasks |->
       IF pc[t] # "idle" /\ call[t].object = object THEN seen[t] \cup {value}
                                                    ELSE seen[t]]

Handle(request) ==
  /\ conn = "live" /\ up # << >>
  /\ request = Head(up)
  /\ up' = Tail(up)
  /\ UNCHANGED <<thread, pc, call, step, made, result, lock, conn, torn>>

InverterAnswer ==
  \E request \in {up[i] : i \in 1..Len(up)} :
    /\ Handle(request)
    /\ IF request.command = "write" THEN Hold(request.object, request.value)
                                    ELSE UNCHANGED <<store, seen>>
    /\ \E k \in {"ok"} \cup (BadAnswers \cap Faults) :
         down' = Append(down, [kind |-> k, value |-> store'[request.object]])

(* A request is dropped; a write may have been applied all the same. *)
InverterIgnore ==
  /\ "ignore" \in Faults
  /\ \E request \in {up[i] : i \in 1..Len(up)} :
       /\ Handle(request)
       /\ \/ UNCHANGED <<store, seen>>
          \/ /\ request.command = "write"
             /\ Hold(request.object, request.value)
  /\ UNCHANGED down

InverterClose ==
  /\ "close" \in Faults
  /\ conn = "live"
  /\ conn' = "dead"
  /\ up' = << >>
  /\ down' \in {down, << >>}
  /\ UNCHANGED <<pc, call, step, result, seen, fixed, lock, torn>>

Init ==
  /\ thread \in Placements
  /\ pc = [t \in Tasks |-> "idle"]
  /\ \E k \in Calls : call = [t \in Tasks |-> k]
  /\ step = [t \in Tasks |-> Start("read")]
  /\ made = [t \in Tasks |-> 0]
  /\ result = [t \in Tasks |-> NoResult]
  /\ seen = [t \in Tasks |-> {}]
  /\ guard = Nobody /\ poisoned = FALSE
  /\ conn = "none" /\ up = << >> /\ down = << >> /\ torn = FALSE
  /\ store \in [Objects -> Values]

Next ==
  \/ \E t \in Tasks : Begin(t) \/ Step(t) \/ Cancel(t)
  \/ InverterAnswer \/ InverterIgnore \/ InverterClose

Spec == Init /\ [][Next]_vars

(* Threads run, and a runtime polls every task that can go on; an inverter  *)
(* that is not late handles what it is sent within the timeout.             *)
FairSpec ==
  /\ Spec
  /\ \A t \in Tasks : WF_vars(Step(t))
  /\ WF_vars(InverterAnswer \/ InverterIgnore)

-----------------------------------------------------------------------------
(* Properties.                                                             *)

(* Types, and who may hold the guard. *)
TypeOK ==
  /\ pc \in [Tasks -> {"idle", "lock", "blocked", "connect", "send", "await"}]
  /\ call \in [Tasks -> Calls]
  /\ step \in [Tasks -> Steps]
  /\ guard \in Tasks \cup {Nobody}
  /\ \A t \in Tasks : guard = t <=> pc[t] \in {"connect", "send", "await"}
  /\ conn \in {"none", "live", "dead"}
  /\ store \in [Objects -> Values]

(* "Connection may be in an unknown state; drop it so the next call         *)
(* reconnects": the mutex is free only with nothing in flight, also after a *)
(* late answer, unless an exchange was cancelled on the connection; what a  *)
(* panic of the parser leaves is never read, since the mutex is poisoned.   *)
CleanWhenFree ==
  guard = Nobody /\ ~torn /\ ~poisoned => up = << >> /\ down = << >>

(* The value a call returns is one that its own object held while the call  *)
(* was going on, whatever the other tasks do, unless an exchange was        *)
(* cancelled on the connection.                                             *)
AnswerIsCurrent ==
  [][\A t \in Tasks :
       pc[t] # "idle" /\ pc'[t] = "idle" /\ result'[t].kind = "Ok" /\ ~torn =>
         result'[t].value \in seen[t]]_vars

(* Every call ends, unless a task waits for the mutex on the thread of the  *)
(* task that holds it: then that thread never runs again.                   *)
SelfBlocked(t) == pc[t] = "blocked" /\ guard # Nobody /\ thread[guard] = thread[t]

CallsEnd ==
  \A t \in Tasks :
    pc[t] # "idle" ~> pc[t] = "idle" \/ \E u \in Tasks : SelfBlocked(u)
=============================================================================
