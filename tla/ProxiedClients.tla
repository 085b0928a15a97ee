----------------------------- MODULE ProxiedClients -----------------------------
(***************************************************************************)
(* Programs that use the library's clients behind the proxy: the calls of  *)
(* client.rs and async_client.rs on one side, the proxy of proxy.rs as     *)
(* Multiplexer promises it, and one object of the inverter on the other.   *)
(* A client that gives up does not stop the proxy, and the proxy that      *)
(* gives up does not stop the inverter.                                    *)
(***************************************************************************)
EXTENDS Retry, Sequences, SequencesExt

CONSTANTS
  Clients,       \* the programs, each makes one call at a time
  Keep,          \* those that use client.rs: an error leaves the connection open
  Nobody,        \* not a session
  Object,        \* the object
  Values,        \* what it may hold
  Operations,    \* the calls made: subset of {"read", "write", "verify"}
  CallLimit,     \* bound: calls of all clients together
  SessionLimit   \* bound: connections of a client

(* Every connection of a client is a session of its own in the proxy. *)
Sessions == Clients \X (1..SessionLimit)

ASSUME ProxiedAssumption ==
  /\ Keep \subseteq Clients
  /\ Nobody \notin Sessions
  /\ NoValue \notin Values
  /\ Operations \subseteq {"read", "write", "verify"}
  /\ CallLimit \in Nat /\ SessionLimit \in Nat \ {0}

Call(op, v) == [op |-> op, object |-> Object, value |-> v]
Calls == {Call("read", NoValue) : op \in Operations \cap {"read"}}
           \cup {Call(op, v) : op \in Operations \ {"read"}, v \in Values}

Frames == [command : {"read", "write"}, object : {Object}, value : Values \cup {NoValue}]

VARIABLES
  pc,         \* pc[c]: "idle", "try" or "await"
  call,       \* call[c]: its call
  step,       \* step[c]: where the call stands, see Retry
  made,       \* calls made
  result,     \* result[c]: what its last call returned
  session,    \* session[c]: the number of its connection, 0 before the first
  gone,       \* sessions whose client has hung up
  todo, serving, answers,   \* the proxy, see Multiplexer
  readings,   \* readings[s]: the values in answers[s]
  reading,    \* what the inverter has replied in the exchange, or NoValue
  limbo,      \* writes of failed exchanges that the inverter may still have
  store,      \* what the object holds
  seen,       \* history: seen[c]: what it held since c's call began
  owed,       \* history: owed[c]: replies were owed to c when its call began
  credit      \* history: writes of c sent and not executed

vars == <<pc, call, step, made, result, session, gone, todo, serving, answers,
          readings, reading, limbo, store, seen, owed, credit>>
calls     == <<pc, call, step, made, result, seen, owed>>
sessions  == <<session, gone>>
proxy     == <<todo, serving, answers, readings, reading>>
inverter  == <<limbo, store>>

Mux == INSTANCE Multiplexer WITH Clients <- Sessions, Requests <- Frames

Mine(c) == <<c, session[c]>>
Up(c)   == session[c] # 0 /\ Mine(c) \notin gone

-----------------------------------------------------------------------------
(* The clients                                                             *)

Begin(c) ==
  /\ pc[c] = "idle" /\ made < CallLimit
  /\ \E k \in Calls :
       /\ call' = [call EXCEPT ![c] = k]
       /\ step' = [step EXCEPT ![c] = Start(k.op)]
  /\ pc' = [pc EXCEPT ![c] = "try"]
  /\ made' = made + 1
  /\ result' = [result EXCEPT ![c] = NoResult]
  /\ seen' = [seen EXCEPT ![c] = {store}]
  /\ owed' = [owed EXCEPT ![c] = Up(c) /\ (todo[Mine(c)] # << >> \/ answers[Mine(c)] # << >>)]
  /\ UNCHANGED <<sessions, proxy, inverter, credit>>

(* The call makes its next exchange or returns. *)
Proceed(c, next) ==
  /\ step' = [step EXCEPT ![c] = next.step]
  /\ result' = [result EXCEPT ![c] = next.result]
  /\ IF next.result = NoResult
     THEN pc' = [pc EXCEPT ![c] = "try"] /\ UNCHANGED <<seen, owed>>
     ELSE /\ pc' = [pc EXCEPT ![c] = "idle"]
          /\ seen' = [seen EXCEPT ![c] = {}]
          /\ owed' = [owed EXCEPT ![c] = FALSE]
  /\ UNCHANGED <<call, made>>

(* Connecting fails when the bound is reached. *)
ConnectFail(c) ==
  /\ pc[c] = "try" /\ ~Up(c)
  /\ session[c] = SessionLimit
  /\ Proceed(c, AfterError(step[c], "Io"))
  /\ UNCHANGED <<sessions, proxy, inverter, credit>>

(* try_exchange connects if it has no connection, and writes its frame. *)
Send(c) ==
  /\ pc[c] = "try"
  /\ session' = [session EXCEPT ![c] = IF Up(c) THEN @ ELSE @ + 1]
  /\ session'[c] <= SessionLimit
  /\ Mux!Submit(<<c, session'[c]>>)
  /\ LET frame == Request(call[c], step[c])
     IN  /\ todo'[<<c, session'[c]>>] = Append(todo[<<c, session'[c]>>], frame)
         /\ credit' = [credit EXCEPT ![c] = IF frame.command = "write" THEN @ + 1 ELSE @]
  /\ pc' = [pc EXCEPT ![c] = "await"]
  /\ UNCHANGED <<call, step, made, result, seen, owed, gone, readings, reading, inverter>>

(* A read returns one or more answers; the first is taken, the others are   *)
(* dropped with the buffer.                                                 *)
Receive(c) ==
  /\ pc[c] = "await" /\ answers[Mine(c)] # << >>
  /\ \E n \in 1..Len(answers[Mine(c)]) :
       /\ answers' = [answers EXCEPT ![Mine(c)] = SubSeq(@, n + 1, Len(@))]
       /\ readings' = [readings EXCEPT ![Mine(c)] = SubSeq(@, n + 1, Len(@))]
  /\ Proceed(c, AfterValue(step[c], Head(readings[Mine(c)]), call[c].value))
  /\ UNCHANGED <<sessions, todo, serving, reading, inverter, credit>>

(* Mutant: the asynchronous client keeps its connection as well. *)
TimeOutKept(c) ==
  /\ pc[c] = "await" /\ answers[Mine(c)] = << >>
  /\ Proceed(c, AfterError(step[c], "Timeout"))
  /\ UNCHANGED <<sessions, proxy, inverter, credit>>

(* The client waits no longer, perhaps because of the requests of others in *)
(* front.  AsyncClient drops its connection, Client does not.               *)
TimeOut(c) ==
  /\ pc[c] = "await" /\ answers[Mine(c)] = << >>
  /\ Proceed(c, AfterError(step[c], "Timeout"))
  /\ gone' = IF c \in Keep THEN gone ELSE gone \cup {Mine(c)}
  /\ UNCHANGED <<session, proxy, inverter, credit>>

-----------------------------------------------------------------------------
(* The proxy                                                               *)

(* exchange() has the mutex and forwards the request. *)
Forward(s) ==
  /\ Mux!Begin(s)
  /\ UNCHANGED <<calls, sessions, readings, reading, inverter, credit>>

(* The reply goes to the client, if he still is there. *)
Deliver(s) ==
  /\ serving = s /\ reading # NoValue
  /\ IF s \in gone
     THEN Mux!Fail(s) /\ UNCHANGED readings
     ELSE Mux!Answer(s) /\ readings' = [readings EXCEPT ![s] = Append(@, reading)]
  /\ reading' = NoValue
  /\ UNCHANGED <<calls, sessions, inverter, credit>>

(* The exchange fails after the frame was written: the connection to the    *)
(* inverter is dropped, a write it has not executed may yet be.             *)
Abandon ==
  /\ limbo' = IF reading = NoValue /\ Head(todo[serving]).command = "write"
              THEN Append(limbo, [by |-> serving[1], value |-> Head(todo[serving]).value])
              ELSE limbo
  /\ reading' = NoValue
  /\ UNCHANGED <<calls, sessions, readings, store, credit>>

(* Mutant: the request is sent again. *)
FailRetried(s) ==
  /\ serving = s /\ serving' = Nobody
  /\ Abandon
  /\ UNCHANGED <<todo, answers>>

Fail(s) == Mux!Fail(s) /\ Abandon

(* The session of a client that has hung up ends, between two exchanges. *)
EndSession(s) ==
  /\ s \in gone /\ serving # s /\ todo[s] # << >>
  /\ Mux!End(s)
  /\ UNCHANGED <<calls, sessions, readings, reading, inverter, credit>>

-----------------------------------------------------------------------------
(* The inverter (external)                                                 *)

Apply(c, v) ==
  /\ store' = v
  /\ seen' = [d \in Clients |-> IF pc[d] # "idle" THEN seen[d] \cup {v} ELSE seen[d]]
  /\ credit' = [credit EXCEPT ![c] = @ - 1]

Execute ==
  /\ serving # Nobody /\ reading = NoValue
  /\ IF Head(todo[serving]).command = "write"
     THEN Apply(serving[1], Head(todo[serving]).value)
     ELSE UNCHANGED <<store, seen, credit>>
  /\ reading' = store'
  /\ UNCHANGED <<pc, call, step, made, result, owed, sessions, todo, serving, answers,
                 readings, limbo>>

(* It executes a write although the proxy has given up. *)
ExecuteLate ==
  /\ \E i \in 1..Len(limbo) :
       /\ Apply(limbo[i].by, limbo[i].value)
       /\ limbo' = RemoveAt(limbo, i)
  /\ UNCHANGED <<pc, call, step, made, result, owed, sessions, proxy>>

Init ==
  /\ Mux!Init
  /\ pc = [c \in Clients |-> "idle"]
  /\ \E k \in Calls : call = [c \in Clients |-> k]
  /\ step = [c \in Clients |-> Start("read")]
  /\ made = 0 /\ session = [c \in Clients |-> 0] /\ gone = {}
  /\ result = [c \in Clients |-> NoResult]
  /\ readings = [s \in Sessions |-> << >>] /\ reading = NoValue
  /\ limbo = << >> /\ store \in Values
  /\ seen = [c \in Clients |-> {}] /\ owed = [c \in Clients |-> FALSE]
  /\ credit = [c \in Clients |-> 0]

Next ==
  \/ \E c \in Clients : Begin(c) \/ ConnectFail(c) \/ Send(c)
                          \/ Receive(c) \/ TimeOut(c)
  \/ \E s \in Sessions : Forward(s) \/ Deliver(s) \/ Fail(s) \/ EndSession(s)
  \/ Execute \/ ExecuteLate

Spec == Init /\ [][Next]_vars

-----------------------------------------------------------------------------
(* Properties.                                                             *)

(* Types, and the pairing of answers and what they carry. *)
TypeOK ==
  /\ pc \in [Clients -> {"idle", "try", "await"}]
  /\ step \in [Clients -> Steps]
  /\ \A c \in Clients : pc[c] = "await" => Up(c)
  /\ \A s \in Sessions : Len(readings[s]) = Len(answers[s])
  /\ serving = Nobody => reading = NoValue
  /\ store \in Values

Returns(c) == pc[c] # "idle" /\ pc'[c] = "idle" /\ result'[c].kind = "Ok"

(* A client of client.rs whose session owed it replies when the call began. *)
Stale(c) == c \in Keep /\ owed[c]

(* A value a call returns is one the object held while the call was going   *)
(* on, whoever else uses the inverter, whatever the proxy gives up and      *)
(* however late: a client that hangs up after an error never reads the      *)
(* reply to an earlier request.  The exception is a client that has kept    *)
(* its session with replies still owed to it.                               *)
AnswerIsCurrent ==
  [][\A c \in Clients : Returns(c) /\ ~Stale(c) => result'[c].value \in seen[c]]_vars

(* A write that returns Ok returns its own value, and so does               *)
(* write_and_verify, also if others write the object between its write and  *)
(* its read-back; the exception is the same.                                *)
OwnWrite ==
  [][\A c \in Clients :
       Returns(c) /\ ~Stale(c) /\ call[c].op # "read" =>
         result'[c].value = call[c].value]_vars

(* The proxy repeats nothing: what a client has written is executed at most *)
(* once for every frame, although the proxy abandons exchanges that the     *)
(* inverter goes on with ("request dropped", proxy.rs).                     *)
ExecutedOnce == \A c \in Clients : credit[c] >= 0
=============================================================================
