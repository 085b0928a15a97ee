------------------------------ MODULE Multiplexer ------------------------------
(***************************************************************************)
(* What the proxy promises (the header of src/src/proxy.rs): the requests  *)
(* of many clients share one connection, one exchange at a time; a request *)
(* is answered at most once, to the client that made it, in the order that *)
(* client made them; a request that fails is dropped in silence.           *)
(***************************************************************************)
EXTENDS Sequences

CONSTANTS Clients, Requests, Nobody

VARIABLES
  todo,      \* todo[c]: requests of c not finished yet, oldest first
  serving,   \* the client whose oldest request is being served, or Nobody
  answers    \* answers[c]: answers c has not read, each with its request

vars == <<todo, serving, answers>>

Init ==
  /\ todo = [c \in Clients |-> << >>]
  /\ serving = Nobody
  /\ answers = [c \in Clients |-> << >>]

Submit(c) ==
  /\ \E r \in Requests : todo' = [todo EXCEPT ![c] = Append(@, r)]
  /\ UNCHANGED <<serving, answers>>

Begin(c) ==
  /\ serving = Nobody
  /\ todo[c] # << >>
  /\ serving' = c
  /\ UNCHANGED <<todo, answers>>

Answer(c) ==
  /\ serving = c
  /\ answers' = [answers EXCEPT ![c] = Append(@, [to |-> c, request |-> Head(todo[c])])]
  /\ todo' = [todo EXCEPT ![c] = Tail(@)]
  /\ serving' = Nobody

Fail(c) ==
  /\ serving = c
  /\ todo' = [todo EXCEPT ![c] = Tail(@)]
  /\ serving' = Nobody
  /\ UNCHANGED answers

(* What the client wrote was not a request (a desynchronized frame). *)
Skip(c) ==
  /\ serving # c
  /\ todo[c] # << >>
  /\ todo' = [todo EXCEPT ![c] = Tail(@)]
  /\ UNCHANGED <<serving, answers>>

Take(c) ==
  /\ answers[c] # << >>
  /\ answers' = [answers EXCEPT ![c] = Tail(@)]
  /\ UNCHANGED <<todo, serving>>

(* The client hangs up and reads no more; what it asked for may be served. *)
HangUp(c) ==
  /\ answers' = [answers EXCEPT ![c] = << >>]
  /\ UNCHANGED <<todo, serving>>

(* The session of c is over: nothing more is served for it. *)
End(c) ==
  /\ todo' = [todo EXCEPT ![c] = << >>]
  /\ answers' = [answers EXCEPT ![c] = << >>]
  /\ serving' = IF serving = c THEN Nobody ELSE serving

Next ==
  \E c \in Clients :
    \/ Submit(c) \/ Begin(c) \/ Answer(c) \/ Fail(c) \/ Skip(c)
    \/ Take(c) \/ HangUp(c) \/ End(c)

Spec == Init /\ [][Next]_vars
=============================================================================
