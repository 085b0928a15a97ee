-------------------------- MODULE ProxiedClientsProofs --------------------------
(***************************************************************************)
(* Proofs about ProxiedClients for any clients of either kind, any values, *)
(* any number of calls, retries and connections.                           *)
(***************************************************************************)
EXTENDS ProxiedClients, QueueFacts, RetryFacts, FiniteSetTheorems

-----------------------------------------------------------------------------
(* The inductive invariant.                                                *)

ControlPoints == {"idle", "try", "await"}

(* What is sent to the inverter, and what is told of it. *)
Wire    == {f \in Frames : f.command = "write" => f.value \in Values}
Replies == [to : Sessions, request : Wire]
Late    == [by : Clients, value : Values]

Types ==
  /\ pc \in [Clients -> ControlPoints]
  /\ call \in [Clients -> Calls]
  /\ step \in [Clients -> Steps]
  /\ DOMAIN result = Clients
  /\ session \in [Clients -> 0..SessionLimit]
  /\ gone \subseteq Sessions
  /\ todo \in [Sessions -> Seq(Wire)]
  /\ serving \in Sessions \cup {Nobody}
  /\ answers \in [Sessions -> Seq(Replies)]
  /\ readings \in [Sessions -> Seq(Values)]
  /\ reading \in Values \cup {NoValue}
  /\ limbo \in Seq(Late)
  /\ store \in Values
  /\ seen \in [Clients -> SUBSET Values]
  /\ owed \in [Clients -> BOOLEAN]
  /\ credit \in [Clients -> Int]

(* Every answer has its reading, the request that is served is there, and a *)
(* session whose client has hung up holds no answers.                       *)
Paired ==
  /\ \A s \in Sessions : Len(readings[s]) = Len(answers[s])
  /\ serving # Nobody => todo[serving] # << >>
  /\ serving = Nobody => reading = NoValue
  /\ \A s \in gone : answers[s] = << >>

(* What there is for session s: requests, exchanges not taken by its        *)
(* client, and the values that it will be told unless something fails.      *)
Asked(s)    == {todo[s][i] : i \in 1..Len(todo[s])}
Load(s)     == Len(todo[s]) + Len(answers[s])
Underway(s) == {readings[s][i] : i \in 1..Len(readings[s])}
                 \cup (IF serving = s THEN {reading} \ {NoValue} ELSE {})

(* Connections not made yet have nothing on them. *)
Unused(c) == \A n \in 1..SessionLimit :
               n > session[c] => Load(<<c, n>>) = 0 /\ <<c, n>> \notin gone

(* A client that hangs up after an error has no more than the request of    *)
(* its call on its connection.                                              *)
Tidy(c) ==
  c \notin Keep =>
    /\ ~owed[c]
    /\ Up(c) => Load(Mine(c)) <= 1 /\ (pc[c] # "await" => Load(Mine(c)) = 0)

(* A call with all there is on its connection its own. *)
Honest(c) == pc[c] # "idle" /\ ~owed[c] /\ Up(c)

(* What the object holds was seen by every call, and so was what the call   *)
(* may read.                                                                *)
Current(c) ==
  /\ pc[c] # "idle" => store \in seen[c]
  /\ Honest(c) => Underway(Mine(c)) \subseteq seen[c]

(* Until its first read-back a call that writes sends and reads its value.  *)
Writing(c) == call[c].op # "read" /\ step[c].phase \in {"exchange", "first"}

Own(c) ==
  Honest(c) /\ Writing(c) =>
    /\ Underway(Mine(c)) \subseteq {call[c].value}
    /\ \A f \in Asked(Mine(c)) : f.command = "write" /\ f.value = call[c].value

Good(c) ==
  /\ pc[c] = "await" => Up(c)
  /\ Unused(c) /\ Tidy(c) /\ Current(c) /\ Own(c)

Invariant == Types /\ Paired /\ \A c \in Clients : Good(c)

-----------------------------------------------------------------------------
(* Sessions.                                                               *)

(* A session with no load has nothing for its client. *)
LEMMA EmptySession ==
  ASSUME Types, Paired, NEW s \in Sessions, Load(s) = 0
  PROVE  /\ todo[s] = << >> /\ answers[s] = << >> /\ readings[s] = << >>
         /\ serving # s
         /\ Underway(s) = {} /\ Asked(s) = {}
  <1>1. todo[s] \in Seq(Wire) /\ answers[s] \in Seq(Replies) /\ readings[s] \in Seq(Values)
    BY DEF Types
  <1>2. Len(todo[s]) \in Nat /\ Len(answers[s]) \in Nat
    BY <1>1, EmptyFacts
  <1>3. Len(todo[s]) = 0 /\ Len(answers[s]) = 0 /\ Len(readings[s]) = 0
    <2>1. Len(todo[s]) + Len(answers[s]) = 0 /\ Len(readings[s]) = Len(answers[s])
      BY DEF Load, Paired
    <2>2. \A a, b \in Nat : a + b = 0 => a = 0 /\ b = 0
      OBVIOUS
    <2>. QED
      BY <1>2, <2>1, <2>2
  <1>4. todo[s] = << >> /\ answers[s] = << >> /\ readings[s] = << >>
    BY <1>1, <1>3, EmptyFacts
  <1>5. serving # s
    BY <1>4, ProxiedAssumption DEF Paired
  <1>. QED
    BY <1>3, <1>4, <1>5 DEF Underway, Asked

(* The session of a client that is connected, and it has not hung up.      *)
LEMMA MineType ==
  ASSUME Types, NEW c \in Clients, Up(c)
  PROVE  Mine(c) \in Sessions /\ Mine(c)[1] = c /\ Mine(c) \notin gone
  <1>1. session[c] \in 0..SessionLimit /\ session[c] # 0
    BY DEF Types, Up
  <1>2. session[c] \in 1..SessionLimit
    BY <1>1, ProxiedAssumption
  <1>. QED
    BY <1>2 DEF Mine, Sessions, Up

(* What one client can rely on is kept by every step that leaves its call   *)
(* alone, adds nothing to its sessions, and shows the call what the object  *)
(* comes to hold.                                                           *)
LEMMA GoodKept ==
  ASSUME Invariant, NEW d \in Clients,
         pc'[d] = pc[d], call'[d] = call[d], step'[d] = step[d],
         session'[d] = session[d], owed'[d] = owed[d],
         \A s \in Sessions : s[1] = d =>
           /\ s \in gone' <=> s \in gone
           /\ Load(s) \in Nat /\ Load(s)' \in Nat /\ Load(s)' <= Load(s)
           /\ Asked(s)' \subseteq Asked(s),
         pc[d] # "idle" => store' \in seen'[d],
         Honest(d) => /\ Underway(Mine(d))' \subseteq seen'[d]
                      /\ Writing(d) => Underway(Mine(d))' \subseteq {call[d].value}
  PROVE  Good(d)'
  <1>0. Good(d) /\ Types
    BY DEF Invariant
  <1>1. Mine(d)' = Mine(d)
    BY DEF Mine
  <1>2. Up(d) => Mine(d) \in Sessions /\ Mine(d)[1] = d
    BY <1>0, MineType
  <1>3. Up(d)' <=> Up(d)
    <2>1. CASE session[d] = 0
      BY <2>1 DEF Up
    <2>2. CASE session[d] # 0
      <3>1. Mine(d) \in Sessions /\ Mine(d)[1] = d
        BY <1>0, <2>2, ProxiedAssumption DEF Types, Mine, Sessions
      <3>. QED
        BY <1>1, <3>1 DEF Up
    <2>. QED
      BY <2>1, <2>2
  <1>4. Unused(d)'
    <2>1. ASSUME NEW n \in 1..SessionLimit, n > session[d]
          PROVE  Load(<<d, n>>)' = 0 /\ <<d, n>> \notin gone'
      <3>1. <<d, n>> \in Sessions /\ <<d, n>>[1] = d
        BY DEF Sessions
      <3>2. Load(<<d, n>>) = 0 /\ <<d, n>> \notin gone
        BY <1>0, <2>1 DEF Good, Unused
      <3>3. PICK s : s = <<d, n>>
        OBVIOUS
      <3>4. Load(s)' \in Nat /\ Load(s)' <= Load(s) /\ (s \in gone' <=> s \in gone)
        BY <3>1, <3>3
      <3>. QED
        BY <3>2, <3>3, <3>4
    <2>. QED
      BY <2>1 DEF Unused
  <1>5. Tidy(d)'
    <2>1. ASSUME Up(d)
          PROVE  /\ Load(Mine(d)) \in Nat /\ Load(Mine(d))' \in Nat
                 /\ Load(Mine(d))' <= Load(Mine(d))
      <3>1. PICK s \in Sessions : s = Mine(d) /\ s[1] = d
        BY <1>2, <2>1
      <3>2. Load(s) \in Nat /\ Load(s)' \in Nat /\ Load(s)' <= Load(s)
        BY <3>1
      <3>. QED
        BY <1>1, <3>1, <3>2
    <2>. QED
      BY <1>0, <1>3, <2>1 DEF Good, Tidy
  <1>6. (Honest(d)' <=> Honest(d)) /\ (Writing(d)' <=> Writing(d))
    BY <1>3 DEF Honest, Writing
  <1>7. Current(d)'
    BY <1>6 DEF Current
  <1>8. Own(d)'
    <2>1. ASSUME Up(d)
          PROVE  Asked(Mine(d))' \subseteq Asked(Mine(d))
      <3>1. PICK s \in Sessions : s = Mine(d) /\ s[1] = d
        BY <1>2, <2>1
      <3>2. Asked(s)' \subseteq Asked(s)
        BY <3>1
      <3>. QED
        BY <1>1, <3>1, <3>2
    <2>2. Honest(d) => Up(d)
      BY DEF Honest
    <2>. QED
      BY <1>0, <1>6, <2>1, <2>2 DEF Good, Own
  <1>9. pc'[d] = "await" => Up(d)'
    BY <1>0, <1>3 DEF Good
  <1>. QED
    BY <1>4, <1>5, <1>7, <1>8, <1>9 DEF Good

(* A load is a number.                                                     *)
LEMMA LoadType ==
  ASSUME Types, NEW s \in Sessions
  PROVE  Load(s) \in Nat
  <1>1. todo[s] \in Seq(Wire) /\ answers[s] \in Seq(Replies)
    BY DEF Types
  <1>2. Len(todo[s]) \in Nat /\ Len(answers[s]) \in Nat
    BY <1>1, EmptyFacts
  <1>3. \A a, b \in Nat : a + b \in Nat
    OBVIOUS
  <1>. QED
    BY <1>2, <1>3 DEF Load

(* So is the one after a step.                                             *)
LEMMA NextLoadType ==
  ASSUME Types', NEW s \in Sessions
  PROVE  Load(s)' \in Nat
  <1>1. todo'[s] \in Seq(Wire) /\ answers'[s] \in Seq(Replies)
    BY DEF Types
  <1>2. Len(todo'[s]) \in Nat /\ Len(answers'[s]) \in Nat
    BY <1>1, EmptyFacts
  <1>3. \A a, b \in Nat : a + b \in Nat
    OBVIOUS
  <1>. QED
    BY <1>2, <1>3 DEF Load

(* Nothing happens on session s. *)
Still(s) ==
  /\ todo'[s] = todo[s] /\ answers'[s] = answers[s] /\ readings'[s] = readings[s]
  /\ serving' = s <=> serving = s
  /\ serving = s => reading' = reading

(* A session on which nothing happens has what it had.                     *)
LEMMA StillFacts ==
  ASSUME Types, NEW s \in Sessions, Still(s)
  PROVE  /\ Load(s) \in Nat /\ Load(s)' = Load(s)
         /\ Asked(s)' = Asked(s) /\ Underway(s)' = Underway(s)
  <1>1. Load(s) \in Nat
    BY LoadType
  <1>. QED
    BY <1>1 DEF Still, Load, Asked, Underway

-----------------------------------------------------------------------------
(* Steps of a client.                                                      *)

(* Nothing happens to client d. *)
Idles(d) ==
  /\ pc'[d] = pc[d] /\ call'[d] = call[d] /\ step'[d] = step[d]
  /\ session'[d] = session[d] /\ owed'[d] = owed[d] /\ seen'[d] = seen[d]
  /\ \A s \in Sessions : s[1] = d => Still(s) /\ (s \in gone' <=> s \in gone)

(* What a client can rely on is kept while nothing happens to it.          *)
LEMMA IdlesGood ==
  ASSUME Invariant, NEW d \in Clients, Idles(d), store' = store
  PROVE  Good(d)'
  <1>0. Types /\ Good(d)
    BY DEF Invariant
  <1>1. \A s \in Sessions : s[1] = d =>
          /\ s \in gone' <=> s \in gone
          /\ Load(s) \in Nat /\ Load(s)' \in Nat /\ Load(s)' <= Load(s)
          /\ Asked(s)' \subseteq Asked(s)
    <2>1. SUFFICES ASSUME NEW s \in Sessions, s[1] = d
                   PROVE  /\ s \in gone' <=> s \in gone
                          /\ Load(s) \in Nat /\ Load(s)' \in Nat /\ Load(s)' <= Load(s)
                          /\ Asked(s)' \subseteq Asked(s)
      OBVIOUS
    <2>2. Load(s) \in Nat /\ Load(s)' = Load(s) /\ Asked(s)' = Asked(s)
      BY <1>0, <2>1, StillFacts DEF Idles
    <2>. QED
      BY <2>1, <2>2 DEF Idles
  <1>2. Up(d) => Underway(Mine(d))' = Underway(Mine(d))
    <2>1. SUFFICES ASSUME Up(d)
                   PROVE  Underway(Mine(d))' = Underway(Mine(d))
      OBVIOUS
    <2>2. PICK s \in Sessions : s = Mine(d) /\ s[1] = d
      BY <1>0, <2>1, MineType
    <2>3. Underway(s)' = Underway(s)
      BY <1>0, <2>2, StillFacts DEF Idles
    <2>4. Mine(d)' = Mine(d)
      BY DEF Mine, Idles
    <2>. QED
      BY <2>2, <2>3, <2>4
  <1>3. Honest(d) => /\ Underway(Mine(d))' \subseteq seen'[d]
                     /\ Writing(d) => Underway(Mine(d))' \subseteq {call[d].value}
    BY <1>0, <1>2 DEF Honest, Good, Current, Own, Idles
  <1>4. pc[d] # "idle" => store' \in seen'[d]
    BY <1>0 DEF Good, Current, Idles
  <1>. QED
    BY <1>1, <1>3, <1>4, GoodKept DEF Idles

(* The call of c goes on, or is over. *)
Turned(c) ==
  /\ call' = call
  /\ step' \in [Clients -> Steps] /\ DOMAIN result' = Clients
  /\ pc' \in [Clients -> ControlPoints] /\ seen' \in [Clients -> SUBSET Values]
  /\ owed' \in [Clients -> BOOLEAN]
  /\ pc'[c] \in {"try", "idle"}
  /\ pc'[c] # "idle" => seen'[c] = seen[c] /\ owed'[c] = owed[c]
  /\ pc'[c] = "idle" => ~owed'[c]
  /\ \A d \in Clients \ {c} :
       pc'[d] = pc[d] /\ step'[d] = step[d] /\ seen'[d] = seen[d] /\ owed'[d] = owed[d]

(* A call that proceeds tries again or is over.                            *)
LEMMA ProceedFacts ==
  ASSUME Types, NEW c \in Clients, NEW next, next.step \in Steps, Proceed(c, next)
  PROVE  /\ Turned(c) /\ step'[c] = next.step /\ result'[c] = next.result
         /\ pc'[c] # "idle" => next.result = NoResult
  <1>1. CASE next.result = NoResult
    BY <1>1 DEF Types, Proceed, Turned, ControlPoints
  <1>2. CASE next.result # NoResult
    BY <1>2 DEF Types, Proceed, Turned, ControlPoints
  <1>. QED
    BY <1>1, <1>2

(* A client ends an exchange: it takes answers off its session, or gives    *)
(* the exchange up.  One that hangs up after an error leaves nothing.       *)
LEMMA ExchangeEnds ==
  ASSUME Invariant, NEW c \in Clients, pc[c] # "idle", Turned(c),
         pc'[c] # "idle" /\ step'[c].phase \in {"exchange", "first"} =>
           step[c].phase \in {"exchange", "first"},
         UNCHANGED <<session, todo, serving, reading, limbo, store, credit>>,
         gone \subseteq gone', gone' \subseteq gone \cup {Mine(c)}, gone' \subseteq Sessions,
         answers' \in [Sessions -> Seq(Replies)], readings' \in [Sessions -> Seq(Values)],
         \A s \in Sessions : Len(readings'[s]) = Len(answers'[s]),
         \A s \in gone' : answers'[s] = << >>,
         \A s \in Sessions : s # Mine(c) =>
           answers'[s] = answers[s] /\ readings'[s] = readings[s],
         Up(c)' => /\ Underway(Mine(c))' \subseteq Underway(Mine(c))
                   /\ c \notin Keep => Load(Mine(c))' = 0
  PROVE  Invariant'
  <1>0. Types /\ Paired /\ Good(c)
    BY DEF Invariant
  <1>1. Types'
    BY <1>0 DEF Types, Turned
  <1>2. Paired'
    BY <1>0 DEF Paired
  <1>3. ASSUME NEW d \in Clients \ {c}
        PROVE  Good(d)'
    <2>1. ASSUME NEW s \in Sessions, s[1] = d
          PROVE  Still(s) /\ (s \in gone' <=> s \in gone)
      <3>1. s # Mine(c)
        BY <2>1 DEF Mine
      <3>. QED
        BY <3>1 DEF Still
    <2>2. Idles(d)
      BY <2>1 DEF Idles, Turned
    <2>. QED
      BY <2>2, IdlesGood
  <1>4. Mine(c)' = Mine(c) /\ (Up(c)' => Up(c))
    BY DEF Mine, Up
  <1>5. Unused(c)'
    <2>1. ASSUME NEW n \in 1..SessionLimit, n > session[c]
          PROVE  Load(<<c, n>>)' = 0 /\ <<c, n>> \notin gone'
      <3>1. <<c, n>> \in Sessions /\ <<c, n>> # Mine(c)
        BY <1>0, <2>1 DEF Sessions, Mine, Types
      <3>2. Load(<<c, n>>) = 0 /\ <<c, n>> \notin gone
        BY <1>0, <2>1 DEF Good, Unused
      <3>3. PICK s : s = <<c, n>>
        OBVIOUS
      <3>4. Load(s)' = Load(s)
        BY <3>1, <3>3 DEF Load
      <3>. QED
        BY <3>1, <3>2, <3>3, <3>4
    <2>. QED
      BY <2>1 DEF Unused
  <1>6. Tidy(c)'
    BY <1>0, <1>4 DEF Good, Tidy, Turned
  <1>7. Honest(c)' => Honest(c)
    BY <1>4 DEF Honest, Turned
  <1>8. Current(c)'
    BY <1>0, <1>7 DEF Good, Current, Turned, Honest
  <1>9. Own(c)'
    <2>1. Honest(c)' /\ Writing(c)' => Honest(c) /\ Writing(c)
      BY <1>7 DEF Writing, Turned, Honest
    <2>2. Asked(Mine(c))' = Asked(Mine(c))
      BY <1>4 DEF Asked
    <2>. QED
      BY <1>0, <2>1, <2>2 DEF Good, Own, Turned, Honest
  <1>10. Good(c)'
    BY <1>5, <1>6, <1>8, <1>9 DEF Good, Turned
  <1>. QED
    BY <1>1, <1>2, <1>3, <1>10 DEF Invariant

(* An exchange that fails leaves the session as it is. *)
LEMMA ErrorStep ==
  ASSUME Invariant, NEW c \in Clients, NEW e, e # "Ok", pc[c] # "idle",
         Proceed(c, AfterError(step[c], e)),
         UNCHANGED <<session, proxy, inverter, credit>>,
         gone \subseteq gone', gone' \subseteq gone \cup {Mine(c)}, gone' \subseteq Sessions,
         gone' # gone => answers[Mine(c)] = << >>,
         c \notin Keep => ~Up(c)'
  PROVE  Invariant' /\ result'[c].kind # "Ok"
  <1>0. Types /\ Paired /\ step[c] \in Steps
    BY DEF Invariant, Types
  <1>1. /\ AfterError(step[c], e).step \in Steps
        /\ AfterError(step[c], e).result.kind # "Ok"
    BY <1>0, AfterErrorFacts
  <1>2. /\ Turned(c) /\ step'[c] = AfterError(step[c], e).step
        /\ result'[c] = AfterError(step[c], e).result
        /\ pc'[c] # "idle" => AfterError(step[c], e).result = NoResult
    BY <1>0, <1>1, ProceedFacts
  <1>3. pc'[c] # "idle" /\ step'[c].phase \in {"exchange", "first"} =>
          step[c].phase \in {"exchange", "first"}
    BY <1>0, <1>2, AfterErrorPhase
  <1>4. answers' = answers /\ readings' = readings
    BY DEF proxy
  <1>5. Underway(Mine(c))' \subseteq Underway(Mine(c))
    BY DEF proxy, Underway, Mine
  <1>6. /\ answers' \in [Sessions -> Seq(Replies)] /\ readings' \in [Sessions -> Seq(Values)]
        /\ \A s \in Sessions : Len(readings'[s]) = Len(answers'[s])
        /\ \A s \in Sessions : answers'[s] = answers[s] /\ readings'[s] = readings[s]
        /\ \A s \in gone' : answers'[s] = << >>
    BY <1>0, <1>4 DEF Types, Paired
  <1>7. Invariant'
    <2>1. UNCHANGED <<session, todo, serving, reading, limbo, store, credit>>
      BY DEF proxy, inverter
    <2>2. Up(c)' => /\ Underway(Mine(c))' \subseteq Underway(Mine(c))
                    /\ c \notin Keep => Load(Mine(c))' = 0
      BY <1>5
    <2>. QED
      BY <1>2, <1>3, <1>6, <2>1, <2>2, ExchangeEnds
  <1>. QED
    BY <1>1, <1>2, <1>7

(* The bound on connections is reached: the client has no connection.      *)
LEMMA ConnectFailStep ==
  ASSUME Invariant, NEW c \in Clients, ConnectFail(c)
  PROVE  Invariant' /\ result'[c].kind # "Ok"
  <1>1. /\ pc[c] # "idle" /\ ~Up(c) /\ Proceed(c, AfterError(step[c], "Io"))
        /\ UNCHANGED <<sessions, proxy, inverter, credit>>
    BY DEF ConnectFail
  <1>2. ~Up(c)' /\ gone' = gone /\ gone \subseteq Sessions /\ session' = session
    BY <1>1 DEF Up, Mine, sessions, Invariant, Types
  <1>. QED
    BY <1>1, <1>2, ErrorStep

(* A client of async_client.rs leaves its session, one of client.rs leaves *)
(* the reply owed to it on the connection.                                 *)
LEMMA TimeOutStep ==
  ASSUME Invariant, NEW c \in Clients, TimeOut(c)
  PROVE  Invariant' /\ result'[c].kind # "Ok"
  <1>1. /\ pc[c] = "await" /\ Proceed(c, AfterError(step[c], "Timeout"))
        /\ UNCHANGED <<session, proxy, inverter, credit>>
        /\ gone' = IF c \in Keep THEN gone ELSE gone \cup {Mine(c)}
    BY DEF TimeOut
  <1>2. Types /\ Up(c)
    BY <1>1 DEF Invariant, Good
  <1>3. Mine(c) \in Sessions /\ gone \subseteq Sessions /\ answers[Mine(c)] = << >>
    BY <1>2, MineType DEF Types, TimeOut
  <1>4. c \notin Keep => ~Up(c)'
    BY <1>1 DEF Up, Mine
  <1>. QED
    BY <1>1, <1>3, <1>4, ErrorStep

(* The first answer that is taken is one of the call itself, unless the     *)
(* session owed replies when it began.                                      *)
LEMMA ReceiveStep ==
  ASSUME Invariant, NEW c \in Clients, Receive(c)
  PROVE  /\ Invariant'
         /\ result'[c].kind = "Ok" /\ ~Stale(c) =>
              /\ result'[c].value \in seen[c]
              /\ call[c].op # "read" => result'[c].value = call[c].value
  <1>0. Types /\ Paired /\ Good(c) /\ step[c] \in Steps
    BY DEF Invariant, Types
  <1>1. pc[c] = "await" /\ Up(c)
    BY <1>0 DEF Receive, Good
  <1>2. PICK s \in Sessions : s = Mine(c)
    BY <1>0, <1>1, MineType
  <1>3. PICK n \in 1..Len(answers[s]) :
          /\ answers' = [answers EXCEPT ![s] = SubSeq(@, n + 1, Len(@))]
          /\ readings' = [readings EXCEPT ![s] = SubSeq(@, n + 1, Len(@))]
    BY <1>2 DEF Receive
  <1>4. PICK v : v = Head(readings[s]) /\ Proceed(c, AfterValue(step[c], v, call[c].value))
    BY <1>2 DEF Receive
  <1>5. /\ answers[s] \in Seq(Replies) /\ readings[s] \in Seq(Values)
        /\ todo[s] \in Seq(Wire) /\ answers[s] # << >>
        /\ Len(readings[s]) = Len(answers[s])
    BY <1>0, <1>2 DEF Receive, Types, Paired
  <1>6. /\ AfterValue(step[c], v, call[c].value).step \in Steps
        /\ AfterValue(step[c], v, call[c].value).result.kind = "Ok" =>
             AfterValue(step[c], v, call[c].value).result.value = v
    BY <1>0, AfterValueFacts
  <1>7. /\ Turned(c) /\ step'[c] = AfterValue(step[c], v, call[c].value).step
        /\ result'[c] = AfterValue(step[c], v, call[c].value).result
        /\ pc'[c] # "idle" => AfterValue(step[c], v, call[c].value).result = NoResult
    BY <1>0, <1>4, <1>6, ProceedFacts
  <1>8. UNCHANGED <<session, gone, todo, serving, reading, limbo, store, credit>>
    BY DEF Receive, sessions, inverter
  <1>9. /\ SubSeq(answers[s], n + 1, Len(answers[s])) \in Seq(Replies)
        /\ SubSeq(readings[s], n + 1, Len(readings[s])) \in Seq(Values)
        /\ Len(SubSeq(answers[s], n + 1, Len(answers[s]))) = Len(answers[s]) - n
        /\ Len(SubSeq(readings[s], n + 1, Len(readings[s]))) = Len(readings[s]) - n
        /\ \A i \in 1..(Len(readings[s]) - n) :
             SubSeq(readings[s], n + 1, Len(readings[s]))[i] = readings[s][i + n]
    <2>1. n \in 1..Len(readings[s])
      BY <1>5
    <2>2. /\ SubSeq(answers[s], n + 1, Len(answers[s])) \in Seq(Replies)
          /\ Len(SubSeq(answers[s], n + 1, Len(answers[s]))) = Len(answers[s]) - n
      BY <1>5, SplitFacts
    <2>3. /\ SubSeq(readings[s], n + 1, Len(readings[s])) \in Seq(Values)
          /\ Len(SubSeq(readings[s], n + 1, Len(readings[s]))) = Len(readings[s]) - n
          /\ \A i \in 1..(Len(readings[s]) - n) :
               SubSeq(readings[s], n + 1, Len(readings[s]))[i] = readings[s][i + n]
      BY <1>5, <2>1, SplitFacts
    <2>. QED
      BY <2>2, <2>3
  <1>10. /\ answers' \in [Sessions -> Seq(Replies)] /\ readings' \in [Sessions -> Seq(Values)]
         /\ answers'[s] = SubSeq(answers[s], n + 1, Len(answers[s]))
         /\ readings'[s] = SubSeq(readings[s], n + 1, Len(readings[s]))
         /\ \A r \in Sessions : r # s => answers'[r] = answers[r] /\ readings'[r] = readings[r]
    BY <1>0, <1>3, <1>9 DEF Types
  <1>11. \A r \in Sessions : Len(readings'[r]) = Len(answers'[r])
    BY <1>0, <1>5, <1>9, <1>10 DEF Paired
  <1>12. Underway(s)' \subseteq Underway(s)
    <2>1. ASSUME NEW i \in 1..Len(readings'[s])
          PROVE  readings'[s][i] \in {readings[s][j] : j \in 1..Len(readings[s])}
      <3>1. Len(readings[s]) \in Nat /\ n \in 1..Len(readings[s])
        BY <1>5, EmptyFacts
      <3>2. i \in 1..(Len(readings[s]) - n)
        BY <1>9, <1>10, <2>1
      <3>3. i + n \in 1..Len(readings[s])
        BY <3>1, <3>2
      <3>. QED
        BY <1>9, <1>10, <3>2, <3>3
    <2>. QED
      BY <1>8, <2>1 DEF Underway
  <1>13. c \notin Keep => Load(s)' = 0
    <2>1. SUFFICES ASSUME c \notin Keep
                   PROVE  Load(s)' = 0
      OBVIOUS
    <2>2. Load(s) <= 1
      BY <1>0, <1>1, <1>2, <2>1 DEF Good, Tidy
    <2>3. \A a, b \in Nat : \A k \in 1..b : a + b <= 1 => a + (b - k) = 0
      OBVIOUS
    <2>4. Len(todo[s]) \in Nat /\ Len(answers[s]) \in Nat
      BY <1>5, EmptyFacts
    <2>5. Len(todo[s]) + (Len(answers[s]) - n) = 0
      BY <2>2, <2>3, <2>4 DEF Load
    <2>. QED
      BY <1>8, <1>9, <1>10, <2>5 DEF Load
  <1>14. Mine(c)' = s
    BY <1>2, <1>8 DEF Mine
  <1>15. pc'[c] # "idle" /\ step'[c].phase \in {"exchange", "first"} =>
           step[c].phase \in {"exchange", "first"}
    BY <1>0, <1>7, AfterValuePhase
  <1>16. Invariant'
    <2>1. pc[c] # "idle"
      BY <1>1
    <2>2. /\ gone \subseteq gone' /\ gone' \subseteq gone \cup {Mine(c)} /\ gone' \subseteq Sessions
      BY <1>0, <1>8 DEF Types
    <2>3. Underway(Mine(c))' = Underway(s)' /\ Load(Mine(c))' = Load(s)'
      BY <1>14 DEF Underway, Load
    <2>4. Up(c)' => /\ Underway(Mine(c))' \subseteq Underway(Mine(c))
                    /\ c \notin Keep => Load(Mine(c))' = 0
      BY <1>2, <1>12, <1>13, <2>3
    <2>5. \A r \in gone' : answers'[r] = << >>
      BY <1>0, <1>1, <1>2, <1>8, <1>10, MineType DEF Paired, Types
    <2>. QED
      BY <1>2, <1>7, <1>8, <1>10, <1>11, <1>15, <2>1, <2>2, <2>4, <2>5, ExchangeEnds
  <1>17. ASSUME result'[c].kind = "Ok", ~Stale(c)
         PROVE  /\ result'[c].value \in seen[c]
                /\ call[c].op # "read" => result'[c].value = call[c].value
    <2>1. result'[c].value = v
      BY <1>6, <1>7, <1>17
    <2>2. step[c].phase \in {"exchange", "first"} \/ v = call[c].value
      BY <1>0, <1>7, <1>17, AfterValuePhase
    <2>3. v \in Underway(s)
      <3>1. Len(readings[s]) \in Nat /\ n \in 1..Len(readings[s])
        BY <1>5, EmptyFacts
      <3>2. readings[s] # << >>
        BY <3>1
      <3>3. Head(readings[s]) = readings[s][1] /\ 1 \in 1..Len(readings[s])
        BY <1>5, <3>2, TailFacts
      <3>. QED
        BY <1>4, <3>3 DEF Underway
    <2>4. Honest(c)
      BY <1>0, <1>1, <1>17 DEF Honest, Stale, Good, Tidy
    <2>. QED
      BY <1>0, <1>2, <2>1, <2>2, <2>3, <2>4 DEF Good, Current, Own, Writing
  <1>. QED
    BY <1>16, <1>17

(* A call begins: there is nothing on its session, or it is owed replies.   *)
LEMMA BeginStep ==
  ASSUME Invariant, NEW c \in Clients, Begin(c)
  PROVE  Invariant'
  <1>0. Types /\ Paired /\ Good(c)
    BY DEF Invariant
  <1>1. PICK k \in Calls : call' = [call EXCEPT ![c] = k] /\ step' = [step EXCEPT ![c] = Start(k.op)]
    BY DEF Begin
  <1>2. /\ pc[c] = "idle" /\ pc' = [pc EXCEPT ![c] = "try"]
        /\ seen' = [seen EXCEPT ![c] = {store}]
        /\ owed' = [owed EXCEPT ![c] =
             Up(c) /\ (todo[Mine(c)] # << >> \/ answers[Mine(c)] # << >>)]
        /\ UNCHANGED <<session, gone, todo, serving, answers, readings, reading, limbo, store,
                       credit>>
    BY DEF Begin, sessions, proxy, inverter
  <1>3. Start(k.op) \in Steps
    BY StartType
  <1>4. Types'
    <2>1. pc' \in [Clients -> ControlPoints] /\ seen' \in [Clients -> SUBSET Values]
      BY <1>0, <1>2 DEF Types, ControlPoints
    <2>2. owed' \in [Clients -> BOOLEAN]
      BY <1>0, <1>2 DEF Types
    <2>3. DOMAIN result' = Clients
      BY <1>0 DEF Begin, Types
    <2>. QED
      BY <1>0, <1>1, <1>2, <1>3, <2>1, <2>2, <2>3 DEF Types
  <1>5. Paired'
    BY <1>0, <1>2 DEF Paired
  <1>6. ASSUME NEW d \in Clients \ {c}
        PROVE  Good(d)'
    <2>1. Idles(d)
      BY <1>0, <1>1, <1>2 DEF Idles, Still, Types
    <2>. QED
      BY <1>2, <2>1, IdlesGood
  <1>7. Mine(c)' = Mine(c) /\ (Up(c)' <=> Up(c))
    BY <1>2 DEF Mine, Up
  <1>8. /\ Load(Mine(c))' = Load(Mine(c)) /\ Underway(Mine(c))' = Underway(Mine(c))
        /\ Asked(Mine(c))' = Asked(Mine(c))
    BY <1>2, <1>7 DEF Load, Underway, Asked
  <1>9. owed'[c] = (Up(c) /\ (todo[Mine(c)] # << >> \/ answers[Mine(c)] # << >>))
    BY <1>0, <1>2 DEF Types
  <1>10. ASSUME Up(c), ~owed'[c]
         PROVE  Underway(Mine(c)) = {} /\ Asked(Mine(c)) = {}
    <2>1. PICK s \in Sessions : s = Mine(c)
      BY <1>0, <1>10, MineType
    <2>2. todo[s] = << >> /\ answers[s] = << >>
      BY <1>9, <1>10, <2>1
    <2>3. Len(<< >>) = 0 /\ 0 + 0 = 0
      OBVIOUS
    <2>4. Load(s) = 0
      BY <2>2, <2>3 DEF Load
    <2>. QED
      BY <1>0, <2>1, <2>4, EmptySession
  <1>11. Unused(c)'
    BY <1>0, <1>2 DEF Good, Unused, Load
  <1>12. Tidy(c)'
    <2>1. ASSUME c \notin Keep, Up(c)
          PROVE  todo[Mine(c)] = << >> /\ answers[Mine(c)] = << >>
      <3>1. PICK s \in Sessions : s = Mine(c)
        BY <1>0, <2>1, MineType
      <3>2. Load(s) = 0
        BY <1>0, <1>2, <2>1, <3>1 DEF Good, Tidy
      <3>. QED
        BY <1>0, <3>1, <3>2, EmptySession
    <2>2. c \notin Keep => ~owed'[c]
      BY <1>9, <2>1
    <2>3. c \notin Keep /\ Up(c) => Load(Mine(c)) = 0
      BY <1>0, <1>2 DEF Good, Tidy
    <2>. QED
      BY <1>7, <1>8, <2>2, <2>3 DEF Tidy
  <1>13. pc'[c] = "try" /\ seen'[c] = {store} /\ store' = store
    BY <1>0, <1>2 DEF Types
  <1>14. Honest(c)' => Underway(Mine(c))' = {} /\ Asked(Mine(c))' = {}
    BY <1>7, <1>8, <1>10 DEF Honest
  <1>15. Current(c)' /\ Own(c)'
    BY <1>13, <1>14 DEF Current, Own
  <1>. QED
    BY <1>4, <1>5, <1>6, <1>11, <1>12, <1>13, <1>15 DEF Invariant, Good

(* The frame of a call. *)
LEMMA FrameFacts ==
  ASSUME NEW k \in Calls, NEW s \in Steps
  PROVE  /\ Request(k, s) \in Wire
         /\ k.op # "read" /\ s.phase \in {"exchange", "first"} =>
              Request(k, s).command = "write" /\ Request(k, s).value = k.value
         /\ Request(k, s).command = "write" => Request(k, s).value \in Values
  <1>1. /\ k.object = Object /\ k.value \in Values \cup {NoValue}
        /\ k.op # "read" => k.value \in Values
    BY DEF Calls, Call
  <1>. QED
    BY <1>1 DEF Request, Wire, Frames

(* What a client sends goes to the end of its session. *)
LEMMA SendFacts ==
  ASSUME Types, NEW c \in Clients, Send(c)
  PROVE  LET s     == <<c, session'[c]>>
             frame == Request(call[c], step[c])
         IN  /\ s \in Sessions /\ frame \in Wire
             /\ todo' = [todo EXCEPT ![s] = Append(todo[s], frame)]
             /\ session' = [session EXCEPT ![c] = session'[c]]
             /\ Up(c) => session'[c] = session[c]
             /\ ~Up(c) => session'[c] = session[c] + 1
  <1> DEFINE s     == <<c, session'[c]>>
             frame == Request(call[c], step[c])
  <1>1. session' = [session EXCEPT ![c] = IF Up(c) THEN @ ELSE @ + 1]
        /\ session'[c] <= SessionLimit
    BY DEF Send
  <1>2. session[c] \in 0..SessionLimit /\ SessionLimit \in Nat
    BY ProxiedAssumption DEF Types
  <1>3. (Up(c) => session'[c] = session[c]) /\ (~Up(c) => session'[c] = session[c] + 1)
    BY <1>1 DEF Types
  <1>4. session'[c] \in 1..SessionLimit
    <2>1. Up(c) => session[c] # 0
      BY DEF Up
    <2>. QED
      BY <1>1, <1>2, <1>3, <2>1
  <1>5. s \in Sessions
    BY <1>4 DEF Sessions
  <1>6. frame \in Wire
    BY FrameFacts DEF Types
  <1>7. PICK r \in Frames : todo' = [todo EXCEPT ![s] = Append(todo[s], r)]
    BY DEF Send, Mux!Submit
  <1>8. todo'[s] = Append(todo[s], frame)
    BY DEF Send
  <1>9. todo'[s] = Append(todo[s], r)
    BY <1>5, <1>7 DEF Types
  <1>10. todo' = [todo EXCEPT ![s] = Append(todo[s], frame)]
    BY <1>7, <1>8, <1>9
  <1>11. session' = [session EXCEPT ![c] = session'[c]]
    BY <1>1 DEF Types
  <1>. QED
    BY <1>3, <1>5, <1>6, <1>10, <1>11

(* A request is added to a session on which nothing is under way, or that  *)
(* owes replies.                                                           *)
LEMMA SendStep ==
  ASSUME Invariant, NEW c \in Clients, Send(c)
  PROVE  Invariant'
  <1>0. Types /\ Paired /\ Good(c)
    BY DEF Invariant
  <1>1. PICK s, frame : s = <<c, session'[c]>> /\ frame = Request(call[c], step[c])
    OBVIOUS
  <1>2. /\ s \in Sessions /\ frame \in Wire
        /\ todo' = [todo EXCEPT ![s] = Append(todo[s], frame)]
        /\ session' = [session EXCEPT ![c] = session'[c]]
        /\ Up(c) => session'[c] = session[c]
        /\ ~Up(c) => session'[c] = session[c] + 1
    BY <1>0, <1>1, SendFacts
  <1>3. /\ pc[c] = "try" /\ pc' = [pc EXCEPT ![c] = "await"]
        /\ UNCHANGED <<call, step, result, seen, owed, gone, readings, reading, limbo, store,
                       serving, answers>>
    BY DEF Send, Mux!Submit, inverter
  <1>4. /\ todo[s] \in Seq(Wire) /\ Append(todo[s], frame) \in Seq(Wire)
        /\ Append(todo[s], frame) # << >>
        /\ Len(todo[s]) \in Nat /\ Len(Append(todo[s], frame)) = Len(todo[s]) + 1
        /\ \A i \in 1..Len(todo[s]) : Append(todo[s], frame)[i] = todo[s][i]
        /\ Append(todo[s], frame)[Len(todo[s]) + 1] = frame
    <2>1. todo[s] \in Seq(Wire)
      BY <1>0, <1>2 DEF Types
    <2>. QED
      BY <1>2, <2>1, AppendFacts, EmptyFacts
  <1>5. todo' \in [Sessions -> Seq(Wire)] /\ todo'[s] = Append(todo[s], frame)
        /\ \A r \in Sessions : r # s => todo'[r] = todo[r]
    BY <1>0, <1>2, <1>4 DEF Types
  <1>6. credit' \in [Clients -> Int]
    <2>1. credit' = [credit EXCEPT ![c] = IF frame.command = "write" THEN @ + 1 ELSE @]
      BY <1>1 DEF Send
    <2>2. credit[c] \in Int /\ credit \in [Clients -> Int]
      BY <1>0 DEF Types
    <2>. QED
      BY <2>1, <2>2
  <1>7. /\ session[c] \in 0..SessionLimit /\ session' \in [Clients -> 0..SessionLimit]
        /\ session'[c] \in 1..SessionLimit /\ session'[c] >= session[c]
        /\ \A d \in Clients \ {c} : session'[d] = session[d]
    <2>1. session'[c] \in 1..SessionLimit
      BY <1>1, <1>2 DEF Sessions
    <2>2. session \in [Clients -> 0..SessionLimit] /\ session[c] \in 0..SessionLimit
      BY <1>0 DEF Types
    <2>3. SessionLimit \in Nat
      BY ProxiedAssumption
    <2>4. session'[c] >= session[c]
      BY <1>2, <2>2
    <2>5. session'[c] \in 0..SessionLimit
      BY <2>1, <2>3
    <2>. QED
      BY <1>2, <2>1, <2>2, <2>4, <2>5
  <1>8. Types'
    <2>1. pc' \in [Clients -> ControlPoints]
      BY <1>0, <1>3 DEF Types, ControlPoints
    <2>. QED
      BY <1>0, <1>3, <1>5, <1>6, <1>7, <2>1 DEF Types
  <1>9. Paired'
    BY <1>0, <1>3, <1>4, <1>5 DEF Paired, Types
  <1>10. ASSUME NEW d \in Clients \ {c}
         PROVE  Good(d)'
    <2>1. ASSUME NEW r \in Sessions, r[1] = d
          PROVE  Still(r) /\ (r \in gone' <=> r \in gone)
      <3>1. r # s
        BY <1>1, <2>1
      <3>. QED
        BY <1>3, <1>5, <3>1 DEF Still
    <2>2. Idles(d)
      BY <1>0, <1>3, <1>7, <2>1 DEF Idles, Types
    <2>. QED
      BY <1>3, <2>2, IdlesGood
  <1>11. Mine(c)' = s
    BY <1>1 DEF Mine
  <1>12. Up(c) => s = Mine(c)
    BY <1>1, <1>2 DEF Mine
  <1>13. s \notin gone /\ (~Up(c) => Load(s) = 0)
    <2>1. CASE Up(c)
      BY <1>0, <1>12, <2>1, MineType
    <2>2. CASE ~Up(c)
      BY <1>0, <1>1, <1>2, <1>7, <2>2 DEF Good, Unused
    <2>. QED
      BY <2>1, <2>2
  <1>14. c \notin Keep => ~owed[c] /\ Load(s) = 0
    BY <1>0, <1>3, <1>12, <1>13 DEF Good, Tidy
  <1>15. Load(s)' = Load(s) + 1
    <2>1. Len(answers[s]) \in Nat
      BY <1>0, <1>2, EmptyFacts DEF Types
    <2>2. \A a, b \in Nat : (a + 1) + b = (a + b) + 1
      OBVIOUS
    <2>3. Load(s)' = (Len(todo[s]) + 1) + Len(answers[s])
      BY <1>3, <1>4, <1>5 DEF Load
    <2>4. Len(todo[s]) \in Nat
      BY <1>4
    <2>. QED
      BY <2>1, <2>2, <2>3, <2>4, Zenon DEF Load
  <1>16. Underway(s)' = Underway(s)
    BY <1>3 DEF Underway
  <1>17. Asked(s)' = Asked(s) \cup {frame}
    <2>1. Len(todo'[s]) = Len(todo[s]) + 1 /\ Len(todo[s]) \in Nat
      BY <1>4, <1>5
    <2>2. \A i \in 1..(Len(todo[s]) + 1) : i \in 1..Len(todo[s]) \/ i = Len(todo[s]) + 1
      BY <2>1
    <2>3. 1..Len(todo[s]) \subseteq 1..(Len(todo[s]) + 1)
          /\ Len(todo[s]) + 1 \in 1..(Len(todo[s]) + 1)
      BY <2>1
    <2>. QED
      BY <1>4, <1>5, <2>1, <2>2, <2>3 DEF Asked
  <1>18. ~Up(c) => Underway(s) = {} /\ Asked(s) = {}
    BY <1>0, <1>2, <1>13, EmptySession
  <1>19. Up(c)'
    <2>1. session'[c] # 0
      BY <1>7
    <2>. QED
      BY <1>3, <1>11, <1>13, <2>1 DEF Up
  <1>20. Unused(c)'
    <2>1. ASSUME NEW n \in 1..SessionLimit, n > session'[c]
          PROVE  Load(<<c, n>>)' = 0 /\ <<c, n>> \notin gone'
      <3>1. PICK r : r = <<c, n>>
        OBVIOUS
      <3>2. r \in Sessions /\ r # s
        BY <1>1, <1>7, <2>1, <3>1 DEF Sessions
      <3>3. n > session[c]
        BY <1>7, <2>1, ProxiedAssumption
      <3>4. Load(r) = 0 /\ r \notin gone
        BY <1>0, <3>1, <3>3 DEF Good, Unused
      <3>5. Load(r)' = Load(r)
        BY <1>3, <1>5, <3>2 DEF Load
      <3>. QED
        BY <1>3, <3>1, <3>4, <3>5
    <2>. QED
      BY <2>1 DEF Unused
  <1>21. Tidy(c)'
    <2>1. pc'[c] = "await"
      BY <1>0, <1>3 DEF Types
    <2>2. Load(Mine(c))' = Load(s)'
      BY <1>11 DEF Load
    <2>3. 0 + 1 <= 1
      OBVIOUS
    <2>4. c \notin Keep => Load(Mine(c))' <= 1
      BY <1>14, <1>15, <2>2, <2>3
    <2>. QED
      BY <1>3, <1>14, <2>1, <2>4 DEF Tidy
  <1>22. Underway(Mine(c))' = Underway(s) /\ Asked(Mine(c))' = Asked(s) \cup {frame}
    <2>1. Underway(Mine(c))' = Underway(s)'
      BY <1>11 DEF Underway
    <2>2. Asked(Mine(c))' = Asked(s)'
      BY <1>11 DEF Asked
    <2>. QED
      BY <1>16, <1>17, <2>1, <2>2
  <1>23. Current(c)'
    <2>1. ~owed[c] => Underway(s) \subseteq seen[c]
      BY <1>0, <1>3, <1>12, <1>18 DEF Good, Current, Honest
    <2>. QED
      BY <1>0, <1>3, <1>22, <2>1 DEF Good, Current, Honest
  <1>24. Own(c)'
    <2>1. ASSUME ~owed[c], Writing(c)
          PROVE  /\ Underway(s) \subseteq {call[c].value}
                 /\ \A f \in Asked(s) : f.command = "write" /\ f.value = call[c].value
      BY <1>0, <1>3, <1>12, <1>18, <2>1 DEF Good, Own, Honest
    <2>2. Writing(c) => frame.command = "write" /\ frame.value = call[c].value
      BY <1>0, <1>1, FrameFacts DEF Writing, Types
    <2>. QED
      BY <1>3, <1>22, <2>1, <2>2 DEF Own, Honest, Writing
  <1>. QED
    BY <1>8, <1>9, <1>10, <1>19, <1>20, <1>21, <1>23, <1>24 DEF Invariant, Good

-----------------------------------------------------------------------------
(* Steps of the proxy.                                                     *)

(* The proxy moves one session on: it takes requests off it and adds no     *)
(* value that was not under way.                                            *)
LEMMA SessionMoves ==
  ASSUME Invariant, NEW s \in Sessions,
         UNCHANGED <<calls, sessions, store>>, Types', Paired',
         \A r \in Sessions \ {s} : Still(r),
         Load(s)' <= Load(s), Asked(s)' \subseteq Asked(s),
         Underway(s)' \subseteq Underway(s)
  PROVE  Invariant'
  <1>0. Types
    BY DEF Invariant
  <1>1. UNCHANGED <<pc, call, step, seen, owed, session, gone, store>>
    BY DEF calls, sessions
  <1>2. ASSUME NEW r \in Sessions
        PROVE  /\ Load(r) \in Nat /\ Load(r)' \in Nat /\ Load(r)' <= Load(r)
               /\ Asked(r)' \subseteq Asked(r) /\ Underway(r)' \subseteq Underway(r)
    <2>1. CASE r = s
      <3>1. Load(s) \in Nat
        BY <1>0, LoadType
      <3>2. Load(s)' \in Nat
        BY NextLoadType
      <3>. QED
        BY <2>1, <3>1, <3>2
    <2>2. CASE r # s
      <3>1. /\ Load(r) \in Nat /\ Load(r)' = Load(r)
            /\ Asked(r)' = Asked(r) /\ Underway(r)' = Underway(r)
        BY <1>0, <2>2, StillFacts
      <3>. QED
        BY <3>1
    <2>. QED
      BY <2>1, <2>2
  <1>3. ASSUME NEW d \in Clients
        PROVE  Good(d)'
    <2>1. Good(d)
      BY DEF Invariant
    <2>2. \A r \in Sessions : r[1] = d =>
            /\ r \in gone' <=> r \in gone
            /\ Load(r) \in Nat /\ Load(r)' \in Nat /\ Load(r)' <= Load(r)
            /\ Asked(r)' \subseteq Asked(r)
      BY <1>1, <1>2
    <2>3. Up(d) => Underway(Mine(d))' \subseteq Underway(Mine(d))
      <3>1. SUFFICES ASSUME Up(d)
                     PROVE  Underway(Mine(d))' \subseteq Underway(Mine(d))
        OBVIOUS
      <3>2. PICK r \in Sessions : r = Mine(d)
        BY <1>0, <3>1, MineType
      <3>3. Mine(d)' = Mine(d)
        BY <1>1 DEF Mine
      <3>4. Underway(r)' \subseteq Underway(r)
        BY <1>2
      <3>. QED
        BY <3>2, <3>3, <3>4
    <2>4. Honest(d) => /\ Underway(Mine(d))' \subseteq seen'[d]
                       /\ Writing(d) => Underway(Mine(d))' \subseteq {call[d].value}
      BY <1>1, <2>1, <2>3 DEF Good, Current, Own, Honest
    <2>5. pc[d] # "idle" => store' \in seen'[d]
      BY <1>1, <2>1 DEF Good, Current
    <2>. QED
      BY <1>1, <2>2, <2>4, <2>5, GoodKept
  <1>. QED
    BY <1>3 DEF Invariant

(* A request is taken up; nothing has been replied yet.                    *)
LEMMA ForwardStep ==
  ASSUME Invariant, NEW s \in Sessions, Forward(s)
  PROVE  Invariant'
  <1>0. Types /\ Paired
    BY DEF Invariant
  <1>1. /\ serving = Nobody /\ serving' = s /\ todo[s] # << >>
        /\ UNCHANGED <<calls, sessions, todo, answers, readings, reading, limbo, store, credit>>
    BY DEF Forward, Mux!Begin, inverter
  <1>2. reading = NoValue
    BY <1>0, <1>1 DEF Paired
  <1>3. Types'
    BY <1>0, <1>1 DEF Types, calls, sessions
  <1>4. Paired'
    BY <1>0, <1>1, ProxiedAssumption DEF Paired, sessions
  <1>5. \A r \in Sessions \ {s} : Still(r)
    BY <1>1, ProxiedAssumption DEF Still
  <1>6. Load(s) \in Nat /\ Load(s)' = Load(s)
    BY <1>0, <1>1, LoadType DEF Load
  <1>7. Asked(s)' = Asked(s) /\ Underway(s)' = Underway(s)
    BY <1>1, <1>2, ProxiedAssumption DEF Asked, Underway
  <1>. QED
    BY <1>1, <1>3, <1>4, <1>5, <1>6, <1>7, SessionMoves

(* The oldest request of s is finished. *)
LEMMA RequestDone ==
  ASSUME Types, Paired, NEW s \in Sessions, serving = s, serving' = Nobody,
         todo' = [todo EXCEPT ![s] = Tail(@)]
  PROVE  /\ Head(todo[s]) \in Wire
         /\ todo' \in [Sessions -> Seq(Wire)]
         /\ Len(todo[s]) \in Nat /\ Len(todo'[s]) = Len(todo[s]) - 1
         /\ Asked(s)' \subseteq Asked(s)
         /\ \A r \in Sessions \ {s} :
              todo'[r] = todo[r] /\ (serving' = r <=> serving = r) /\ serving # r
  <1>1. todo \in [Sessions -> Seq(Wire)] /\ todo[s] \in Seq(Wire) /\ todo[s] # << >>
    BY ProxiedAssumption DEF Types, Paired
  <1>2. /\ Head(todo[s]) \in Wire /\ Tail(todo[s]) \in Seq(Wire)
        /\ Len(todo[s]) \in Nat \ {0} /\ Len(Tail(todo[s])) = Len(todo[s]) - 1
        /\ \A i \in 1..Len(Tail(todo[s])) : Tail(todo[s])[i] = todo[s][i + 1]
    BY <1>1, TailFacts
  <1>3. /\ todo' \in [Sessions -> Seq(Wire)] /\ todo'[s] = Tail(todo[s])
        /\ \A r \in Sessions \ {s} : todo'[r] = todo[r]
    BY <1>1, <1>2
  <1>4. Asked(s)' \subseteq Asked(s)
    <2>1. ASSUME NEW i \in 1..Len(todo'[s])
          PROVE  todo'[s][i] \in {todo[s][j] : j \in 1..Len(todo[s])}
      <3>1. todo'[s][i] = todo[s][i + 1]
        BY <1>2, <1>3
      <3>2. i + 1 \in 1..Len(todo[s])
        BY <1>2, <1>3
      <3>. QED
        BY <3>1, <3>2
    <2>. QED
      BY <2>1 DEF Asked
  <1>. QED
    BY <1>2, <1>3, <1>4, ProxiedAssumption

(* A request is dropped, without an answer.                                *)
LEMMA FailStep ==
  ASSUME Invariant, NEW s \in Sessions, Fail(s)
  PROVE  Invariant'
  <1>0. Types /\ Paired
    BY DEF Invariant
  <1>1. /\ serving = s /\ serving' = Nobody /\ todo' = [todo EXCEPT ![s] = Tail(@)]
        /\ reading' = NoValue
        /\ UNCHANGED <<calls, sessions, answers, readings, store, credit>>
    BY DEF Fail, Abandon, Mux!Fail
  <1>2. /\ Head(todo[s]) \in Wire
        /\ todo' \in [Sessions -> Seq(Wire)]
        /\ Len(todo[s]) \in Nat /\ Len(todo'[s]) = Len(todo[s]) - 1
        /\ Asked(s)' \subseteq Asked(s)
        /\ \A r \in Sessions \ {s} :
             todo'[r] = todo[r] /\ (serving' = r <=> serving = r) /\ serving # r
    BY <1>0, <1>1, RequestDone
  <1>3. limbo' \in Seq(Late)
    <2>1. PICK by, value : by = serving[1] /\ value = Head(todo[serving]).value
      OBVIOUS
    <2>2. limbo' = limbo \/ (Head(todo[s]).command = "write"
                             /\ limbo' = Append(limbo, [by |-> by, value |-> value]))
      BY <1>1, <2>1 DEF Fail, Abandon
    <2>3. by \in Clients /\ (Head(todo[s]).command = "write" => value \in Values)
      BY <1>1, <1>2, <2>1 DEF Sessions, Wire
    <2>4. limbo \in Seq(Late)
      BY <1>0 DEF Types
    <2>5. PICK write : write = [by |-> by, value |-> value]
      OBVIOUS
    <2>6. value \in Values => write \in Late
      BY <2>3, <2>5 DEF Late
    <2>. QED
      BY <2>2, <2>3, <2>4, <2>5, <2>6, AppendFacts
  <1>4. Types'
    BY <1>0, <1>1, <1>2, <1>3 DEF Types, calls, sessions
  <1>5. Paired'
    BY <1>0, <1>1 DEF Paired, sessions
  <1>6. \A r \in Sessions \ {s} : Still(r)
    BY <1>1, <1>2 DEF Still
  <1>7. Load(s)' <= Load(s)
    <2>1. Len(answers[s]) \in Nat
      BY <1>0, EmptyFacts DEF Types
    <2>2. \A a, b \in Nat : (a - 1) + b <= a + b
      OBVIOUS
    <2>3. Load(s)' = (Len(todo[s]) - 1) + Len(answers[s])
      BY <1>1, <1>2 DEF Load
    <2>. QED
      BY <1>2, <2>1, <2>2, <2>3, Zenon DEF Load
  <1>8. Underway(s)' \subseteq Underway(s)
    BY <1>1 DEF Underway
  <1>. QED
    BY <1>1, <1>2, <1>4, <1>5, <1>6, <1>7, <1>8, SessionMoves

(* The value of the reply was under way before it is delivered. *)
LEMMA DeliverStep ==
  ASSUME Invariant, NEW s \in Sessions, Deliver(s)
  PROVE  Invariant'
  <1>0. Types /\ Paired
    BY DEF Invariant
  <1>1. /\ serving = s /\ serving' = Nobody /\ todo' = [todo EXCEPT ![s] = Tail(@)]
        /\ reading # NoValue /\ reading' = NoValue
        /\ UNCHANGED <<calls, sessions, limbo, store, credit>>
        /\ \/ answers' = answers /\ readings' = readings
           \/ /\ s \notin gone
              /\ answers' = [answers EXCEPT
                               ![s] = Append(@, [to |-> s, request |-> Head(todo[s])])]
              /\ readings' = [readings EXCEPT ![s] = Append(@, reading)]
    BY DEF Deliver, Mux!Fail, Mux!Answer, inverter
  <1>2. /\ Head(todo[s]) \in Wire
        /\ todo' \in [Sessions -> Seq(Wire)]
        /\ Len(todo[s]) \in Nat /\ Len(todo'[s]) = Len(todo[s]) - 1
        /\ Asked(s)' \subseteq Asked(s)
        /\ \A r \in Sessions \ {s} :
             todo'[r] = todo[r] /\ (serving' = r <=> serving = r) /\ serving # r
    BY <1>0, <1>1, RequestDone
  <1>3. PICK reply \in Replies : reply = [to |-> s, request |-> Head(todo[s])]
    BY <1>2 DEF Replies
  <1>4. /\ answers[s] \in Seq(Replies) /\ readings[s] \in Seq(Values) /\ reading \in Values
        /\ Len(readings[s]) = Len(answers[s])
    BY <1>0, <1>1 DEF Types, Paired
  <1>5. /\ Append(answers[s], reply) \in Seq(Replies)
        /\ Append(readings[s], reading) \in Seq(Values)
        /\ Len(answers[s]) \in Nat /\ Len(Append(answers[s], reply)) = Len(answers[s]) + 1
        /\ Len(Append(readings[s], reading)) = Len(readings[s]) + 1
        /\ \A i \in 1..Len(readings[s]) : Append(readings[s], reading)[i] = readings[s][i]
        /\ Append(readings[s], reading)[Len(readings[s]) + 1] = reading
    BY <1>4, AppendFacts, EmptyFacts
  <1>6. \/ answers' = answers /\ readings' = readings
        \/ /\ s \notin gone
           /\ answers' = [answers EXCEPT ![s] = Append(answers[s], reply)]
           /\ readings' = [readings EXCEPT ![s] = Append(readings[s], reading)]
    BY <1>1, <1>3
  <1>7. /\ answers' \in [Sessions -> Seq(Replies)] /\ readings' \in [Sessions -> Seq(Values)]
        /\ \A r \in Sessions \ {s} : answers'[r] = answers[r] /\ readings'[r] = readings[r]
        /\ \/ answers'[s] = answers[s] /\ readings'[s] = readings[s]
           \/ /\ s \notin gone
              /\ answers'[s] = Append(answers[s], reply)
              /\ readings'[s] = Append(readings[s], reading)
    BY <1>0, <1>5, <1>6 DEF Types
  <1>8. Types'
    BY <1>0, <1>1, <1>2, <1>7 DEF Types, calls, sessions
  <1>9. Paired'
    <2>1. \A r \in Sessions : Len(readings'[r]) = Len(answers'[r])
      BY <1>0, <1>4, <1>5, <1>7 DEF Paired
    <2>2. \A r \in gone' : answers'[r] = << >>
      BY <1>0, <1>1, <1>7 DEF Paired, sessions, Types
    <2>. QED
      BY <1>1, <2>1, <2>2 DEF Paired
  <1>10. \A r \in Sessions \ {s} : Still(r)
    BY <1>2, <1>7 DEF Still
  <1>11. Load(s)' <= Load(s)
    <2>1. \A a, b \in Nat : (a - 1) + b <= a + b /\ (a - 1) + (b + 1) <= a + b
      OBVIOUS
    <2>2. Load(s)' \in {(Len(todo[s]) - 1) + Len(answers[s]),
                        (Len(todo[s]) - 1) + (Len(answers[s]) + 1)}
      BY <1>2, <1>5, <1>7 DEF Load
    <2>. QED
      BY <1>2, <1>5, <2>1, <2>2, Zenon DEF Load
  <1>12. Underway(s)' \subseteq Underway(s)
    <2>1. Underway(s) = {readings[s][i] : i \in 1..Len(readings[s])} \cup {reading}
      BY <1>1 DEF Underway
    <2>2. Underway(s)' = {readings'[s][i] : i \in 1..Len(readings'[s])}
      BY <1>1, ProxiedAssumption DEF Underway
    <2>3. Len(readings[s]) \in Nat
      BY <1>4, EmptyFacts
    <2>4. ASSUME NEW i \in 1..Len(readings'[s])
          PROVE  readings'[s][i] \in {readings[s][j] : j \in 1..Len(readings[s])} \cup {reading}
      <3>1. CASE readings'[s] = readings[s]
        BY <2>4, <3>1
      <3>2. CASE readings'[s] = Append(readings[s], reading)
        <4>1. i \in 1..Len(readings[s]) \/ i = Len(readings[s]) + 1
          BY <1>5, <2>3, <2>4, <3>2
        <4>. QED
          BY <1>5, <3>2, <4>1
      <3>. QED
        BY <1>7, <3>1, <3>2
    <2>. QED
      BY <2>1, <2>2, <2>4
  <1>. QED
    BY <1>1, <1>2, <1>8, <1>9, <1>10, <1>11, <1>12, SessionMoves

(* The session of a client that has hung up forgets its requests.          *)
LEMMA EndSessionStep ==
  ASSUME Invariant, NEW s \in Sessions, EndSession(s)
  PROVE  Invariant'
  <1>0. Types /\ Paired
    BY DEF Invariant
  <1>1. /\ s \in gone /\ serving # s /\ serving' = serving
        /\ todo' = [todo EXCEPT ![s] = << >>] /\ answers' = [answers EXCEPT ![s] = << >>]
        /\ UNCHANGED <<calls, sessions, readings, reading, limbo, store, credit>>
    BY DEF EndSession, Mux!End, inverter
  <1>2. answers' = answers
    BY <1>0, <1>1 DEF Types, Paired
  <1>3. << >> \in Seq(Wire) /\ Len(<< >>) = 0
    OBVIOUS
  <1>4. todo' \in [Sessions -> Seq(Wire)] /\ todo'[s] = << >>
        /\ \A r \in Sessions \ {s} : todo'[r] = todo[r]
    BY <1>0, <1>1, <1>3 DEF Types
  <1>5. Types'
    BY <1>0, <1>1, <1>2, <1>4 DEF Types, calls, sessions
  <1>6. Paired'
    BY <1>0, <1>1, <1>2, <1>4 DEF Paired, sessions, Types
  <1>7. \A r \in Sessions \ {s} : Still(r)
    BY <1>1, <1>2, <1>4 DEF Still
  <1>8. Load(s)' <= Load(s)
    <2>1. \A a, b \in Nat : 0 + b <= a + b
      OBVIOUS
    <2>2. Len(todo[s]) \in Nat /\ Len(answers[s]) \in Nat
      BY <1>0, EmptyFacts DEF Types
    <2>3. Load(s)' = 0 + Len(answers[s])
      BY <1>2, <1>3, <1>4 DEF Load
    <2>. QED
      BY <2>1, <2>2, <2>3 DEF Load
  <1>9. Asked(s)' \subseteq Asked(s) /\ Underway(s)' \subseteq Underway(s)
    BY <1>1, <1>3, <1>4 DEF Asked, Underway
  <1>. QED
    BY <1>1, <1>5, <1>6, <1>7, <1>8, <1>9, SessionMoves

-----------------------------------------------------------------------------
(* Steps of the inverter.                                                  *)

(* Every call sees what the object comes to hold. *)
Witnessed ==
  /\ store' \in Values /\ seen' \in [Clients -> SUBSET Values]
  /\ \A d \in Clients : seen[d] \subseteq seen'[d]
  /\ \A d \in Clients : pc[d] # "idle" => store' \in seen'[d]

(* A write is executed: every call in progress sees the value.             *)
LEMMA ApplyFacts ==
  ASSUME Invariant, NEW c \in Clients, NEW v \in Values, Apply(c, v)
  PROVE  Witnessed /\ store' = v /\ credit' \in [Clients -> Int]
  <1>1. /\ store' = v /\ credit' = [credit EXCEPT ![c] = @ - 1]
        /\ seen' = [d \in Clients |-> IF pc[d] # "idle" THEN seen[d] \cup {v} ELSE seen[d]]
    BY DEF Apply
  <1>2. seen \in [Clients -> SUBSET Values] /\ credit \in [Clients -> Int]
    BY DEF Invariant, Types
  <1>3. credit[c] - 1 \in Int
    BY <1>2
  <1>4. credit' \in [Clients -> Int]
    BY <1>1, <1>2, <1>3
  <1>. QED
    BY <1>1, <1>2, <1>4 DEF Witnessed

(* A read is executed: nothing changes.                                    *)
LEMMA NothingApplied ==
  ASSUME Invariant, UNCHANGED <<store, seen, credit>>
  PROVE  Witnessed /\ credit' \in [Clients -> Int]
  BY DEF Invariant, Types, Good, Current, Witnessed

(* Nothing but a reading is added to a session.                             *)
LEMMA Executed ==
  ASSUME Invariant, Witnessed, Types', Paired',
         UNCHANGED <<pc, call, step, owed, sessions, todo, serving, answers, readings>>,
         \A d \in Clients : Honest(d) /\ reading' # reading /\ serving = Mine(d) /\ Writing(d) =>
           reading' = call[d].value,
         reading' = reading \/ reading' = store'
  PROVE  Invariant'
  <1>1. ASSUME NEW d \in Clients
        PROVE  Good(d)'
    <2>1. Good(d) /\ Types
      BY DEF Invariant
    <2>2. \A r \in Sessions : r[1] = d =>
            /\ r \in gone' <=> r \in gone
            /\ Load(r) \in Nat /\ Load(r)' \in Nat /\ Load(r)' <= Load(r)
            /\ Asked(r)' \subseteq Asked(r)
      <3>1. ASSUME NEW r \in Sessions
            PROVE  Load(r) \in Nat /\ Load(r)' = Load(r) /\ Asked(r)' = Asked(r)
        BY <2>1, LoadType DEF Load, Asked
      <3>2. gone' = gone
        BY DEF sessions
      <3>3. ASSUME NEW r \in Sessions
            PROVE  Load(r)' \in Nat /\ Load(r)' <= Load(r)
        BY <3>1
      <3>. QED
        BY <3>1, <3>2, <3>3
    <2>3. Honest(d) => pc[d] # "idle"
      BY DEF Honest
    <2>4. Mine(d)' = Mine(d)
      BY DEF Mine, sessions
    <2>5. Underway(Mine(d))' \subseteq
            Underway(Mine(d)) \cup (IF serving = Mine(d) /\ reading' # reading THEN {reading'} ELSE {})
      BY <2>4 DEF Underway
    <2>6. Honest(d) => /\ Underway(Mine(d))' \subseteq seen'[d]
                       /\ Writing(d) => Underway(Mine(d))' \subseteq {call[d].value}
      BY <2>1, <2>3, <2>5 DEF Good, Current, Own, Witnessed
    <2>7. pc[d] # "idle" => store' \in seen'[d]
      BY DEF Witnessed
    <2>. QED
      BY <2>2, <2>6, <2>7, GoodKept DEF sessions
  <1>. QED
    BY <1>1 DEF Invariant

(* The request in service is executed, and the reading is the value it     *)
(* leaves or finds.                                                        *)
LEMMA ExecuteStep ==
  ASSUME Invariant, Execute
  PROVE  Invariant'
  <1>0. Types /\ Paired
    BY DEF Invariant
  <1>1. /\ serving # Nobody /\ reading = NoValue /\ reading' = store'
        /\ UNCHANGED <<pc, call, step, made, result, owed, sessions, todo, serving, answers,
                       readings, limbo>>
    BY DEF Execute
  <1>2. PICK s \in Sessions : s = serving
    BY <1>0, <1>1 DEF Types
  <1>3. todo[s] \in Seq(Wire) /\ todo[s] # << >>
    BY <1>0, <1>1, <1>2 DEF Types, Paired
  <1>4. Head(todo[s]) \in Wire /\ Head(todo[s]) \in Asked(s)
    <2>1. Head(todo[s]) \in Wire /\ Head(todo[s]) = todo[s][1] /\ 1 \in 1..Len(todo[s])
      BY <1>3, TailFacts
    <2>. QED
      BY <2>1 DEF Asked
  <1>5. IF Head(todo[s]).command = "write" THEN Apply(s[1], Head(todo[s]).value)
                                           ELSE UNCHANGED <<store, seen, credit>>
    BY <1>2 DEF Execute
  <1>6. s[1] \in Clients /\ (Head(todo[s]).command = "write" => Head(todo[s]).value \in Values)
    BY <1>4 DEF Sessions, Wire
  <1>7. /\ Witnessed /\ credit' \in [Clients -> Int]
        /\ Head(todo[s]).command = "write" => store' = Head(todo[s]).value
    BY <1>5, <1>6, ApplyFacts, NothingApplied
  <1>8. Types'
    BY <1>0, <1>1, <1>7 DEF Types, Witnessed, sessions
  <1>9. Paired'
    BY <1>0, <1>1 DEF Paired, sessions
  <1>10. ASSUME NEW d \in Clients, Honest(d), serving = Mine(d), Writing(d)
         PROVE  reading' = call[d].value
    BY <1>1, <1>2, <1>4, <1>7, <1>10 DEF Invariant, Good, Own
  <1>. QED
    BY <1>1, <1>7, <1>8, <1>9, <1>10, Executed

(* RemoveAt drops one element and moves up those behind it.                *)
LEMMA RemoveFacts ==
  ASSUME NEW S, NEW q \in Seq(S), NEW i \in 1..Len(q)
  PROVE  /\ RemoveAt(q, i) \in Seq(S)
         /\ Len(RemoveAt(q, i)) = Len(q) - 1
         /\ \A j \in 1..(Len(q) - 1) : RemoveAt(q, i)[j] = IF j < i THEN q[j] ELSE q[j + 1]
  BY CutFacts DEF RemoveAt

(* A write that was given up is executed: it is no session's reading.      *)
LEMMA ExecuteLateStep ==
  ASSUME Invariant, ExecuteLate
  PROVE  Invariant'
  <1>0. Types /\ Paired
    BY DEF Invariant
  <1>1. PICK i \in 1..Len(limbo) : Apply(limbo[i].by, limbo[i].value) /\ limbo' = RemoveAt(limbo, i)
    BY DEF ExecuteLate
  <1>2. UNCHANGED <<pc, call, step, made, result, owed, sessions, proxy>>
    BY DEF ExecuteLate
  <1>3. limbo \in Seq(Late) /\ limbo[i] \in Late
    BY <1>0, <1>1 DEF Types
  <1>4. limbo[i].by \in Clients /\ limbo[i].value \in Values
    BY <1>3 DEF Late
  <1>5. Witnessed /\ credit' \in [Clients -> Int]
    BY <1>1, <1>4, ApplyFacts
  <1>6. limbo' \in Seq(Late)
    BY <1>1, <1>3, RemoveFacts
  <1>7. Types'
    BY <1>0, <1>2, <1>5, <1>6 DEF Types, Witnessed, sessions, proxy
  <1>8. Paired'
    BY <1>0, <1>2 DEF Paired, sessions, proxy
  <1>. QED
    BY <1>2, <1>5, <1>7, <1>8, Executed DEF proxy

-----------------------------------------------------------------------------
(* The invariant.                                                          *)

(* At first there are no connections.                                      *)
LEMMA InvariantInit ==
  ASSUME Init
  PROVE  Invariant
  <1>1. << >> \in Seq(Wire) /\ << >> \in Seq(Replies) /\ << >> \in Seq(Values)
        /\ << >> \in Seq(Late) /\ Len(<< >>) = 0 /\ 0 + 0 = 0
    OBVIOUS
  <1>2. Start("read") \in Steps /\ 0 \in 0..SessionLimit
    BY StartType, ProxiedAssumption
  <1>3. /\ todo = [s \in Sessions |-> << >>] /\ answers = [s \in Sessions |-> << >>]
        /\ readings = [s \in Sessions |-> << >>] /\ serving = Nobody /\ reading = NoValue
    BY DEF Init, Mux!Init
  <1>4. Types
    BY <1>1, <1>2, <1>3 DEF Init, Types, ControlPoints
  <1>5. Paired
    BY <1>3 DEF Init, Paired
  <1>6. ASSUME NEW c \in Clients
        PROVE  Good(c)
    <2>1. pc[c] = "idle" /\ session[c] = 0 /\ ~owed[c] /\ gone = {}
      BY DEF Init
    <2>2. ASSUME NEW n \in 1..SessionLimit
          PROVE  Load(<<c, n>>) = 0
      <3>1. <<c, n>> \in Sessions
        BY DEF Sessions
      <3>. QED
        BY <1>1, <1>3, <3>1 DEF Load
    <2>3. ~Up(c)
      BY <2>1 DEF Up
    <2>. QED
      BY <2>1, <2>2, <2>3 DEF Good, Unused, Tidy, Current, Own, Honest
  <1>. QED
    BY <1>4, <1>5, <1>6 DEF Invariant

(* Every step keeps the invariant.                                         *)
LEMMA InvariantNext ==
  ASSUME Invariant, [Next]_vars
  PROVE  Invariant'
  <1>1. ASSUME NEW c \in Clients,
               Begin(c) \/ ConnectFail(c) \/ Send(c) \/ Receive(c) \/ TimeOut(c)
        PROVE  Invariant'
    BY <1>1, BeginStep, ConnectFailStep, SendStep, ReceiveStep, TimeOutStep
  <1>2. ASSUME NEW s \in Sessions, Forward(s) \/ Deliver(s) \/ Fail(s) \/ EndSession(s)
        PROVE  Invariant'
    BY <1>2, ForwardStep, DeliverStep, FailStep, EndSessionStep
  <1>3. CASE UNCHANGED vars
    <2>1. Types' /\ Paired'
      BY <1>3 DEF vars, Invariant, Types, Paired
    <2>2. ASSUME NEW d \in Clients
          PROVE  Good(d)'
      <3>1. Idles(d) /\ store' = store
        BY <1>3 DEF vars, Idles, Still
      <3>. QED
        BY <3>1, IdlesGood
    <2>. QED
      BY <2>1, <2>2 DEF Invariant
  <1>. QED
    BY <1>1, <1>2, <1>3, ExecuteStep, ExecuteLateStep DEF Next

(* What is on the connection of a client that hangs up after an error, or   *)
(* that began its call with nothing owed to it, belongs to its call.        *)
THEOREM InvariantHolds == Spec => []Invariant
  BY InvariantInit, InvariantNext, PTL DEF Spec

(* State has its type, a call that waits has a connection, and the answers  *)
(* and the readings they carry are paired.                                  *)
THEOREM TypeCorrect == Spec => []TypeOK
  <1>1. Invariant => TypeOK
    BY DEF Invariant, Types, Paired, Good, ControlPoints, TypeOK
  <1>. QED
    BY <1>1, InvariantHolds, PTL

(* A step of a client moves no other. *)
LEMMA OthersStay ==
  ASSUME Invariant, NEW c \in Clients,
         Begin(c) \/ ConnectFail(c) \/ Send(c) \/ Receive(c) \/ TimeOut(c)
  PROVE  \A d \in Clients \ {c} : pc'[d] = pc[d]
  <1>1. ASSUME NEW next, Proceed(c, next)
        PROVE  \A d \in Clients \ {c} : pc'[d] = pc[d]
    BY <1>1 DEF Proceed, Invariant, Types
  <1>2. CASE Begin(c) \/ Send(c)
    BY <1>2 DEF Begin, Send, Invariant, Types
  <1>3. CASE ConnectFail(c) \/ Receive(c) \/ TimeOut(c)
    BY <1>1, <1>3 DEF ConnectFail, Receive, TimeOut
  <1>. QED
    BY <1>2, <1>3

(* A call returns Ok only with an answer it has received. *)
LEMMA OkFromAnswer ==
  ASSUME Invariant, [Next]_vars, NEW c \in Clients, Returns(c)
  PROVE  Receive(c)
  <1>1. pc[c] # "idle" /\ pc'[c] = "idle" /\ result'[c].kind = "Ok"
    BY DEF Returns
  <1>2. pc' # pc
    BY <1>1
  <1>3. ~\E s \in Sessions : Forward(s) \/ Deliver(s) \/ Fail(s) \/ EndSession(s)
    BY <1>2 DEF Forward, Deliver, Fail, Abandon, EndSession, calls
  <1>4. PICK d \in Clients :
          Begin(d) \/ ConnectFail(d) \/ Send(d) \/ Receive(d) \/ TimeOut(d)
    BY <1>2, <1>3 DEF Next, vars, Execute, ExecuteLate
  <1>5. d = c
    BY <1>1, <1>4, OthersStay
  <1>6. ~Begin(c) /\ ~Send(c)
    BY <1>1 DEF Begin, Send, Invariant, Types
  <1>. QED
    BY <1>1, <1>4, <1>5, <1>6, ConnectFailStep, TimeOutStep

(* The value a call returns is one the object held while the call went on,  *)
(* whoever else uses the inverter and whatever the proxy gives up, unless   *)
(* its session owed replies to the client when the call began.              *)
THEOREM AnswersAreCurrent == Spec => AnswerIsCurrent
  <1>1. Invariant /\ [Next]_vars =>
          [\A c \in Clients : Returns(c) /\ ~Stale(c) => result'[c].value \in seen[c]]_vars
    BY OkFromAnswer, ReceiveStep DEF Returns
  <1>. QED
    BY <1>1, InvariantHolds, PTL DEF Spec, AnswerIsCurrent

(* A write, and a write_and_verify, returns Ok only with its own value,     *)
(* with the same exception, although it does not compare the first answer.  *)
THEOREM WritesAreOwn == Spec => OwnWrite
  <1>1. Invariant /\ [Next]_vars =>
          [\A c \in Clients :
             Returns(c) /\ ~Stale(c) /\ call[c].op # "read" =>
               result'[c].value = call[c].value]_vars
    BY OkFromAnswer, ReceiveStep DEF Returns
  <1>. QED
    BY <1>1, InvariantHolds, PTL DEF Spec, OwnWrite

-----------------------------------------------------------------------------
(* Counting.                                                               *)

(* No more than n. *)
Backed(P, n) == IsFiniteSet(P) /\ Cardinality(P) <= n

(* What backs a set is not negative.                                       *)
LEMMA BackedType ==
  ASSUME NEW P, NEW n \in Int, Backed(P, n)
  PROVE  n >= 0
  <1>1. Cardinality(P) \in Nat /\ Cardinality(P) <= n
    BY FS_CardinalityType DEF Backed
  <1>. QED
    BY <1>1

(* A set that maps one to one into a backed set is backed as well.         *)
LEMMA BackedInjection ==
  ASSUME NEW P, NEW n \in Int, Backed(P, n), NEW Q, NEW f \in [Q -> P],
         \A a, b \in Q : f[a] = f[b] => a = b
  PROVE  Backed(Q, n)
  <1>1. f \in Injection(Q, P)
    BY DEF Injection, IsInjective
  <1>2. /\ Cardinality(P) \in Nat /\ Cardinality(P) <= n
        /\ IsFiniteSet(Q) /\ Cardinality(Q) <= Cardinality(P)
    BY <1>1, FS_Injection, FS_CardinalityType DEF Backed
  <1>3. Cardinality(Q) \in Nat
    BY <1>2, FS_CardinalityType
  <1>. QED
    BY <1>2, <1>3 DEF Backed

(* So is a subset,                                                         *)
LEMMA BackedSubset ==
  ASSUME NEW P, NEW n \in Int, Backed(P, n), NEW Q, Q \subseteq P
  PROVE  Backed(Q, n)
  <1>1. /\ Cardinality(P) \in Nat /\ Cardinality(P) <= n
        /\ IsFiniteSet(Q) /\ Cardinality(Q) <= Cardinality(P)
    BY FS_Subset, FS_CardinalityType DEF Backed
  <1>2. Cardinality(Q) \in Nat
    BY <1>1, FS_CardinalityType
  <1>. QED
    BY <1>1, <1>2 DEF Backed

(* a set with one more element by one more,                                *)
LEMMA BackedAdd ==
  ASSUME NEW P, NEW n \in Int, Backed(P, n), NEW x
  PROVE  Backed(P \cup {x}, n + 1)
  <1>1. /\ Cardinality(P) \in Nat /\ Cardinality(P) <= n
        /\ IsFiniteSet(P \cup {x})
        /\ Cardinality(P \cup {x}) = IF x \in P THEN Cardinality(P) ELSE Cardinality(P) + 1
    BY FS_AddElement, FS_CardinalityType DEF Backed
  <1>. QED
    BY <1>1 DEF Backed

(* and a set with one element less by one less.                            *)
LEMMA BackedRemove ==
  ASSUME NEW P, NEW n \in Int, Backed(P, n), NEW x \in P
  PROVE  Backed(P \ {x}, n - 1)
  <1>1. /\ Cardinality(P) \in Nat /\ Cardinality(P) <= n
        /\ IsFiniteSet(P \ {x})
        /\ Cardinality(P \ {x}) = Cardinality(P) - 1
    BY FS_RemoveElement, FS_CardinalityType DEF Backed
  <1>. QED
    BY <1>1 DEF Backed

-----------------------------------------------------------------------------
(* The writes of a client that may still be executed, each by its place:    *)
(* 0 is limbo, n the session n of the client.                               *)

Unexecuted(s, i) ==
  /\ i \in 1..Len(todo[s])
  /\ todo[s][i].command = "write"
  /\ ~(serving = s /\ i = 1 /\ reading # NoValue)

Waiting(c) == {p \in (1..SessionLimit) \X Nat : Unexecuted(<<c, p[1]>>, p[2])}

Lost(c) == {p \in {0} \X (1..Len(limbo)) : limbo[p[2]].by = c}

Pending(c) == Waiting(c) \cup Lost(c)

(* There are no more of them than the client has credit for. *)
Credited == \A c \in Clients : Backed(Pending(c), credit[c])

(* A write that may still be executed is a request, or in limbo.           *)
LEMMA PendingShape ==
  ASSUME NEW c, NEW p \in Pending(c)
  PROVE  /\ p = <<p[1], p[2]>>
         /\ \/ p[1] \in 1..SessionLimit /\ p[2] \in Nat /\ Unexecuted(<<c, p[1]>>, p[2])
            \/ p[1] = 0 /\ p[2] \in 1..Len(limbo) /\ limbo[p[2]].by = c
  BY DEF Pending, Waiting, Lost

(* The same after a step.                                                  *)
LEMMA NextPendingShape ==
  ASSUME NEW c, NEW p \in Pending(c)'
  PROVE  /\ p = <<p[1], p[2]>>
         /\ \/ p[1] \in 1..SessionLimit /\ p[2] \in Nat /\ Unexecuted(<<c, p[1]>>, p[2])'
            \/ p[1] = 0 /\ p[2] \in 1..Len(limbo') /\ limbo'[p[2]].by = c
  BY DEF Pending, Waiting, Lost

(* Requests and writes in limbo are among them.                            *)
LEMMA PendingFacts ==
  ASSUME NEW c, NEW n, NEW i
  PROVE  /\ n \in 1..SessionLimit /\ i \in Nat /\ Unexecuted(<<c, n>>, i) =>
              <<n, i>> \in Pending(c)
         /\ i \in 1..Len(limbo) /\ limbo[i].by = c => <<0, i>> \in Pending(c)
  BY DEF Pending, Waiting, Lost

(* Nothing is added to what may be executed for client c. *)
LEMMA NothingAdded ==
  ASSUME Types, Credited, NEW c \in Clients, credit'[c] = credit[c], limbo' = limbo,
         \A n \in 1..SessionLimit : \A i \in Nat :
           Unexecuted(<<c, n>>, i)' => Unexecuted(<<c, n>>, i)
  PROVE  Backed(Pending(c)', credit'[c])
  <1>1. Pending(c)' \subseteq Pending(c)
    BY DEF Pending, Waiting, Lost
  <1>2. credit[c] \in Int /\ Backed(Pending(c), credit[c])
    BY DEF Types, Credited
  <1>. QED
    BY <1>1, <1>2, BackedSubset

(* At first there are none.                                                *)
LEMMA CreditedInit ==
  ASSUME Init
  PROVE  Credited
  <1>1. Len(<< >>) = 0 /\ 1..0 = {}
    OBVIOUS
  <1>2. ASSUME NEW c \in Clients
        PROVE  Pending(c) = {} /\ credit[c] = 0
    <2>1. ASSUME NEW n \in 1..SessionLimit
          PROVE  Len(todo[<<c, n>>]) = 0
      <3>1. <<c, n>> \in Sessions
        BY DEF Sessions
      <3>. QED
        BY <1>1, <3>1 DEF Init, Mux!Init
    <2>2. limbo = << >> /\ credit[c] = 0
      BY DEF Init
    <2>. QED
      BY <1>1, <2>1, <2>2 DEF Pending, Waiting, Lost, Unexecuted
  <1>. QED
    BY <1>2, FS_EmptySet DEF Credited, Backed

(* Steps that execute nothing, send nothing and give up nothing. *)
LEMMA CreditedRest ==
  ASSUME Invariant, Credited, UNCHANGED <<credit, limbo, todo>>,
         \/ UNCHANGED <<serving, reading>>
         \/ serving = Nobody /\ reading' = reading
  PROVE  Credited'
  <1>0. Types /\ Paired
    BY DEF Invariant
  <1>1. ASSUME NEW c \in Clients
        PROVE  Backed(Pending(c)', credit'[c])
    <2>1. ASSUME NEW n \in 1..SessionLimit, NEW i \in Nat
          PROVE  Unexecuted(<<c, n>>, i)' => Unexecuted(<<c, n>>, i)
      BY <1>0 DEF Unexecuted, Paired
    <2>. QED
      BY <1>0, <2>1, NothingAdded
  <1>. QED
    BY <1>1 DEF Credited

(* A write that is sent is paid for. *)
LEMMA CreditedSend ==
  ASSUME Invariant, Credited, NEW c \in Clients, Send(c)
  PROVE  Credited'
  <1>0. Types /\ Paired
    BY DEF Invariant
  <1>1. PICK s, frame : s = <<c, session'[c]>> /\ frame = Request(call[c], step[c])
    OBVIOUS
  <1>2. /\ s \in Sessions /\ frame \in Wire
        /\ todo' = [todo EXCEPT ![s] = Append(todo[s], frame)]
    BY <1>0, <1>1, SendFacts
  <1>3. /\ limbo' = limbo /\ UNCHANGED <<serving, reading>>
        /\ credit' = [credit EXCEPT ![c] = IF frame.command = "write" THEN @ + 1 ELSE @]
    BY <1>1 DEF Send, Mux!Submit, inverter
  <1>4. /\ todo[s] \in Seq(Wire) /\ Len(todo[s]) \in Nat
        /\ Len(Append(todo[s], frame)) = Len(todo[s]) + 1
        /\ \A i \in 1..Len(todo[s]) : Append(todo[s], frame)[i] = todo[s][i]
        /\ Append(todo[s], frame)[Len(todo[s]) + 1] = frame
    <2>1. todo[s] \in Seq(Wire)
      BY <1>0, <1>2 DEF Types
    <2>. QED
      BY <1>2, <2>1, AppendFacts, EmptyFacts
  <1>5. todo'[s] = Append(todo[s], frame) /\ \A r \in Sessions : r # s => todo'[r] = todo[r]
    BY <1>0, <1>2 DEF Types
  <1>6. ASSUME NEW d \in Clients, NEW n \in 1..SessionLimit, NEW i \in Nat,
               Unexecuted(<<d, n>>, i)'
        PROVE  \/ Unexecuted(<<d, n>>, i)
               \/ <<d, n>> = s /\ i = Len(todo[s]) + 1 /\ frame.command = "write"
    <2>1. PICK r \in Sessions : r = <<d, n>>
      BY DEF Sessions
    <2>2. /\ i \in 1..Len(todo'[r]) /\ todo'[r][i].command = "write"
          /\ ~(serving = r /\ i = 1 /\ reading # NoValue)
      BY <1>3, <1>6, <2>1 DEF Unexecuted
    <2>3. CASE r # s
      BY <1>5, <2>1, <2>2, <2>3 DEF Unexecuted
    <2>4. CASE r = s
      <3>1. i \in 1..Len(todo[s]) \/ i = Len(todo[s]) + 1
        BY <1>4, <1>5, <2>2, <2>4
      <3>2. CASE i \in 1..Len(todo[s])
        BY <1>4, <1>5, <2>1, <2>2, <2>4, <3>2 DEF Unexecuted
      <3>3. CASE i = Len(todo[s]) + 1
        BY <1>4, <1>5, <2>1, <2>2, <2>4, <3>3
      <3>. QED
        BY <3>1, <3>2, <3>3
    <2>. QED
      BY <2>3, <2>4
  <1>7. ASSUME NEW d \in Clients, d # c \/ frame.command # "write"
        PROVE  Backed(Pending(d)', credit'[d])
    <2>1. credit'[d] = credit[d]
      BY <1>0, <1>3, <1>7 DEF Types
    <2>2. ASSUME NEW n \in 1..SessionLimit, NEW i \in Nat
          PROVE  Unexecuted(<<d, n>>, i)' => Unexecuted(<<d, n>>, i)
      BY <1>1, <1>6, <1>7
    <2>. QED
      BY <1>0, <1>3, <2>1, <2>2, NothingAdded
  <1>8. ASSUME frame.command = "write"
        PROVE  Backed(Pending(c)', credit'[c])
    <2>1. credit[c] \in Int /\ credit'[c] = credit[c] + 1 /\ Backed(Pending(c), credit[c])
      BY <1>0, <1>3, <1>8 DEF Types, Credited
    <2>2. PICK x : x = <<session'[c], Len(todo[s]) + 1>>
      OBVIOUS
    <2>3. Pending(c)' \subseteq Pending(c) \cup {x}
      <3>1. ASSUME NEW p \in Pending(c)'
            PROVE  p \in Pending(c) \cup {x}
        <4>1. CASE p[1] \in 1..SessionLimit /\ p[2] \in Nat /\ Unexecuted(<<c, p[1]>>, p[2])'
          <5>1. \/ Unexecuted(<<c, p[1]>>, p[2])
                \/ <<c, p[1]>> = s /\ p[2] = Len(todo[s]) + 1
            BY <1>6, <4>1
          <5>2. p = <<p[1], p[2]>>
            BY NextPendingShape
          <5>3. CASE Unexecuted(<<c, p[1]>>, p[2])
            <6>1. <<p[1], p[2]>> \in Pending(c)
              BY <4>1, <5>3, PendingFacts
            <6>. QED
              BY <5>2, <6>1
          <5>4. CASE <<c, p[1]>> = s /\ p[2] = Len(todo[s]) + 1
            <6>1. p[1] = session'[c]
              BY <1>1, <5>4
            <6>. QED
              BY <2>2, <5>2, <5>4, <6>1
          <5>. QED
            BY <5>1, <5>3, <5>4
        <4>2. CASE p[1] = 0 /\ p[2] \in 1..Len(limbo') /\ limbo'[p[2]].by = c
          <5>1. p = <<p[1], p[2]>> /\ p[2] \in 1..Len(limbo) /\ limbo[p[2]].by = c
            BY <1>3, <4>2, NextPendingShape
          <5>2. <<0, p[2]>> \in Pending(c)
            BY <5>1, PendingFacts
          <5>. QED
            BY <4>2, <5>1, <5>2
        <4>. QED
          BY <4>1, <4>2, NextPendingShape
      <3>. QED
        BY <3>1
    <2>4. Backed(Pending(c) \cup {x}, credit[c] + 1)
      BY <2>1, BackedAdd
    <2>. QED
      BY <2>1, <2>3, <2>4, BackedSubset
  <1>. QED
    BY <1>7, <1>8 DEF Credited

(* A request that is finished leaves the others in their order; if it is a  *)
(* write that was not executed, its place is in limbo now.                  *)
LEMMA CreditedDone ==
  ASSUME Types, Paired, Credited, NEW s \in Sessions, serving = s, serving' = Nobody,
         todo' = [todo EXCEPT ![s] = Tail(@)], credit' = credit,
         \/ limbo' = limbo
         \/ /\ reading = NoValue /\ Head(todo[s]).command = "write"
            /\ \E w \in Late : w.by = s[1] /\ limbo' = Append(limbo, w)
  PROVE  Credited'
  <1>1. /\ todo[s] \in Seq(Wire) /\ todo[s] # << >>
        /\ todo'[s] = Tail(todo[s]) /\ \A r \in Sessions \ {s} : todo'[r] = todo[r]
    BY ProxiedAssumption DEF Types, Paired
  <1>2. /\ Head(todo[s]) = todo[s][1] /\ 1 \in 1..Len(todo[s])
        /\ Len(todo[s]) \in Nat \ {0} /\ Len(todo'[s]) = Len(todo[s]) - 1
        /\ \A i \in 1..Len(todo'[s]) : todo'[s][i] = todo[s][i + 1]
    <2>1. /\ Head(todo[s]) = todo[s][1] /\ 1 \in 1..Len(todo[s])
          /\ Len(todo[s]) \in Nat \ {0} /\ Len(Tail(todo[s])) = Len(todo[s]) - 1
          /\ \A i \in 1..Len(Tail(todo[s])) : Tail(todo[s])[i] = todo[s][i + 1]
      BY <1>1, TailFacts
    <2>. QED
      BY <1>1, <2>1
  <1>3. ASSUME NEW n, NEW c \in Clients, n \in 1..SessionLimit, NEW i \in Nat,
               Unexecuted(<<c, n>>, i)'
        PROVE  /\ i >= 1
               /\ <<c, n>> = s => Unexecuted(s, i + 1)
               /\ <<c, n>> # s => Unexecuted(<<c, n>>, i)
    <2>1. PICK r \in Sessions : r = <<c, n>>
      BY <1>3 DEF Sessions
    <2>2. i \in 1..Len(todo'[r]) /\ todo'[r][i].command = "write"
      BY <1>3, <2>1 DEF Unexecuted
    <2>3. CASE r = s
      <3>1. i + 1 \in 1..Len(todo[s]) /\ todo[s][i + 1].command = "write" /\ i >= 1
        BY <1>2, <2>2, <2>3
      <3>2. Unexecuted(s, i + 1)
        BY <3>1 DEF Unexecuted
      <3>. QED
        BY <2>1, <2>3, <3>1, <3>2
    <2>4. CASE r # s
      <3>1. Unexecuted(r, i) /\ i >= 1
        BY <1>1, <2>2, <2>4 DEF Unexecuted
      <3>. QED
        BY <2>1, <2>4, <3>1
    <2>. QED
      BY <2>3, <2>4
  <1>4. limbo \in Seq(Late) /\ Len(limbo) \in Nat
    BY EmptyFacts DEF Types
  <1>5. ASSUME NEW j \in 1..Len(limbo')
        PROVE  \/ j \in 1..Len(limbo) /\ limbo'[j] = limbo[j]
               \/ j = Len(limbo) + 1 /\ limbo'[j].by = s[1] /\ Unexecuted(s, 1)
    <2>1. CASE limbo' = limbo
      BY <2>1
    <2>2. CASE limbo' # limbo
      <3>1. reading = NoValue /\ Head(todo[s]).command = "write"
        BY <2>2
      <3>2. PICK w \in Late : w.by = s[1] /\ limbo' = Append(limbo, w)
        BY <2>2
      <3>3. /\ Len(limbo') = Len(limbo) + 1 /\ limbo'[Len(limbo) + 1] = w
            /\ \A k \in 1..Len(limbo) : limbo'[k] = limbo[k]
        BY <1>4, <3>2, AppendFacts
      <3>4. j \in 1..Len(limbo) \/ j = Len(limbo) + 1
        BY <1>4, <3>3
      <3>5. Unexecuted(s, 1)
        BY <1>2, <3>1 DEF Unexecuted
      <3>. QED
        BY <3>2, <3>3, <3>4, <3>5
    <2>. QED
      BY <2>1, <2>2
  <1>6. s = <<s[1], s[2]>> /\ s[1] \in Clients /\ s[2] \in 1..SessionLimit
    BY DEF Sessions
  <1>7. SessionLimit \in Nat
    BY ProxiedAssumption
  <1>8. ASSUME NEW c \in Clients
        PROVE  Backed(Pending(c)', credit'[c])
    <2>. DEFINE place(p) == IF <<c, p[1]>> = s THEN <<p[1], p[2] + 1>>
                            ELSE IF p[1] = 0 /\ p[2] = Len(limbo) + 1 THEN <<s[2], 1>>
                            ELSE p
    <2>1. ASSUME NEW p \in Pending(c)'
          PROVE  /\ p = <<p[1], p[2]>> /\ p[1] \in Nat /\ p[2] \in Nat /\ p[2] >= 1
                 /\ \/ /\ <<c, p[1]>> = s /\ p[1] # 0 /\ <<p[1], p[2] + 1>> \in Pending(c)
                    \/ /\ <<c, p[1]>> # s /\ p[1] = 0 /\ p[2] = Len(limbo) + 1 /\ c = s[1]
                       /\ <<s[2], 1>> \in Pending(c)
                    \/ /\ <<c, p[1]>> # s /\ ~(p[1] = 0 /\ p[2] = Len(limbo) + 1)
                       /\ p \in Pending(c)
      <3>1. p = <<p[1], p[2]>>
        BY NextPendingShape
      <3>2. CASE p[1] \in 1..SessionLimit /\ p[2] \in Nat /\ Unexecuted(<<c, p[1]>>, p[2])'
        <4>1. /\ p[2] >= 1 /\ p[1] \in Nat /\ p[1] # 0 /\ p[2] + 1 \in Nat
              /\ <<c, p[1]>> = s => Unexecuted(s, p[2] + 1)
              /\ <<c, p[1]>> # s => Unexecuted(<<c, p[1]>>, p[2])
          BY <1>3, <1>7, <3>2
        <4>2. CASE <<c, p[1]>> = s
          BY <3>1, <3>2, <4>1, <4>2, PendingFacts
        <4>3. CASE <<c, p[1]>> # s
          <5>1. <<p[1], p[2]>> \in Pending(c)
            BY <3>2, <4>1, <4>3, PendingFacts
          <5>. QED
            BY <3>1, <3>2, <4>1, <4>3, <5>1
        <4>. QED
          BY <4>2, <4>3
      <3>3. CASE p[1] = 0 /\ p[2] \in 1..Len(limbo') /\ limbo'[p[2]].by = c
        <4>1. <<c, p[1]>> # s
          BY <1>6, <1>7, <3>3
        <4>2. p[2] \in Nat /\ p[2] >= 1
          BY <3>3
        <4>3. CASE p[2] \in 1..Len(limbo) /\ limbo'[p[2]] = limbo[p[2]]
          <5>1. p[2] # Len(limbo) + 1
            BY <1>4, <4>3
          <5>2. limbo[p[2]].by = c
            BY <3>3, <4>3
          <5>3. <<0, p[2]>> \in Pending(c)
            BY <4>3, <5>2, PendingFacts
          <5>. QED
            BY <3>1, <3>3, <4>1, <4>2, <5>1, <5>3
        <4>4. CASE p[2] = Len(limbo) + 1 /\ limbo'[p[2]].by = s[1] /\ Unexecuted(s, 1)
          <5>1. c = s[1] /\ s = <<c, s[2]>>
            BY <1>6, <3>3, <4>4
          <5>2. <<s[2], 1>> \in Pending(c)
            BY <1>6, <4>4, <5>1, PendingFacts
          <5>. QED
            BY <3>1, <3>3, <4>1, <4>2, <4>4, <5>1, <5>2
        <4>. QED
          BY <1>5, <3>3, <4>3, <4>4
      <3>. QED
        BY <3>2, <3>3, NextPendingShape
    <2>2. \A p \in Pending(c)' : place(p) \in Pending(c)
      BY <2>1
    <2>3. ASSUME NEW a \in Pending(c)', NEW b \in Pending(c)', place(a) = place(b)
          PROVE  a = b
      <3>1. ASSUME NEW x \in Pending(c)', NEW y \in Pending(c)', <<c, x[1]>> = s, <<c, y[1]>> # s
            PROVE  place(x) # place(y)
        <4>1. x[2] + 1 # 1 /\ place(x) = <<x[1], x[2] + 1>>
          BY <2>1, <3>1
        <4>2. CASE y[1] = 0 /\ y[2] = Len(limbo) + 1
          BY <3>1, <4>1, <4>2
        <4>3. CASE ~(y[1] = 0 /\ y[2] = Len(limbo) + 1)
          <5>1. place(y) = y
            BY <3>1, <4>3
          <5>2. x[1] # y[1]
            BY <3>1
          <5>3. <<x[1], x[2] + 1>>[1] = x[1]
            OBVIOUS
          <5>. QED
            BY <4>1, <5>1, <5>2, <5>3
        <4>. QED
          BY <4>2, <4>3
      <3>2. CASE <<c, a[1]>> = s /\ <<c, b[1]>> = s
        <4>1. a[1] = b[1] /\ a[2] + 1 = b[2] + 1
          <5>1. place(a) = <<a[1], a[2] + 1>> /\ place(b) = <<b[1], b[2] + 1>>
            BY <3>2, Zenon
          <5>2. <<a[1], a[2] + 1>> = <<b[1], b[2] + 1>>
            BY <2>3, <5>1, Zenon
          <5>3. /\ <<a[1], a[2] + 1>>[1] = a[1] /\ <<a[1], a[2] + 1>>[2] = a[2] + 1
                /\ <<b[1], b[2] + 1>>[1] = b[1] /\ <<b[1], b[2] + 1>>[2] = b[2] + 1
            OBVIOUS
          <5>. QED
            BY <5>2, <5>3, Zenon
        <4>2. a[2] = b[2]
          <5>1. a[2] \in Nat /\ b[2] \in Nat
            BY <2>1
          <5>. QED
            BY <4>1, <5>1
        <4>. QED
          BY <2>1, <4>1, <4>2
      <3>3. CASE <<c, a[1]>> # s /\ <<c, b[1]>> # s
        <4>1. ASSUME NEW x \in Pending(c)', NEW y \in Pending(c)',
                     <<c, x[1]>> # s, <<c, y[1]>> # s,
                     x[1] = 0, x[2] = Len(limbo) + 1, ~(y[1] = 0 /\ y[2] = Len(limbo) + 1)
              PROVE  place(x) # place(y)
          <5>1. place(x) = <<s[2], 1>> /\ place(y) = y /\ c = s[1]
            BY <2>1, <4>1
          <5>2. y # <<s[2], 1>>
            BY <1>6, <4>1, <5>1
          <5>. QED
            BY <5>1, <5>2
        <4>2. CASE /\ a[1] = 0 /\ a[2] = Len(limbo) + 1
                   /\ b[1] = 0 /\ b[2] = Len(limbo) + 1
          BY <2>1, <4>2
        <4>3. CASE /\ ~(a[1] = 0 /\ a[2] = Len(limbo) + 1)
                   /\ ~(b[1] = 0 /\ b[2] = Len(limbo) + 1)
          BY <2>3, <3>3, <4>3
        <4>. QED
          BY <2>3, <3>3, <4>1, <4>2, <4>3
      <3>. QED
        BY <2>3, <3>1, <3>2, <3>3
    <2>4. PICK f \in [Pending(c)' -> Pending(c)] : \A p \in Pending(c)' : f[p] = place(p)
      <3>1. [p \in Pending(c)' |-> place(p)] \in [Pending(c)' -> Pending(c)]
        BY <2>2
      <3>. QED
        BY <3>1
    <2>. HIDE DEF place
    <2>5. ASSUME NEW a \in Pending(c)', NEW b \in Pending(c)', f[a] = f[b]
          PROVE  a = b
      <3>1. place(a) = place(b)
        BY <2>4, <2>5
      <3>. QED
        BY <2>3, <3>1
    <2>6. credit[c] \in Int /\ Backed(Pending(c), credit[c])
      BY DEF Types, Credited
    <2>7. Backed(Pending(c)', credit[c])
      BY <2>4, <2>5, <2>6, BackedInjection, Zenon
    <2>. QED
      BY <2>7
  <1>. QED
    BY <1>8 DEF Credited

(* The requests of a session that ends are forgotten. *)
LEMMA CreditedEnd ==
  ASSUME Invariant, Credited, NEW s \in Sessions, EndSession(s)
  PROVE  Credited'
  <1>0. Types /\ Paired
    BY DEF Invariant
  <1>1. /\ serving' = serving /\ todo' = [todo EXCEPT ![s] = << >>]
        /\ UNCHANGED <<reading, limbo, credit>> /\ Nobody # s
    BY ProxiedAssumption DEF EndSession, Mux!End, inverter
  <1>2. todo'[s] = << >> /\ \A r \in Sessions \ {s} : todo'[r] = todo[r]
    BY <1>0, <1>1 DEF Types
  <1>3. ASSUME NEW c \in Clients
        PROVE  Backed(Pending(c)', credit'[c])
    <2>1. ASSUME NEW n \in 1..SessionLimit, NEW i \in Nat, Unexecuted(<<c, n>>, i)'
          PROVE  Unexecuted(<<c, n>>, i)
      <3>1. PICK r \in Sessions : r = <<c, n>>
        BY DEF Sessions
      <3>2. r # s
        BY <1>2, <2>1, <3>1 DEF Unexecuted
      <3>. QED
        BY <1>1, <1>2, <2>1, <3>1, <3>2 DEF Unexecuted
    <2>. QED
      BY <1>0, <1>1, <2>1, NothingAdded
  <1>. QED
    BY <1>3 DEF Credited

(* A write in service that is executed no longer waits. *)
LEMMA CreditedExecute ==
  ASSUME Invariant, Credited, Execute
  PROVE  Credited'
  <1>0. Types /\ Paired
    BY DEF Invariant
  <1>1. /\ serving # Nobody /\ reading = NoValue /\ reading' = store'
        /\ UNCHANGED <<todo, serving, limbo>>
    BY DEF Execute
  <1>2. PICK s \in Sessions : s = serving
    BY <1>0, <1>1 DEF Types
  <1>3. /\ todo[s] \in Seq(Wire) /\ todo[s] # << >>
        /\ Head(todo[s]) \in Wire /\ Head(todo[s]) = todo[s][1] /\ 1 \in 1..Len(todo[s])
    <2>1. todo[s] \in Seq(Wire) /\ todo[s] # << >>
      BY <1>0, <1>1, <1>2 DEF Types, Paired
    <2>. QED
      BY <2>1, TailFacts
  <1>4. s = <<s[1], s[2]>> /\ s[1] \in Clients /\ s[2] \in 1..SessionLimit
    BY DEF Sessions
  <1>5. IF Head(todo[s]).command = "write"
        THEN store' = Head(todo[s]).value /\ credit' = [credit EXCEPT ![s[1]] = @ - 1]
        ELSE store' = store /\ credit' = credit
    BY <1>2 DEF Execute, Apply
  <1>6. reading' # NoValue
    BY <1>0, <1>1, <1>3, <1>5, ProxiedAssumption DEF Types, Wire
  <1>7. ASSUME NEW r, NEW i, Unexecuted(r, i)'
        PROVE  Unexecuted(r, i) /\ ~(r = s /\ i = 1)
    BY <1>1, <1>2, <1>6, <1>7 DEF Unexecuted
  <1>8. ASSUME NEW c \in Clients, c # s[1] \/ Head(todo[s]).command # "write"
        PROVE  Backed(Pending(c)', credit'[c])
    <2>1. credit'[c] = credit[c]
      BY <1>0, <1>4, <1>5, <1>8 DEF Types
    <2>. QED
      BY <1>0, <1>1, <1>7, <2>1, NothingAdded
  <1>9. ASSUME Head(todo[s]).command = "write"
        PROVE  Backed(Pending(s[1])', credit'[s[1]])
    <2>1. PICK c \in Clients : c = s[1]
      BY <1>4
    <2>2. credit[c] \in Int /\ Backed(Pending(c), credit[c]) /\ credit'[c] = credit[c] - 1
      BY <1>0, <1>5, <1>9, <2>1 DEF Types, Credited
    <2>3. <<s[2], 1>> \in Pending(c)
      <3>1. Unexecuted(<<c, s[2]>>, 1)
        BY <1>1, <1>3, <1>4, <1>9, <2>1 DEF Unexecuted
      <3>. QED
        BY <1>4, <3>1, PendingFacts
    <2>4. ASSUME NEW p \in Pending(c)'
          PROVE  p \in Pending(c) /\ p # <<s[2], 1>>
      <3>1. p = <<p[1], p[2]>>
        BY NextPendingShape
      <3>2. CASE p[1] \in 1..SessionLimit /\ p[2] \in Nat /\ Unexecuted(<<c, p[1]>>, p[2])'
        <4>1. Unexecuted(<<c, p[1]>>, p[2]) /\ ~(<<c, p[1]>> = s /\ p[2] = 1)
          BY <1>7, <3>2
        <4>2. <<p[1], p[2]>> \in Pending(c)
          BY <3>2, <4>1, PendingFacts
        <4>3. p # <<s[2], 1>>
          BY <1>4, <2>1, <4>1
        <4>. QED
          BY <3>1, <4>2, <4>3
      <3>3. CASE p[1] = 0 /\ p[2] \in 1..Len(limbo') /\ limbo'[p[2]].by = c
        <4>1. <<0, p[2]>> \in Pending(c)
          BY <1>1, <3>3, PendingFacts
        <4>2. s[2] # 0
          BY <1>4, ProxiedAssumption
        <4>. QED
          BY <3>1, <3>3, <4>1, <4>2
      <3>. QED
        BY <3>2, <3>3, NextPendingShape
    <2>5. Backed(Pending(c) \ {<<s[2], 1>>}, credit[c] - 1)
      BY <2>2, <2>3, BackedRemove
    <2>6. Pending(c)' \subseteq Pending(c) \ {<<s[2], 1>>}
      BY <2>4
    <2>. QED
      BY <2>1, <2>2, <2>5, <2>6, BackedSubset
  <1>. QED
    BY <1>4, <1>8, <1>9 DEF Credited

(* So does one in limbo; those behind it move up. *)
LEMMA CreditedExecuteLate ==
  ASSUME Invariant, Credited, ExecuteLate
  PROVE  Credited'
  <1>0. Types
    BY DEF Invariant
  <1>1. PICK i \in 1..Len(limbo) :
          Apply(limbo[i].by, limbo[i].value) /\ limbo' = RemoveAt(limbo, i)
    BY DEF ExecuteLate
  <1>2. /\ UNCHANGED <<todo, serving, reading>>
        /\ credit' = [credit EXCEPT ![limbo[i].by] = @ - 1]
    BY <1>1 DEF ExecuteLate, Apply, proxy
  <1>3. limbo \in Seq(Late) /\ Len(limbo) \in Nat /\ i \in Nat /\ i <= Len(limbo)
    BY <1>0, EmptyFacts DEF Types
  <1>4. /\ Len(limbo') = Len(limbo) - 1
        /\ \A j \in 1..Len(limbo') : limbo'[j] = IF j < i THEN limbo[j] ELSE limbo[j + 1]
    BY <1>1, <1>3, RemoveFacts
  <1>5. limbo[i].by \in Clients
    <2>1. limbo[i] \in Late
      BY <1>3
    <2>. QED
      BY <2>1 DEF Late
  <1>6. ASSUME NEW r, NEW k, Unexecuted(r, k)'
        PROVE  Unexecuted(r, k)
    BY <1>2, <1>6 DEF Unexecuted
  <1>7. ASSUME NEW c \in Clients
        PROVE  \E f \in [Pending(c)' -> Pending(c) \ {<<0, i>>}] :
                 \A a, b \in Pending(c)' : f[a] = f[b] => a = b
    <2>. DEFINE place(p) == IF p[1] = 0 /\ ~(p[2] < i) THEN <<0, p[2] + 1>> ELSE p
    <2>1. ASSUME NEW p \in Pending(c)'
          PROVE  /\ p = <<p[1], p[2]>> /\ p[2] \in Nat
                 /\ \/ /\ p[1] = 0 /\ ~(p[2] < i)
                       /\ <<0, p[2] + 1>> \in Pending(c) /\ p[2] + 1 # i
                    \/ /\ ~(p[1] = 0 /\ ~(p[2] < i))
                       /\ p \in Pending(c) /\ p # <<0, i>>
      <3>1. p = <<p[1], p[2]>>
        BY NextPendingShape
      <3>2. CASE p[1] \in 1..SessionLimit /\ p[2] \in Nat /\ Unexecuted(<<c, p[1]>>, p[2])'
        <4>1. p[1] # 0
          BY <3>2, ProxiedAssumption
        <4>2. <<p[1], p[2]>> \in Pending(c)
          BY <1>6, <3>2, PendingFacts
        <4>3. p # <<0, i>>
          BY <4>1
        <4>. QED
          BY <3>1, <3>2, <4>1, <4>2, <4>3
      <3>3. CASE p[1] = 0 /\ p[2] \in 1..Len(limbo') /\ limbo'[p[2]].by = c
        <4>1. p[2] \in Nat /\ p[2] + 1 \in 1..Len(limbo) /\ p[2] \in 1..Len(limbo)
          BY <1>3, <1>4, <3>3
        <4>2. CASE p[2] < i
          <5>1. limbo[p[2]].by = c
            BY <1>4, <3>3, <4>2
          <5>2. <<0, p[2]>> \in Pending(c)
            BY <4>1, <5>1, PendingFacts
          <5>3. p[2] # i
            BY <1>3, <4>1, <4>2
          <5>4. p # <<0, i>>
            BY <5>3
          <5>. QED
            BY <3>1, <3>3, <4>1, <4>2, <5>2, <5>4
        <4>3. CASE ~(p[2] < i)
          <5>1. limbo[p[2] + 1].by = c
            BY <1>4, <3>3, <4>3
          <5>2. <<0, p[2] + 1>> \in Pending(c)
            BY <4>1, <5>1, PendingFacts
          <5>3. p[2] + 1 # i
            BY <1>3, <4>1, <4>3
          <5>. QED
            BY <3>1, <3>3, <4>1, <4>3, <5>2, <5>3
        <4>. QED
          BY <4>2, <4>3
      <3>. QED
        BY <3>2, <3>3, NextPendingShape
    <2>2. ASSUME NEW p \in Pending(c)'
          PROVE  place(p) \in Pending(c) \ {<<0, i>>}
      <3>1. CASE p[1] = 0 /\ ~(p[2] < i)
        <4>1. place(p) = <<0, p[2] + 1>> /\ <<0, p[2] + 1>> # <<0, i>>
          BY <2>1, <3>1
        <4>. QED
          BY <2>1, <3>1, <4>1
      <3>2. CASE ~(p[1] = 0 /\ ~(p[2] < i))
        <4>1. place(p) = p
          BY <3>2
        <4>. QED
          BY <2>1, <3>2, <4>1
      <3>. QED
        BY <3>1, <3>2
    <2>3. ASSUME NEW a \in Pending(c)', NEW b \in Pending(c)', place(a) = place(b)
          PROVE  a = b
      <3>0. /\ a = <<a[1], a[2]>> /\ b = <<b[1], b[2]>> /\ a[2] \in Nat /\ b[2] \in Nat
        BY <2>1
      <3>1. ASSUME NEW x \in Pending(c)', NEW y \in Pending(c)',
                   x[1] = 0 /\ ~(x[2] < i), ~(y[1] = 0 /\ ~(y[2] < i))
            PROVE  place(x) # place(y)
        <4>1. place(x) = <<0, x[2] + 1>> /\ place(y) = y
          BY <3>1
        <4>2. x[2] \in Nat /\ y[2] \in Nat
          BY <2>1
        <4>3. ~(y[1] = 0 /\ y[2] = x[2] + 1)
          BY <1>3, <3>1, <4>2
        <4>. QED
          BY <4>1, <4>3
      <3>2. CASE a[1] = 0 /\ ~(a[2] < i) /\ b[1] = 0 /\ ~(b[2] < i)
        <4>1. place(a) = <<0, a[2] + 1>> /\ place(b) = <<0, b[2] + 1>>
          BY <3>2, Zenon
        <4>2. <<0, a[2] + 1>>[2] = a[2] + 1 /\ <<0, b[2] + 1>>[2] = b[2] + 1
          OBVIOUS
        <4>3. a[2] + 1 = b[2] + 1
          BY <2>3, <4>1, <4>2, Zenon
        <4>4. a[2] = b[2]
          BY <3>0, <4>3
        <4>. QED
          BY <3>0, <3>2, <4>4
      <3>3. CASE ~(a[1] = 0 /\ ~(a[2] < i)) /\ ~(b[1] = 0 /\ ~(b[2] < i))
        BY <2>3, <3>3
      <3>. QED
        BY <2>3, <3>1, <3>2, <3>3
    <2>4. PICK f \in [Pending(c)' -> Pending(c) \ {<<0, i>>}] :
            \A p \in Pending(c)' : f[p] = place(p)
      <3>1. [p \in Pending(c)' |-> place(p)] \in [Pending(c)' -> Pending(c) \ {<<0, i>>}]
        BY <2>2
      <3>. QED
        BY <3>1
    <2>. HIDE DEF place
    <2>5. ASSUME NEW a \in Pending(c)', NEW b \in Pending(c)', f[a] = f[b]
          PROVE  a = b
      <3>1. place(a) = place(b)
        BY <2>4, <2>5
      <3>. QED
        BY <2>3, <3>1
    <2>. QED
      BY <2>5
  <1>8. ASSUME NEW c \in Clients
        PROVE  Backed(Pending(c)', credit'[c])
    <2>1. credit[c] \in Int /\ Backed(Pending(c), credit[c])
      BY <1>0 DEF Types, Credited
    <2>2. Backed(Pending(c) \ {<<0, i>>}, credit'[c]) /\ credit'[c] \in Int
      <3>1. CASE c = limbo[i].by
        <4>1. <<0, i>> \in Pending(c)
          BY <3>1, PendingFacts
        <4>2. credit'[c] = credit[c] - 1
          BY <1>0, <1>2, <3>1 DEF Types
        <4>. QED
          BY <2>1, <4>1, <4>2, BackedRemove
      <3>2. CASE c # limbo[i].by
        <4>1. credit'[c] = credit[c]
          BY <1>0, <1>2, <1>5, <3>2 DEF Types
        <4>. QED
          BY <2>1, <4>1, BackedSubset
      <3>. QED
        BY <3>1, <3>2
    <2>. QED
      BY <1>7, <2>2, BackedInjection, Zenon
  <1>. QED
    BY <1>8 DEF Credited

(* Every step keeps it. *)
LEMMA CreditedNext ==
  ASSUME Invariant, Credited, [Next]_vars
  PROVE  Credited'
  <1>0. Types /\ Paired
    BY DEF Invariant
  <1>1. ASSUME NEW c \in Clients, Begin(c) \/ ConnectFail(c) \/ Receive(c) \/ TimeOut(c)
        PROVE  Credited'
    <2>1. UNCHANGED <<credit, limbo, todo, serving, reading>>
      BY <1>1 DEF Begin, ConnectFail, Receive, TimeOut, proxy, inverter
    <2>. QED
      BY <2>1, CreditedRest
  <1>2. ASSUME NEW s \in Sessions, Forward(s)
        PROVE  Credited'
    <2>1. UNCHANGED <<credit, limbo, todo, reading>> /\ serving = Nobody
      BY <1>2 DEF Forward, Mux!Begin, inverter
    <2>. QED
      BY <2>1, CreditedRest
  <1>3. ASSUME NEW s \in Sessions, Deliver(s)
        PROVE  Credited'
    <2>1. /\ serving = s /\ serving' = Nobody /\ todo' = [todo EXCEPT ![s] = Tail(@)]
          /\ UNCHANGED <<credit, limbo>>
      BY <1>3 DEF Deliver, Mux!Fail, Mux!Answer, inverter
    <2>. QED
      BY <1>0, <2>1, CreditedDone
  <1>4. ASSUME NEW s \in Sessions, Fail(s)
        PROVE  Credited'
    <2>1. /\ serving = s /\ serving' = Nobody /\ todo' = [todo EXCEPT ![s] = Tail(@)]
          /\ credit' = credit
      BY <1>4 DEF Fail, Abandon, Mux!Fail
    <2>2. Head(todo[s]) \in Wire
      BY <1>0, <2>1, RequestDone
    <2>3. PICK w : w = [by |-> s[1], value |-> Head(todo[s]).value]
      OBVIOUS
    <2>4. \/ limbo' = limbo
          \/ /\ reading = NoValue /\ Head(todo[s]).command = "write"
             /\ limbo' = Append(limbo, w)
      BY <1>4, <2>1, <2>3 DEF Fail, Abandon
    <2>5. w.by = s[1] /\ (Head(todo[s]).command = "write" => w \in Late)
      BY <2>2, <2>3 DEF Wire, Late, Sessions
    <2>. QED
      BY <1>0, <2>1, <2>4, <2>5, CreditedDone
  <1>5. CASE UNCHANGED vars
    BY <1>5, CreditedRest DEF vars
  <1>. QED
    BY <1>1, <1>2, <1>3, <1>4, <1>5, CreditedSend, CreditedEnd, CreditedExecute,
       CreditedExecuteLate DEF Next

(* What a client has written is executed at most once for every frame that  *)
(* it sent, although the proxy gives up exchanges the inverter goes on      *)
(* with: it repeats no request.                                             *)
THEOREM WritesExecutedOnce == Spec => []ExecutedOnce
  <1>1. Spec => []Credited
    BY CreditedInit, CreditedNext, InvariantHolds, PTL DEF Spec
  <1>2. Invariant /\ Credited => ExecutedOnce
    BY BackedType DEF Invariant, Types, Credited, ExecutedOnce
  <1>. QED
    BY <1>1, <1>2, InvariantHolds, PTL
=============================================================================
