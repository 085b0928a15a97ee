------------------------------ MODULE ProxyProofs ------------------------------
(***************************************************************************)
(* Proofs about Proxy for any set of clients, any tags and any window: its *)
(* invariants, and that it implements Multiplexer.  What depends on the    *)
(* upstream connection being clean is proved under NoTraps.                *)
(***************************************************************************)
EXTENDS Proxy, QueueFacts

-----------------------------------------------------------------------------
(* What the shared steps of the handlers do to the types.                  *)

(* The loop goes on: the session of c is at the next frame or reads. *)
LEMMA ContinueTypes ==
  ASSUME TypeOK, NEW c \in Clients, chunk[c] # << >>, Continue(c)
  PROVE  /\ chunk' \in [Clients -> Seq(Request)]
         /\ pc' \in [Clients -> ControlPoints]
         /\ pc'[c] \in {"read", "feed"}
         /\ chunk'[c] = << >> <=> pc'[c] = "read"
         /\ \A d \in Clients \ {c} : pc'[d] = pc[d] /\ chunk'[d] = chunk[d]
  <1>1. /\ chunk[c] \in Seq(Request)
        /\ chunk \in [Clients -> Seq(Request)]
        /\ pc \in [Clients -> ControlPoints]
    BY DEF TypeOK
  <1>2. Tail(chunk[c]) \in Seq(Request) /\ Len(Tail(chunk[c])) = Len(chunk[c]) - 1
    BY <1>1, TailFacts
  <1>3. Tail(chunk[c]) = << >> <=> Len(chunk[c]) = 1
    <2>1. Tail(chunk[c]) = << >> <=> Len(Tail(chunk[c])) = 0
      BY <1>2, EmptyFacts, Zenon
    <2>2. Len(chunk[c]) \in Nat
      BY <1>1, EmptyFacts
    <2>. QED BY <2>1, <2>2, <1>2
  <1>4. chunk'[c] = Tail(chunk[c])
    BY <1>1 DEF Continue
  <1>5. pc'[c] = IF Len(chunk[c]) = 1 THEN "read" ELSE "feed"
    BY <1>1 DEF Continue
  <1>6. /\ chunk' \in [Clients -> Seq(Request)]
        /\ pc' \in [Clients -> ControlPoints]
        /\ \A d \in Clients \ {c} : pc'[d] = pc[d] /\ chunk'[d] = chunk[d]
    BY <1>1, <1>2 DEF Continue, ControlPoints
  <1>. QED
    BY <1>3, <1>4, <1>5, <1>6

(* The session of c ends: nothing of it is left. *)
LEMMA EndTypes ==
  ASSUME TypeOK, NEW c \in Clients, End(c)
  PROVE  /\ peer' \in [Clients -> {"none", "open", "shut"}]
         /\ inbound' \in [Clients -> Seq(Request)]
         /\ outbound' \in [Clients -> Seq(Reply)]
         /\ pc' \in [Clients -> ControlPoints]
         /\ chunk' \in [Clients -> Seq(Request)]
         /\ resp' \in [Clients -> Seq(Reply)]
         /\ peer'[c] = "none" /\ pc'[c] = "none"
         /\ chunk'[c] = << >> /\ resp'[c] = << >> /\ outbound'[c] = << >>
         /\ \A d \in Clients \ {c} :
              /\ peer'[d] = peer[d] /\ pc'[d] = pc[d] /\ chunk'[d] = chunk[d]
              /\ resp'[d] = resp[d] /\ outbound'[d] = outbound[d]
  BY DEF TypeOK, End, ControlPoints

-----------------------------------------------------------------------------
(* The mutex.                                                              *)

AtLock == {"lock", "connect", "send", "await"}

(* The queue does not change and nobody enters or leaves the region it      *)
(* guards; who moves on inside it is at its head.                           *)
LEMMA QueueKept ==
  ASSUME TypeOK, OneAtATime, UNCHANGED waiters,
         \A d \in Clients : \/ pc'[d] = pc[d]
                            \/ pc[d] \notin AtLock /\ pc'[d] \notin AtLock
                            \/ pc[d] \in AtLock /\ pc'[d] \in AtLock /\ Owner(d)
  PROVE  OneAtATime'
  BY DEF OneAtATime, Exchanging, Owner, AtLock

(* The head of the queue leaves it and the region. *)
LEMMA QueueReleased ==
  ASSUME TypeOK, OneAtATime, NEW c \in Clients, Exchanging(c), Release,
         pc'[c] \notin AtLock,
         \A d \in Clients \ {c} : pc'[d] = pc[d]
  PROVE  OneAtATime' /\ waiters' \in Seq(Clients)
  <1>1. waiters \in Seq(Clients) /\ waiters # << >> /\ waiters[1] = c
    <2>1. waiters \in Seq(Clients) /\ waiters # << >> /\ Head(waiters) = c
      BY DEF OneAtATime, Owner, TypeOK
    <2>. QED BY <2>1, TailFacts
  <1>2. /\ waiters' \in Seq(Clients)
        /\ Len(waiters) \in Nat \ {0}
        /\ Len(waiters') = Len(waiters) - 1
        /\ \A i \in 1..Len(waiters') : waiters'[i] = waiters[i + 1]
    BY <1>1, TailFacts DEF Release
  <1>3. \A i, j \in 1..Len(waiters) : waiters[i] = waiters[j] => i = j
    BY DEF OneAtATime
  <1>4. \A i, j \in 1..Len(waiters') : waiters'[i] = waiters'[j] => i = j
    BY <1>2, <1>3
  <1>5. \A i \in 1..Len(waiters') : waiters'[i] # c
    BY <1>1, <1>2, <1>3
  <1>6. \A d \in Clients \ {c} :
          (\E i \in 1..Len(waiters') : waiters'[i] = d)
            <=> (\E i \in 1..Len(waiters) : waiters[i] = d)
    <2>. TAKE d \in Clients \ {c}
    <2>1. ASSUME NEW i \in 1..Len(waiters), waiters[i] = d
          PROVE  \E k \in 1..Len(waiters') : waiters'[k] = d
      <3>1. i # 1
        BY <1>1, <2>1
      <3>2. i - 1 \in 1..Len(waiters') /\ waiters'[i - 1] = waiters[i]
        BY <1>2, <3>1
      <3>. QED BY <3>2, <2>1
    <2>2. ASSUME NEW i \in 1..Len(waiters'), waiters'[i] = d
          PROVE  \E k \in 1..Len(waiters) : waiters[k] = d
      <3>1. i + 1 \in 1..Len(waiters) /\ waiters[i + 1] = d
        BY <1>2, <2>2
      <3>. QED BY <3>1
    <2>. QED BY <2>1, <2>2
  <1>7. \A d \in Clients \ {c} : ~Exchanging(d)
    BY DEF OneAtATime, Owner
  <1>8. ~Exchanging(c)' /\ pc'[c] # "lock"
    BY DEF Exchanging, AtLock
  <1>9. \A d \in Clients : ~Exchanging(d)'
    BY <1>7, <1>8 DEF Exchanging
  <1>10. \A d \in Clients :
           pc'[d] = "lock" <=> \E i \in 1..Len(waiters') : waiters'[i] = d
    <2>. TAKE d \in Clients
    <2>1. CASE d = c
      BY <2>1, <1>5, <1>8
    <2>2. CASE d # c
      <3>1. pc[d] = "lock" <=> \E i \in 1..Len(waiters) : waiters[i] = d
        BY <1>7, <2>2 DEF OneAtATime
      <3>. QED BY <3>1, <1>6, <2>2
    <2>. QED BY <2>1, <2>2
  <1>. QED
    BY <1>2, <1>4, <1>9, <1>10 DEF OneAtATime

-----------------------------------------------------------------------------
(* Types.                                                                  *)

(* The owner of the mutex gets an error from exchange(). *)
LEMMA FailTypes ==
  ASSUME TypeOK, OneAtATime, NEW c \in Clients, Exchanging(c), Fail(c),
         sock' \in {"none", "live", "dead"}, up' \in Seq(Item), down' \in Seq(Reply),
         rest' \in TailKinds \cup {"none"}
  PROVE  TypeOK'
  <1>1. chunk[c] # << >> /\ resp[c] \in Seq(Reply) /\ Len(resp[c]) = 0
    BY DEF TypeOK, InPlace, Exchanging
  <1>2. /\ chunk' \in [Clients -> Seq(Request)]
        /\ pc' \in [Clients -> ControlPoints]
        /\ pc'[c] \in {"read", "feed"}
        /\ chunk'[c] = << >> <=> pc'[c] = "read"
        /\ \A d \in Clients \ {c} : pc'[d] = pc[d] /\ chunk'[d] = chunk[d]
    BY <1>1, ContinueTypes DEF Fail
  <1>3. waiters' \in Seq(Clients)
    BY <1>2, QueueReleased DEF Fail, AtLock
  <1>4. \A d \in Clients : InPlace(d)'
    <2>1. pc[c] # "none" /\ peer[c] # "none"
      BY DEF TypeOK, InPlace, Exchanging
    <2>2. InPlace(c)'
      BY <1>1, <1>2, <2>1 DEF InPlace, Fail, wires
    <2>3. \A d \in Clients \ {c} : InPlace(d)'
      BY <1>2 DEF TypeOK, InPlace, Fail, wires
    <2>. QED BY <2>2, <2>3
  <1>. QED
    BY <1>2, <1>3, <1>4 DEF TypeOK, Fail, wires

(* The session of c ends and nothing else happens to the variables that     *)
(* describe sessions.                                                       *)
LEMMA EndKeepsTypes ==
  ASSUME TypeOK, NEW c \in Clients, End(c), waiters' \in Seq(Clients),
         sock' \in {"none", "live", "dead"}, up' \in Seq(Item), down' \in Seq(Reply),
         rest' \in TailKinds \cup {"none"}
  PROVE  TypeOK'
  <1>1. InPlace(c)'
    BY EndTypes DEF InPlace
  <1>2. \A d \in Clients \ {c} :
          /\ peer'[d] = peer[d] /\ pc'[d] = pc[d] /\ chunk'[d] = chunk[d]
          /\ resp'[d] = resp[d]
    BY EndTypes
  <1>3. ASSUME NEW d \in Clients \ {c} PROVE InPlace(d)'
    <2>1. InPlace(d)
      BY DEF TypeOK
    <2>2. /\ peer'[d] = peer[d] /\ pc'[d] = pc[d] /\ chunk'[d] = chunk[d]
          /\ resp'[d] = resp[d]
      BY <1>2
    <2>. QED BY <2>1, <2>2 DEF InPlace
  <1>. QED
    BY <1>1, <1>3, EndTypes DEF TypeOK

(* A read takes so many replies off the connection. *)
LEMMA ReadTypes ==
  ASSUME TypeOK, NEW n \in 0..Len(down), down' = SubSeq(down, n + 1, Len(down))
  PROVE  down' \in Seq(Reply) /\ Len(down') = Len(down) - n
  <1>1. down \in Seq(Reply)
    BY DEF TypeOK
  <1>2. CASE n = 0
    BY <1>1, <1>2
  <1>3. CASE n # 0
    <2>1. n \in 1..Len(down)
      BY <1>1, <1>3
    <2>. QED BY <1>1, <2>1, SplitFacts
  <1>. QED
    BY <1>2, <1>3

(* What the parser reads of a reply it completes. *)
LEMMA ReplyTypes ==
  ASSUME TypeOK, ReadReply
  PROVE  /\ down' \in Seq(Reply) /\ Len(down') < Len(down)
         /\ rest' \in TailKinds \cup {"none"}
  <1>1. PICK n \in 1..Len(down) :
          /\ down' = SubSeq(down, n + 1, Len(down))
          /\ rest' \in {"none"} \cup (IF n > 1 THEN TailKinds ELSE {})
    BY DEF ReadReply
  <1>2. Len(down) \in Nat
    BY EmptyFacts DEF TypeOK
  <1>3. n \in 0..Len(down)
    BY <1>2
  <1>4. down' \in Seq(Reply) /\ Len(down') = Len(down) - n
    BY <1>1, <1>3, ReadTypes
  <1>. QED
    BY <1>1, <1>2, <1>4

(* What the parser reads before it panics: at least a reply, or else the    *)
(* rest of one.                                                             *)
LEMMA TrapTypes ==
  ASSUME TypeOK, ReadTrap
  PROVE  /\ down' \in Seq(Reply)
         /\ rest # "trap" => Len(down') < Len(down)
         /\ rest' \in TailKinds \cup {"none"}
  <1>1. PICK n \in (IF rest = "trap" THEN 0 ELSE 1)..Len(down) :
          /\ down' = SubSeq(down, n + 1, Len(down))
          /\ rest' \in {"none"} \cup TailKinds
    BY DEF ReadTrap
  <1>2. Len(down) \in Nat
    BY EmptyFacts DEF TypeOK
  <1>3. n \in 0..Len(down) /\ (rest # "trap" => n \in 1..Len(down))
    BY <1>2
  <1>4. down' \in Seq(Reply) /\ Len(down') = Len(down) - n
    BY <1>1, <1>3, ReadTypes
  <1>. QED
    BY <1>1, <1>2, <1>3, <1>4

(* Every step keeps the types. *)
LEMMA TypeStep ==
  ASSUME TypeOK, OneAtATime, [Next]_vars
  PROVE  TypeOK'
  <1>. USE DEF TypeOK
  <1>1. ASSUME NEW c \in Clients, Accept(c) PROVE TypeOK'
    <2>1. /\ peer' \in [Clients -> {"none", "open", "shut"}]
          /\ pc' \in [Clients -> ControlPoints]
      BY <1>1 DEF Accept, ControlPoints
    <2>2. \A d \in Clients : InPlace(d)'
      BY <1>1 DEF Accept, InPlace
    <2>. QED BY <1>1, <2>1, <2>2 DEF Accept, upstream
  <1>2. ASSUME NEW c \in Clients, Read(c) PROVE TypeOK'
    <2>1. PICK n \in 1..Len(inbound[c]) :
            /\ chunk' = [chunk EXCEPT ![c] = SubSeq(inbound[c], 1, n)]
            /\ inbound' = [inbound EXCEPT
                             ![c] = SubSeq(inbound[c], n + 1, Len(inbound[c]))]
      BY <1>2 DEF Read
    <2>2. /\ SubSeq(inbound[c], 1, n) \in Seq(Request)
          /\ SubSeq(inbound[c], 1, n) # << >>
          /\ SubSeq(inbound[c], n + 1, Len(inbound[c])) \in Seq(Request)
      <3>1. inbound[c] \in Seq(Request)
        OBVIOUS
      <3>. QED BY <3>1, SplitFacts
    <2>3. /\ chunk' \in [Clients -> Seq(Request)]
          /\ inbound' \in [Clients -> Seq(Request)]
          /\ pc' \in [Clients -> ControlPoints]
      BY <1>2, <2>1, <2>2 DEF Read, ControlPoints
    <2>4. \A d \in Clients : InPlace(d)'
      BY <1>2, <2>1, <2>2 DEF Read, InPlace
    <2>. QED BY <1>2, <2>3, <2>4 DEF Read, upstream
  <1>3. ASSUME NEW c \in Clients, ReadEnd(c) PROVE TypeOK'
    BY <1>3, EndKeepsTypes DEF ReadEnd, upstream
  <1>4. ASSUME NEW c \in Clients, FeedRequest(c) PROVE TypeOK'
    <2>1. waiters' \in Seq(Clients) /\ pc' \in [Clients -> ControlPoints]
      BY <1>4, AppendFacts DEF FeedRequest, ControlPoints
    <2>2. \A d \in Clients : InPlace(d)'
      BY <1>4 DEF FeedRequest, InPlace, wires
    <2>. QED BY <1>4, <2>1, <2>2 DEF FeedRequest, wires, upstream
  <1>5. ASSUME NEW c \in Clients, FeedDesync(c) PROVE TypeOK'
    <2>1. chunk[c] # << >> /\ Continue(c)
      BY <1>5 DEF FeedDesync, InPlace
    <2>2. \A d \in Clients : InPlace(d)'
      BY <1>5, <2>1, ContinueTypes DEF FeedDesync, InPlace, wires
    <2>. QED BY <1>5, <2>1, <2>2, ContinueTypes DEF FeedDesync, wires, upstream
  <1>6. ASSUME NEW c \in Clients, FeedPanic(c) PROVE TypeOK'
    BY <1>6, EndKeepsTypes DEF FeedPanic, upstream
  <1>7. ASSUME NEW c \in Clients, Acquire(c) PROVE TypeOK'
    <2>1. pc' \in [Clients -> ControlPoints]
      BY <1>7 DEF Acquire, ControlPoints
    <2>2. \A d \in Clients : InPlace(d)'
      BY <1>7 DEF Acquire, InPlace, wires
    <2>. QED BY <1>7, <2>1, <2>2 DEF Acquire, wires, upstream
  <1>8. ASSUME NEW c \in Clients, Connect(c) PROVE TypeOK'
    <2>1. /\ pc' \in [Clients -> ControlPoints]
          /\ up' \in Seq(Item) /\ down' \in Seq(Reply)
          /\ rest' \in TailKinds \cup {"none"}
      BY <1>8 DEF Connect, ControlPoints
    <2>2. \A d \in Clients : InPlace(d)'
      BY <1>8 DEF Connect, InPlace, wires
    <2>. QED BY <1>8, <2>1, <2>2 DEF Connect, wires
  <1>9. ASSUME NEW c \in Clients, ConnectFail(c) PROVE TypeOK'
    BY <1>9, FailTypes DEF ConnectFail, Exchanging, upstream
  <1>10. ASSUME NEW c \in Clients, Send(c) PROVE TypeOK'
    <2>1. chunk[c] \in Seq(Request) /\ chunk[c] # << >>
      BY <1>10 DEF Send, InPlace
    <2>2. [to |-> c, request |-> Head(chunk[c])] \in Item
      <3>1. Head(chunk[c]) \in Request
        BY <2>1, TailFacts
      <3>. QED BY <3>1 DEF Item
    <2>3. up' \in Seq(Item)
      BY <1>10, <2>2, AppendFacts DEF Send
    <2>4. pc' \in [Clients -> ControlPoints]
      BY <1>10 DEF Send, ControlPoints
    <2>5. \A d \in Clients : InPlace(d)'
      BY <1>10 DEF Send, InPlace, wires
    <2>. QED BY <1>10, <2>3, <2>4, <2>5 DEF Send, wires
  <1>11. ASSUME NEW c \in Clients, SendFail(c) PROVE TypeOK'
    <2>1. /\ sock' \in {"none", "live", "dead"}
          /\ up' \in Seq(Item) /\ down' \in Seq(Reply)
          /\ rest' \in TailKinds \cup {"none"}
      BY <1>11 DEF SendFail, Disconnect
    <2>. QED BY <1>11, <2>1, FailTypes DEF SendFail, Exchanging
  <1>12. ASSUME NEW c \in Clients, AwaitReply(c) PROVE TypeOK'
    <2>1. Head(down) \in Reply
      BY <1>12, TailFacts DEF AwaitReply
    <2>2. down' \in Seq(Reply) /\ rest' \in TailKinds \cup {"none"}
      BY <1>12, ReplyTypes DEF AwaitReply
    <2>3. resp' \in [Clients -> Seq(Reply)] /\ pc' \in [Clients -> ControlPoints]
      BY <1>12, <2>1 DEF AwaitReply, ControlPoints
    <2>4. waiters' \in Seq(Clients)
      <3>1. Exchanging(c) /\ pc'[c] \notin AtLock
        BY <1>12 DEF AwaitReply, Exchanging, AtLock
      <3>2. \A d \in Clients \ {c} : pc'[d] = pc[d]
        BY <1>12 DEF AwaitReply
      <3>. QED BY <1>12, <3>1, <3>2, QueueReleased DEF AwaitReply
    <2>5. \A d \in Clients : InPlace(d)'
      BY <1>12, <2>1 DEF AwaitReply, InPlace, wires
    <2>. QED BY <1>12, <2>2, <2>3, <2>4, <2>5 DEF AwaitReply, wires
  <1>13. ASSUME NEW c \in Clients, AwaitFail(c) PROVE TypeOK'
    <2>1. /\ sock' \in {"none", "live", "dead"}
          /\ up' \in Seq(Item) /\ down' \in Seq(Reply)
          /\ rest' \in TailKinds \cup {"none"}
      BY <1>13 DEF AwaitFail, Disconnect
    <2>. QED BY <1>13, <2>1, FailTypes DEF AwaitFail, Exchanging
  <1>14. ASSUME NEW c \in Clients, AwaitPanic(c) PROVE TypeOK'
    <2>1. down' \in Seq(Reply) /\ rest' \in TailKinds \cup {"none"}
      BY <1>14, TrapTypes DEF AwaitPanic
    <2>2. waiters' \in Seq(Clients)
      <3>1. Exchanging(c) /\ End(c) /\ Release
        BY <1>14 DEF AwaitPanic, Exchanging
      <3>2. pc'[c] \notin AtLock /\ \A d \in Clients \ {c} : pc'[d] = pc[d]
        BY <3>1, EndTypes DEF AtLock
      <3>. QED BY <3>1, <3>2, QueueReleased
    <2>. QED BY <1>14, <2>1, <2>2, EndKeepsTypes DEF AwaitPanic
  <1>15. ASSUME NEW c \in Clients, Deliver(c) PROVE TypeOK'
    <2>1. chunk[c] # << >> /\ Continue(c)
      BY <1>15 DEF Deliver, InPlace
    <2>2. outbound[c] \o resp[c] \in Seq(Reply)
      BY ConcatFacts
    <2>3. outbound' \in [Clients -> Seq(Reply)] /\ resp' \in [Clients -> Seq(Reply)]
      <3>1. \/ outbound' = [outbound EXCEPT ![c] = outbound[c] \o resp[c]]
            \/ outbound' = outbound
        BY <1>15 DEF Deliver
      <3>2. resp' = [resp EXCEPT ![c] = << >>]
        BY <1>15 DEF Deliver
      <3>3. outbound' \in [Clients -> Seq(Reply)]
        BY <2>2, <3>1
      <3>4. << >> \in Seq(Reply)
        OBVIOUS
      <3>5. resp' \in [Clients -> Seq(Reply)]
        BY <3>2, <3>4
      <3>. QED BY <3>3, <3>5
    <2>4. peer[c] # "none" /\ resp'[c] = << >>
      BY <1>15 DEF Deliver, InPlace
    <2>5. InPlace(c)'
      BY <1>15, <2>1, <2>4, ContinueTypes DEF Deliver, InPlace
    <2>6. ASSUME NEW d \in Clients \ {c} PROVE InPlace(d)'
      <3>1. pc'[d] = pc[d] /\ chunk'[d] = chunk[d]
        BY <2>1, ContinueTypes
      <3>2. peer'[d] = peer[d] /\ resp'[d] = resp[d]
        BY <1>15 DEF Deliver
      <3>. QED BY <3>1, <3>2 DEF InPlace
    <2>. QED BY <1>15, <2>1, <2>3, <2>5, <2>6, ContinueTypes DEF Deliver, upstream
  <1>16. ASSUME NEW c \in Clients, DeliverGone(c) PROVE TypeOK'
    BY <1>16, EndKeepsTypes DEF DeliverGone, upstream
  <1>17. ASSUME NEW c \in Clients, ClientSend(c) PROVE TypeOK'
    <2>1. PICK t \in Tags, k \in RequestKinds :
            inbound' = [inbound EXCEPT ![c] = Append(inbound[c], [tag |-> t, kind |-> k])]
      BY <1>17 DEF ClientSend
    <2>2. [tag |-> t, kind |-> k] \in Request
      BY ProxyAssumption DEF Request
    <2>3. Append(inbound[c], [tag |-> t, kind |-> k]) \in Seq(Request)
      BY <2>2, AppendFacts
    <2>4. inbound' \in [Clients -> Seq(Request)]
      BY <2>1, <2>3
    <2>5. \A d \in Clients : InPlace(d)'
      BY <1>17 DEF ClientSend, InPlace, session
    <2>. QED BY <1>17, <2>4, <2>5 DEF ClientSend, session, upstream
  <1>18. ASSUME NEW c \in Clients, ClientTake(c) PROVE TypeOK'
    <2>1. Tail(outbound[c]) \in Seq(Reply)
      BY <1>18, TailFacts DEF ClientTake
    <2>2. outbound' \in [Clients -> Seq(Reply)]
      BY <1>18, <2>1 DEF ClientTake
    <2>3. \A d \in Clients : InPlace(d)'
      BY <1>18 DEF ClientTake, InPlace, session
    <2>. QED BY <1>18, <2>2, <2>3 DEF ClientTake, session, upstream
  <1>19. ASSUME NEW c \in Clients, ClientClose(c) PROVE TypeOK'
    <2>1. /\ peer' \in [Clients -> {"none", "open", "shut"}]
          /\ outbound' \in [Clients -> Seq(Reply)]
      BY <1>19 DEF ClientClose
    <2>2. \A d \in Clients : InPlace(d)'
      BY <1>19 DEF ClientClose, InPlace, session
    <2>. QED BY <1>19, <2>1, <2>2 DEF ClientClose, session, upstream
  <1>20. ASSUME InverterAnswer PROVE TypeOK'
    <2>1. Head(up) \in Item /\ Tail(up) \in Seq(Item)
      BY <1>20, TailFacts DEF InverterAnswer
    <2>2. PICK k \in ReplyKinds :
            down' = Append(down, [to |-> Head(up).to, request |-> Head(up).request,
                                  kind |-> k])
      BY <1>20 DEF InverterAnswer
    <2>3. [to |-> Head(up).to, request |-> Head(up).request, kind |-> k] \in Reply
      BY <2>1, ProxyAssumption DEF Item, Reply
    <2>4. down' \in Seq(Reply)
      BY <2>2, <2>3, AppendFacts
    <2>5. \A d \in Clients : InPlace(d)'
      BY <1>20 DEF InverterAnswer, InPlace, wires, session
    <2>. QED BY <1>20, <2>1, <2>4, <2>5 DEF InverterAnswer, wires, session
  <1>21. ASSUME InverterIgnore PROVE TypeOK'
    <2>1. Tail(up) \in Seq(Item)
      BY <1>21, TailFacts DEF InverterIgnore
    <2>2. \A d \in Clients : InPlace(d)'
      BY <1>21 DEF InverterIgnore, InPlace, wires, session
    <2>. QED BY <1>21, <2>1, <2>2 DEF InverterIgnore, wires, session
  <1>22. ASSUME InverterClose PROVE TypeOK'
    <2>1. \A d \in Clients : InPlace(d)'
      BY <1>22 DEF InverterClose, InPlace, wires, session
    <2>2. /\ up' \in Seq(Item) /\ down' \in Seq(Reply)
          /\ rest' \in TailKinds \cup {"none"}
      <3>1. /\ up' = << >>
            /\ \/ down' = down /\ rest' = rest
               \/ down' = << >> /\ rest' = "none"
        BY <1>22 DEF InverterClose
      <3>2. << >> \in Seq(Item) /\ << >> \in Seq(Reply)
        OBVIOUS
      <3>3. rest \in TailKinds \cup {"none"} /\ down \in Seq(Reply)
        OBVIOUS
      <3>. QED BY <3>1, <3>2, <3>3, Zenon
    <2>3. sock' = "dead" /\ UNCHANGED <<wires, session, waiters>>
      BY <1>22 DEF InverterClose
    <2>. QED BY <2>1, <2>2, <2>3 DEF wires, session
  <1>23. ASSUME NEW c \in Clients, AwaitGap(c) PROVE TypeOK'
    <2>1. \A d \in Clients : InPlace(d)'
      BY <1>23 DEF AwaitGap, InPlace, wires, session
    <2>. QED BY <1>23, <2>1 DEF AwaitGap, wires, session
  <1>24. ASSUME UNCHANGED vars PROVE TypeOK'
    <2>1. \A d \in Clients : InPlace(d)'
      BY <1>24 DEF InPlace, vars
    <2>. QED BY <1>24, <2>1 DEF vars
  <1>. QED
    BY <1>1, <1>2, <1>3, <1>4, <1>5, <1>6, <1>7, <1>8, <1>9, <1>10, <1>11, <1>12,
       <1>13, <1>14, <1>15, <1>16, <1>17, <1>18, <1>19, <1>20, <1>21, <1>22, <1>23, <1>24
    DEF Next, Session

-----------------------------------------------------------------------------
(* Mutual exclusion.                                                       *)

(* A new request goes to the end of the queue. *)
LEMMA QueueJoined ==
  ASSUME TypeOK, OneAtATime, NEW c \in Clients, pc[c] = "feed", pc'[c] = "lock",
         \A d \in Clients \ {c} : pc'[d] = pc[d],
         waiters' = Append(waiters, c)
  PROVE  OneAtATime'
  <1>1. /\ Len(waiters) \in Nat
        /\ Len(waiters') = Len(waiters) + 1
        /\ \A i \in 1..Len(waiters) : waiters'[i] = waiters[i]
        /\ waiters'[Len(waiters) + 1] = c
        /\ waiters' # << >>
        /\ waiters # << >> => Head(waiters') = Head(waiters)
    <2>1. waiters \in Seq(Clients)
      BY DEF TypeOK
    <2>. QED BY <2>1, AppendFacts, EmptyFacts
  <1>2. ~Exchanging(c) /\ pc[c] # "lock"
    BY DEF Exchanging
  <1>3. \A i \in 1..Len(waiters) : waiters[i] # c
    BY <1>2 DEF OneAtATime
  <1>4. \A i, j \in 1..Len(waiters') : waiters'[i] = waiters'[j] => i = j
    BY <1>1, <1>3 DEF OneAtATime
  <1>5. \A d \in Clients : Exchanging(d)' => Exchanging(d) /\ d # c
    BY DEF Exchanging
  <1>6. \A d \in Clients : Exchanging(d)' => Owner(d)'
    BY <1>1, <1>5 DEF OneAtATime, Owner
  <1>7. \A d \in Clients \ {c} :
          (\E i \in 1..Len(waiters') : waiters'[i] = d)
            <=> (\E i \in 1..Len(waiters) : waiters[i] = d)
    BY <1>1
  <1>8. \A d \in Clients \ {c} :
          Exchanging(d)' \/ pc'[d] = "lock"
            <=> \E i \in 1..Len(waiters') : waiters'[i] = d
    <2>. TAKE d \in Clients \ {c}
    <2>1. Exchanging(d)' <=> Exchanging(d)
      BY DEF Exchanging
    <2>2. Exchanging(d) \/ pc[d] = "lock" <=> \E i \in 1..Len(waiters) : waiters[i] = d
      BY DEF OneAtATime
    <2>. QED BY <2>1, <2>2, <1>7
  <1>9. Len(waiters') \in 1..Len(waiters') /\ waiters'[Len(waiters')] = c
    BY <1>1
  <1>. QED
    BY <1>4, <1>6, <1>8, <1>9 DEF OneAtATime

(* Every step keeps the mutex exclusive. *)
LEMMA LockStep ==
  ASSUME TypeOK, OneAtATime, [Next]_vars
  PROVE  OneAtATime'
  <1>1. ASSUME NEW c \in Clients, pc[c] \notin AtLock, pc'[c] \notin AtLock,
               \A d \in Clients \ {c} : pc'[d] = pc[d], UNCHANGED waiters
        PROVE  OneAtATime'
    BY <1>1, QueueKept
  <1>2. ASSUME NEW c \in Clients, pc[c] \in AtLock, pc'[c] \in AtLock, Owner(c),
               \A d \in Clients \ {c} : pc'[d] = pc[d], UNCHANGED waiters
        PROVE  OneAtATime'
    BY <1>2, QueueKept
  <1>3. ASSUME UNCHANGED <<pc, waiters>> PROVE OneAtATime'
    BY <1>3, QueueKept
  <1>4. ASSUME NEW c \in Clients, Exchanging(c), Release, pc'[c] \notin AtLock,
               \A d \in Clients \ {c} : pc'[d] = pc[d]
        PROVE  OneAtATime'
    BY <1>4, QueueReleased
  <1>5. \A c \in Clients : Exchanging(c) => Owner(c)
    BY DEF OneAtATime
  <1>6. pc \in [Clients -> ControlPoints]
    BY DEF TypeOK
  <1>7. ASSUME NEW c \in Clients, Accept(c) PROVE OneAtATime'
    <2>1. pc[c] = "none"
      BY <1>7 DEF Accept, TypeOK, InPlace
    <2>. QED BY <1>7, <2>1, <1>1, <1>6 DEF Accept, AtLock
  <1>8. ASSUME NEW c \in Clients, Read(c) PROVE OneAtATime'
    BY <1>8, <1>1, <1>6 DEF Read, AtLock
  <1>9. ASSUME NEW c \in Clients, ReadEnd(c) PROVE OneAtATime'
    BY <1>9, <1>1, <1>6 DEF ReadEnd, End, AtLock
  <1>10. ASSUME NEW c \in Clients, FeedRequest(c) PROVE OneAtATime'
    BY <1>10, <1>6, QueueJoined DEF FeedRequest
  <1>11. ASSUME NEW c \in Clients, FeedDesync(c) PROVE OneAtATime'
    BY <1>11, <1>1, <1>6 DEF FeedDesync, Continue, AtLock
  <1>12. ASSUME NEW c \in Clients, FeedPanic(c) PROVE OneAtATime'
    BY <1>12, <1>1, <1>6 DEF FeedPanic, End, AtLock
  <1>13. ASSUME NEW c \in Clients, Acquire(c) PROVE OneAtATime'
    BY <1>13, <1>2, <1>6 DEF Acquire, AtLock
  <1>14. ASSUME NEW c \in Clients, Connect(c) PROVE OneAtATime'
    BY <1>14, <1>2, <1>5, <1>6 DEF Connect, AtLock, Exchanging
  <1>15. ASSUME NEW c \in Clients, ConnectFail(c) PROVE OneAtATime'
    BY <1>15, <1>4, <1>6 DEF ConnectFail, Fail, Continue, AtLock, Exchanging
  <1>16. ASSUME NEW c \in Clients, Send(c) PROVE OneAtATime'
    BY <1>16, <1>2, <1>5, <1>6 DEF Send, AtLock, Exchanging
  <1>17. ASSUME NEW c \in Clients, SendFail(c) PROVE OneAtATime'
    BY <1>17, <1>4, <1>6 DEF SendFail, Fail, Continue, AtLock, Exchanging
  <1>18. ASSUME NEW c \in Clients, AwaitReply(c) PROVE OneAtATime'
    BY <1>18, <1>4, <1>6 DEF AwaitReply, AtLock, Exchanging
  <1>19. ASSUME NEW c \in Clients, AwaitFail(c) PROVE OneAtATime'
    BY <1>19, <1>4, <1>6 DEF AwaitFail, Fail, Continue, AtLock, Exchanging
  <1>20. ASSUME NEW c \in Clients, AwaitPanic(c) PROVE OneAtATime'
    BY <1>20, <1>4, <1>6 DEF AwaitPanic, End, AtLock, Exchanging
  <1>21. ASSUME NEW c \in Clients, Deliver(c) PROVE OneAtATime'
    BY <1>21, <1>1, <1>6 DEF Deliver, Continue, AtLock
  <1>22. ASSUME NEW c \in Clients, DeliverGone(c) PROVE OneAtATime'
    BY <1>22, <1>1, <1>6 DEF DeliverGone, End, AtLock
  <1>23. ASSUME NEW c \in Clients, ClientSend(c) \/ ClientTake(c) \/ ClientClose(c)
         PROVE  OneAtATime'
    BY <1>23, <1>3 DEF ClientSend, ClientTake, ClientClose, session
  <1>24. ASSUME \/ \E c \in Clients : AwaitGap(c)
                \/ InverterAnswer \/ InverterIgnore \/ InverterClose \/ UNCHANGED vars
         PROVE  OneAtATime'
    BY <1>24, <1>3 DEF AwaitGap, InverterAnswer, InverterIgnore, InverterClose, session, vars
  <1>. QED
    BY <1>7, <1>8, <1>9, <1>10, <1>11, <1>12, <1>13, <1>14, <1>15, <1>16, <1>17,
       <1>18, <1>19, <1>20, <1>21, <1>22, <1>23, <1>24
    DEF Next, Session

-----------------------------------------------------------------------------
(* The pooled connection.                                                  *)

(* Nothing moves on the connection and the exchange in progress goes on. *)
LEMMA LinkKept ==
  ASSUME TypeOK, CleanLink, UNCHANGED <<up, down>>,
         \A d \in Clients :
           pc[d] = "await" => pc'[d] = "await" /\ chunk'[d] = chunk[d]
  PROVE  CleanLink'
  <1>1. /\ \A i \in 1..Len(up) : up[i].to \in Clients
        /\ \A i \in 1..Len(down) : down[i].to \in Clients
    <2>1. up \in Seq(Item) /\ down \in Seq(Reply)
      BY DEF TypeOK
    <2>2. \A i \in 1..Len(up) : up[i] \in Item
      BY <2>1
    <2>3. \A i \in 1..Len(down) : down[i] \in Reply
      BY <2>1
    <2>. QED BY <2>2, <2>3 DEF Item, Reply
  <1>2. \A i \in 1..Len(up) : Belongs(up[i])'
    BY <1>1 DEF CleanLink, Belongs
  <1>3. \A i \in 1..Len(down) : Belongs(down[i])'
    BY <1>1 DEF CleanLink, Belongs
  <1>4. (\A i \in 1..Len(up) : Belongs(up[i]))'
    BY <1>2
  <1>5. (\A i \in 1..Len(down) : Belongs(down[i]))'
    BY <1>3
  <1>6. (Len(up) + Len(down) <= 1)'
    BY DEF CleanLink
  <1>. QED
    BY <1>4, <1>5, <1>6 DEF CleanLink

(* An empty connection is clean. *)
LEMMA LinkEmpty ==
  ASSUME up' = << >>, down' = << >>
  PROVE  CleanLink'
  BY DEF CleanLink

(* Until the owner of the mutex has sent its request, the connection is     *)
(* quiet: an item on it would make another client the owner.                *)
LEMMA LinkQuiet ==
  ASSUME TypeOK, OneAtATime, CleanLink,
         NEW c \in Clients, Owner(c), pc[c] # "await"
  PROVE  up = << >> /\ down = << >>
  <1>1. up \in Seq(Item) /\ down \in Seq(Reply)
    BY DEF TypeOK
  <1>2. \A d \in Clients : pc[d] = "await" => d = c
    BY DEF OneAtATime, Exchanging, Owner
  <1>3. ASSUME up # << >> PROVE FALSE
    <2>1. 1 \in 1..Len(up) /\ up[1] \in Item
      BY <1>1, <1>3, TailFacts
    <2>2. up[1].to \in Clients /\ pc[up[1].to] = "await"
      BY <2>1 DEF CleanLink, Belongs, Item
    <2>. QED BY <2>2, <1>2
  <1>4. ASSUME down # << >> PROVE FALSE
    <2>1. 1 \in 1..Len(down) /\ down[1] \in Reply
      BY <1>1, <1>4, TailFacts
    <2>2. down[1].to \in Clients /\ pc[down[1].to] = "await"
      BY <2>1 DEF CleanLink, Belongs, Reply
    <2>. QED BY <2>2, <1>2
  <1>. QED
    BY <1>3, <1>4

(* Reading a reply empties the connection: there was nothing else on it. *)
LEMMA LinkRead ==
  ASSUME TypeOK, CleanLink, UNCHANGED up,
         down' \in Seq(Reply), Len(down') < Len(down)
  PROVE  up' = << >> /\ down' = << >>
  <1>1. down' \in Seq(Reply) /\ Len(down') < Len(down)
    OBVIOUS
  <1>2. up \in Seq(Item) /\ down \in Seq(Reply) /\ Len(up) + Len(down) <= 1
    BY DEF TypeOK, CleanLink
  <1>3. Len(up) \in Nat /\ Len(down) \in Nat /\ Len(down') \in Nat
    BY <1>1, <1>2, EmptyFacts
  <1>4. Len(up) = 0 /\ Len(down') = 0
    BY <1>1, <1>2, <1>3
  <1>5. up = << >>
    BY <1>2, <1>4, EmptyFacts, Zenon
  <1>6. down' = << >>
    BY <1>1, <1>4, EmptyFacts, Zenon
  <1>. QED
    BY <1>5, <1>6

(* Every step keeps the connection clean, if no parser panics on the rest   *)
(* of a reply.                                                              *)
LEMMA LinkStep ==
  ASSUME NoTraps, TypeOK, OneAtATime, CleanLink, [Next]_vars
  PROVE  CleanLink'
  <1>1. pc \in [Clients -> ControlPoints] /\ chunk \in [Clients -> Seq(Request)]
    BY DEF TypeOK
  <1>2. ASSUME NEW c \in Clients, pc[c] # "await", UNCHANGED <<up, down>>,
               \A d \in Clients \ {c} : pc'[d] = pc[d] /\ chunk'[d] = chunk[d]
        PROVE  CleanLink'
    BY <1>2, LinkKept
  <1>3. ASSUME UNCHANGED <<up, down, pc, chunk>> PROVE CleanLink'
    BY <1>3, LinkKept
  <1>4. ASSUME NEW c \in Clients, Accept(c) PROVE CleanLink'
    <2>1. pc[c] = "none"
      BY <1>4 DEF Accept, TypeOK, InPlace
    <2>. QED BY <1>4, <2>1, <1>1, <1>2 DEF Accept, upstream
  <1>5. ASSUME NEW c \in Clients, Read(c) PROVE CleanLink'
    BY <1>5, <1>1, <1>2 DEF Read, upstream
  <1>6. ASSUME NEW c \in Clients, ReadEnd(c) PROVE CleanLink'
    BY <1>6, <1>1, <1>2 DEF ReadEnd, End, upstream
  <1>7. ASSUME NEW c \in Clients, FeedRequest(c) PROVE CleanLink'
    BY <1>7, <1>1, <1>2 DEF FeedRequest, upstream
  <1>8. ASSUME NEW c \in Clients, FeedDesync(c) PROVE CleanLink'
    BY <1>8, <1>1, <1>2 DEF FeedDesync, Continue, upstream
  <1>9. ASSUME NEW c \in Clients, FeedPanic(c) PROVE CleanLink'
    BY <1>9, <1>1, <1>2 DEF FeedPanic, End, upstream
  <1>10. ASSUME NEW c \in Clients, Acquire(c) PROVE CleanLink'
    BY <1>10, <1>1, <1>2 DEF Acquire, upstream
  <1>11. ASSUME NEW c \in Clients, Connect(c) PROVE CleanLink'
    BY <1>11, LinkEmpty DEF Connect
  <1>12. ASSUME NEW c \in Clients, ConnectFail(c) PROVE CleanLink'
    BY <1>12, <1>1, <1>2 DEF ConnectFail, Fail, Continue, upstream
  <1>13. ASSUME NEW c \in Clients, Send(c) PROVE CleanLink'
    <2>1. Owner(c) /\ pc[c] # "await"
      BY <1>13 DEF Send, OneAtATime, Exchanging
    <2>2. up = << >> /\ down = << >>
      BY <2>1, LinkQuiet
    <2>3. pc'[c] = "await" /\ chunk' = chunk /\ down' = << >>
      BY <1>13, <1>1, <2>2 DEF Send
    <2>4. \/ up' = << >>
          \/ up' = <<[to |-> c, request |-> Head(chunk[c])]>>
      BY <1>13, <2>2 DEF Send
    <2>5. CASE up' = << >>
      BY <2>3, <2>5, LinkEmpty
    <2>6. CASE up' = <<[to |-> c, request |-> Head(chunk[c])]>>
      <3>1. Len(up') = 1 /\ Len(down') = 0
        BY <2>3, <2>6
      <3>2. \A i \in 1..Len(up') : Belongs(up[i])'
        BY <2>3, <2>6 DEF Belongs
      <3>. QED BY <3>1, <3>2 DEF CleanLink
    <2>. QED BY <2>4, <2>5, <2>6
  <1>14. ASSUME NEW c \in Clients, SendFail(c) PROVE CleanLink'
    BY <1>14, LinkEmpty DEF SendFail, Disconnect
  <1>15. ASSUME NEW c \in Clients, AwaitReply(c) PROVE CleanLink'
    BY <1>15, ReplyTypes, LinkRead, LinkEmpty DEF AwaitReply
  <1>16. ASSUME NEW c \in Clients, AwaitFail(c) PROVE CleanLink'
    BY <1>16, LinkEmpty DEF AwaitFail, Disconnect
  <1>17. ASSUME NEW c \in Clients, AwaitPanic(c) PROVE CleanLink'
    <2>1. rest # "trap"
      BY DEF NoTraps, TypeOK
    <2>2. down' \in Seq(Reply) /\ Len(down') < Len(down)
      BY <1>17, <2>1, TrapTypes DEF AwaitPanic
    <2>. QED BY <1>17, <2>2, LinkRead, LinkEmpty DEF AwaitPanic
  <1>18. ASSUME NEW c \in Clients, Deliver(c) PROVE CleanLink'
    BY <1>18, <1>1, <1>2 DEF Deliver, Continue, upstream
  <1>19. ASSUME NEW c \in Clients, DeliverGone(c) PROVE CleanLink'
    BY <1>19, <1>1, <1>2 DEF DeliverGone, End, upstream
  <1>20. ASSUME NEW c \in Clients, ClientSend(c) \/ ClientTake(c) \/ ClientClose(c)
         PROVE  CleanLink'
    BY <1>20, <1>3 DEF ClientSend, ClientTake, ClientClose, session, upstream
  <1>21. ASSUME InverterAnswer PROVE CleanLink'
    <2>1. /\ up \in Seq(Item) /\ up # << >> /\ down \in Seq(Reply)
          /\ Len(up) + Len(down) <= 1
      BY <1>21 DEF InverterAnswer, TypeOK, CleanLink
    <2>2. /\ Len(up) \in Nat \ {0} /\ Len(down) \in Nat
          /\ Head(up) = up[1]
          /\ Tail(up) \in Seq(Item) /\ Len(Tail(up)) = Len(up) - 1
      BY <2>1, TailFacts, EmptyFacts
    <2>3. Len(up) = 1 /\ Len(down) = 0 /\ Len(Tail(up)) = 0
      BY <2>1, <2>2
    <2>4. down = << >>
      BY <2>1, <2>3, EmptyFacts, Zenon
    <2>5. PICK k \in ReplyKinds :
            down' = Append(down, [to |-> up[1].to, request |-> up[1].request,
                                  kind |-> k])
      BY <1>21, <2>2 DEF InverterAnswer
    <2>6. down' = <<[to |-> up[1].to, request |-> up[1].request, kind |-> k]>>
      BY <2>4, <2>5
    <2>7. Len(up') = 0
      BY <1>21, <2>3 DEF InverterAnswer
    <2>8. Belongs(up[1]) /\ pc' = pc /\ chunk' = chunk
      BY <1>21, <2>3 DEF InverterAnswer, CleanLink, session
    <2>9. Len(down') = 1 /\ Belongs(down[1])'
      BY <2>6, <2>8 DEF Belongs
    <2>. QED BY <2>7, <2>9 DEF CleanLink
  <1>22. ASSUME InverterIgnore PROVE CleanLink'
    <2>1. /\ up \in Seq(Item) /\ up # << >> /\ down \in Seq(Reply)
          /\ Len(up) + Len(down) <= 1
      BY <1>22 DEF InverterIgnore, TypeOK, CleanLink
    <2>2. /\ Len(up) \in Nat \ {0} /\ Len(down) \in Nat
          /\ Tail(up) \in Seq(Item) /\ Len(Tail(up)) = Len(up) - 1
      BY <2>1, TailFacts, EmptyFacts
    <2>3. Len(down) = 0 /\ Len(Tail(up)) = 0
      BY <2>1, <2>2
    <2>4. down = << >> /\ Tail(up) = << >>
      BY <2>1, <2>2, <2>3, EmptyFacts, Zenon
    <2>. QED BY <1>22, <2>4, LinkEmpty DEF InverterIgnore
  <1>23. ASSUME InverterClose PROVE CleanLink'
    <2>1. /\ up' = << >> /\ (down' = down \/ down' = << >>)
          /\ pc' = pc /\ chunk' = chunk
      BY <1>23 DEF InverterClose, session
    <2>2. CASE down' = << >>
      BY <2>1, <2>2, LinkEmpty
    <2>3. CASE down' = down
      <3>1. Len(down) <= 1 /\ \A i \in 1..Len(down) : Belongs(down[i])
        <4>1. Len(up) \in Nat /\ Len(down) \in Nat
          BY EmptyFacts DEF TypeOK
        <4>. QED BY <4>1 DEF CleanLink
      <3>2. Len(up') = 0
        BY <2>1
      <3>3. \A i \in 1..Len(down') : Belongs(down[i])'
        BY <2>1, <2>3, <3>1 DEF Belongs
      <3>4. Len(up') + Len(down') <= 1
        <4>1. Len(down) \in Nat
          BY EmptyFacts DEF TypeOK
        <4>. QED BY <2>3, <3>1, <3>2, <4>1
      <3>. QED BY <3>2, <3>3, <3>4 DEF CleanLink
    <2>. QED BY <2>1, <2>2, <2>3
  <1>24. ASSUME UNCHANGED vars \/ \E c \in Clients : AwaitGap(c) PROVE CleanLink'
    BY <1>24, <1>3 DEF vars, AwaitGap, session
  <1>. QED
    BY <1>4, <1>5, <1>6, <1>7, <1>8, <1>9, <1>10, <1>11, <1>12, <1>13, <1>14, <1>15,
       <1>16, <1>17, <1>18, <1>19, <1>20, <1>21, <1>22, <1>23, <1>24
    DEF Next, Session

-----------------------------------------------------------------------------
(* Request/response pairing.                                               *)

(* No response comes into a session's hands and no reply reaches a client. *)
LEMMA OwnKept ==
  ASSUME TypeOK, OwnReply,
         \A d \in Clients :
           /\ pc'[d] = "deliver" => /\ pc[d] = "deliver"
                                    /\ resp'[d] = resp[d]
                                    /\ chunk'[d] = chunk[d]
           /\ outbound'[d] = outbound[d] \/ outbound'[d] = << >>
  PROVE  OwnReply'
  BY DEF OwnReply

(* Every step keeps requests and responses paired. *)
LEMMA OwnStep ==
  ASSUME TypeOK, OneAtATime, CleanLink, OwnReply, [Next]_vars
  PROVE  OwnReply'
  <1>1. /\ pc \in [Clients -> ControlPoints]
        /\ chunk \in [Clients -> Seq(Request)]
        /\ resp \in [Clients -> Seq(Reply)]
        /\ outbound \in [Clients -> Seq(Reply)]
    BY DEF TypeOK
  <1>2. ASSUME NEW c \in Clients, pc'[c] # "deliver", UNCHANGED <<resp, outbound>>,
               \A d \in Clients \ {c} : pc'[d] = pc[d] /\ chunk'[d] = chunk[d]
        PROVE  OwnReply'
    BY <1>2, OwnKept
  <1>3. ASSUME NEW c \in Clients, End(c) PROVE OwnReply'
    BY <1>1, <1>3, OwnKept DEF End
  <1>4. ASSUME UNCHANGED <<pc, chunk, resp>>,
               \A d \in Clients : outbound'[d] = outbound[d] \/ outbound'[d] = << >>
        PROVE  OwnReply'
    BY <1>4, OwnKept
  <1>5. ASSUME NEW c \in Clients, Exchanging(c), Fail(c) PROVE OwnReply'
    <2>1. chunk[c] # << >>
      BY <1>5 DEF TypeOK, InPlace, Exchanging
    <2>2. pc'[c] # "deliver" /\ \A d \in Clients \ {c} : pc'[d] = pc[d] /\ chunk'[d] = chunk[d]
      BY <1>5, <2>1, ContinueTypes DEF Fail
    <2>. QED BY <1>5, <2>2, <1>2 DEF Fail, wires
  <1>6. ASSUME NEW c \in Clients, Accept(c) PROVE OwnReply'
    BY <1>6, <1>1, <1>2 DEF Accept
  <1>7. ASSUME NEW c \in Clients, Read(c) PROVE OwnReply'
    BY <1>7, <1>1, <1>2 DEF Read
  <1>8. ASSUME NEW c \in Clients, FeedRequest(c) PROVE OwnReply'
    BY <1>8, <1>1, <1>2 DEF FeedRequest, wires
  <1>9. ASSUME NEW c \in Clients, FeedDesync(c) PROVE OwnReply'
    BY <1>9, <1>1, <1>2 DEF FeedDesync, Continue, wires
  <1>10. ASSUME NEW c \in Clients, Acquire(c) PROVE OwnReply'
    BY <1>10, <1>1, <1>2 DEF Acquire, wires
  <1>11. ASSUME NEW c \in Clients, Connect(c) PROVE OwnReply'
    BY <1>11, <1>1, <1>2 DEF Connect, wires
  <1>12. ASSUME NEW c \in Clients, Send(c) PROVE OwnReply'
    BY <1>12, <1>1, <1>2 DEF Send, wires
  <1>13. ASSUME NEW c \in Clients, ConnectFail(c) PROVE OwnReply'
    BY <1>13, <1>5 DEF ConnectFail, Exchanging
  <1>14. ASSUME NEW c \in Clients, SendFail(c) PROVE OwnReply'
    BY <1>14, <1>5 DEF SendFail, Exchanging
  <1>15. ASSUME NEW c \in Clients, AwaitFail(c) PROVE OwnReply'
    BY <1>15, <1>5 DEF AwaitFail, Exchanging
  <1>16. ASSUME NEW c \in Clients, ReadEnd(c) PROVE OwnReply'
    BY <1>16, <1>3 DEF ReadEnd
  <1>17. ASSUME NEW c \in Clients, FeedPanic(c) PROVE OwnReply'
    BY <1>17, <1>3 DEF FeedPanic
  <1>18. ASSUME NEW c \in Clients, AwaitPanic(c) PROVE OwnReply'
    BY <1>18, <1>3 DEF AwaitPanic
  <1>19. ASSUME NEW c \in Clients, DeliverGone(c) PROVE OwnReply'
    BY <1>19, <1>3 DEF DeliverGone
  <1>20. ASSUME NEW c \in Clients, AwaitReply(c) PROVE OwnReply'
    <2>1. /\ down \in Seq(Reply) /\ down # << >>
          /\ resp' = [resp EXCEPT ![c] = <<Head(down)>>]
          /\ pc' = [pc EXCEPT ![c] = "deliver"]
          /\ chunk' = chunk /\ outbound' = outbound
      BY <1>20 DEF AwaitReply, TypeOK, wires
    <2>2. Head(down) = down[1] /\ 1 \in 1..Len(down) /\ Head(down) \in Reply
      BY <2>1, TailFacts
    <2>3. Belongs(Head(down)) /\ Head(down).to \in Clients
      BY <2>2 DEF CleanLink, Reply
    <2>4. Head(down).to = c
      BY <1>20, <2>3 DEF AwaitReply, Belongs, OneAtATime, Exchanging, Owner
    <2>5. resp'[c] = <<Head(down)>> /\ Head(down).request = Head(chunk[c])
      BY <1>1, <2>1, <2>3, <2>4 DEF Belongs
    <2>6. Head(resp'[c]).to = c /\ Head(resp'[c]).request = Head(chunk'[c])
      BY <2>1, <2>4, <2>5
    <2>7. \A d \in Clients \ {c} : pc'[d] = pc[d] /\ resp'[d] = resp[d]
      BY <1>1, <2>1
    <2>. QED BY <2>1, <2>6, <2>7 DEF OwnReply
  <1>21. ASSUME NEW c \in Clients, Deliver(c) PROVE OwnReply'
    <2>1. /\ pc[c] = "deliver" /\ chunk[c] # << >> /\ Continue(c)
          /\ resp[c] \in Seq(Reply) /\ Len(resp[c]) = 1
          /\ resp' = [resp EXCEPT ![c] = << >>]
      BY <1>21 DEF Deliver, TypeOK, InPlace
    <2>2. /\ pc'[c] # "deliver"
          /\ \A d \in Clients \ {c} : pc'[d] = pc[d] /\ chunk'[d] = chunk[d]
      BY <2>1, ContinueTypes
    <2>3. resp[c][1].to = c
      <3>1. Head(resp[c]).to = c
        BY <2>1 DEF OwnReply
      <3>. QED BY <2>1, <3>1
    <2>4. \A i \in 1..Len(outbound[c]) : outbound[c][i].to = c
      BY DEF OwnReply
    <2>5. outbound[c] \in Seq(Reply)
      BY <1>1
    <2>6. \A i \in 1..Len(outbound[c] \o resp[c]) : (outbound[c] \o resp[c])[i].to = c
      <3>1. \A i \in 1..Len(outbound[c] \o resp[c]) :
              \/ /\ i \in 1..Len(outbound[c])
                 /\ (outbound[c] \o resp[c])[i] = outbound[c][i]
              \/ (outbound[c] \o resp[c])[i] = resp[c][1]
        <4>1. resp[c] \in Seq(Reply) /\ Len(resp[c]) = 1
          BY <2>1
        <4>. QED BY <2>5, <4>1, LastFacts, Zenon
      <3>. QED BY <2>3, <2>4, <3>1, Zenon
    <2>7. \A i \in 1..Len(outbound'[c]) : outbound'[c][i].to = c
      <3>1. \/ outbound'[c] = outbound[c] \o resp[c]
            \/ outbound'[c] = outbound[c]
        BY <1>1, <1>21 DEF Deliver
      <3>. QED BY <2>4, <2>6, <3>1, Zenon
    <2>8. \A d \in Clients \ {c} : resp'[d] = resp[d] /\ outbound'[d] = outbound[d]
      BY <1>1, <1>21, <2>1 DEF Deliver
    <2>. QED BY <2>2, <2>7, <2>8 DEF OwnReply
  <1>22. ASSUME NEW c \in Clients, ClientTake(c) PROVE OwnReply'
    <2>1. outbound[c] \in Seq(Reply) /\ outbound[c] # << >>
      BY <1>1, <1>22 DEF ClientTake
    <2>2. /\ outbound'[c] = Tail(outbound[c])
          /\ \A d \in Clients \ {c} : outbound'[d] = outbound[d]
      BY <1>1, <1>22 DEF ClientTake
    <2>3. \A i \in 1..Len(outbound'[c]) : outbound'[c][i].to = c
      BY <2>1, <2>2 DEF OwnReply
    <2>4. UNCHANGED <<pc, chunk, resp>>
      BY <1>22 DEF ClientTake, session
    <2>5. \A d \in Clients : \A i \in 1..Len(outbound'[d]) : outbound'[d][i].to = d
      <3>1. \A d \in Clients : \A i \in 1..Len(outbound[d]) : outbound[d][i].to = d
        BY DEF OwnReply
      <3>. QED BY <2>2, <2>3, <3>1, Zenon
    <2>. QED BY <2>4, <2>5 DEF OwnReply
  <1>23. ASSUME NEW c \in Clients, ClientSend(c) \/ ClientClose(c) PROVE OwnReply'
    BY <1>1, <1>4, <1>23 DEF ClientSend, ClientClose, session
  <1>24. ASSUME \/ \E c \in Clients : AwaitGap(c)
                \/ InverterAnswer \/ InverterIgnore \/ InverterClose \/ UNCHANGED vars
         PROVE  OwnReply'
    BY <1>4, <1>24
    DEF AwaitGap, InverterAnswer, InverterIgnore, InverterClose, session, wires, vars
  <1>. QED
    BY <1>6, <1>7, <1>8, <1>9, <1>10, <1>11, <1>12, <1>13, <1>14, <1>15, <1>16, <1>17,
       <1>18, <1>19, <1>20, <1>21, <1>22, <1>23, <1>24
    DEF Next, Session

-----------------------------------------------------------------------------
(* The theorems.                                                           *)

Invariant == TypeOK /\ OneAtATime /\ CleanLink /\ OwnReply

(* Nothing is connected and nobody waits at the start. *)
LEMMA InitInvariant == Init => Invariant
  <1>. SUFFICES ASSUME Init PROVE Invariant
    OBVIOUS
  <1>1. TypeOK
    <2>1. << >> \in Seq(Request) /\ << >> \in Seq(Reply) /\ << >> \in Seq(Item)
          /\ << >> \in Seq(Clients)
      OBVIOUS
    <2>2. \A c \in Clients : InPlace(c)
      BY DEF Init, InPlace
    <2>. QED BY <2>1, <2>2 DEF Init, TypeOK, ControlPoints
  <1>2. OneAtATime
    BY DEF Init, OneAtATime, Exchanging
  <1>3. CleanLink
    BY DEF Init, CleanLink
  <1>4. OwnReply
    <2>1. \A c \in Clients : pc[c] # "deliver"
      BY DEF Init
    <2>2. \A c \in Clients : \A i \in 1..Len(outbound[c]) : FALSE
      <3>1. \A c \in Clients : Len(outbound[c]) = 0
        BY DEF Init
      <3>. QED BY <3>1
    <2>. QED BY <2>1, <2>2, Zenon DEF OwnReply
  <1>. QED
    BY <1>1, <1>2, <1>3, <1>4 DEF Invariant

(* The types and the mutex, whatever the parser does with the rest of a     *)
(* reply: together they are inductive, as the types need the owner of the   *)
(* mutex to be in its queue.                                                *)
THEOREM LockHolds == Spec => [](TypeOK /\ OneAtATime)
  <1>1. Init => TypeOK /\ OneAtATime
    BY InitInvariant DEF Invariant
  <1>2. TypeOK /\ OneAtATime /\ [Next]_vars => (TypeOK /\ OneAtATime)'
    BY TypeStep, LockStep
  <1>. QED
    BY <1>1, <1>2, PTL DEF Spec

(* The variables keep their types. *)
THEOREM TypeCorrect == Spec => []TypeOK
  BY LockHolds, PTL

(* No two exchanges overlap on the upstream connection. *)
THEOREM MutualExclusion == Spec => []OneAtATime
  BY LockHolds, PTL

(* If no parser panics on the rest of a reply, the connection is clean and  *)
(* the pairing, which needs that, is kept too.                              *)
THEOREM InvariantHolds == ASSUME NoTraps PROVE Spec => []Invariant
  <1>1. Invariant /\ [Next]_vars => Invariant'
    BY TypeStep, LockStep, LinkStep, OwnStep DEF Invariant
  <1>. QED
    BY InitInvariant, <1>1, PTL DEF Spec

(* Requests and whole replies on the pooled connection belong to the        *)
(* exchange in progress, if no parser panics on the rest of a reply: all    *)
(* that a panic leaves for a later exchange is a part of a reply.           *)
THEOREM QuietConnection == ASSUME NoTraps PROVE Spec => []CleanLink
  <1>1. Invariant => CleanLink
    BY DEF Invariant
  <1>. QED
    BY <1>1, InvariantHolds, PTL

(* Every response a session writes downstream answers the request it        *)
(* forwarded for that client, if no parser panics on the rest of a reply.   *)
THEOREM Pairing == ASSUME NoTraps PROVE Spec => []OwnReply
  <1>1. Invariant => OwnReply
    BY DEF Invariant
  <1>. QED
    BY <1>1, InvariantHolds, PTL

-----------------------------------------------------------------------------
(* Sessions.                                                               *)

(* A step ends a session only when its client has hung up, or when the      *)
(* parser panics on the frame at hand.                                      *)
LEMMA SurvivalStep ==
  ASSUME TypeOK, [Next]_vars, NEW d \in Clients, pc[d] # "none", pc'[d] = "none"
  PROVE  peer[d] = "shut" \/ Panics(d)
  <1>1. pc \in [Clients -> ControlPoints]
    BY DEF TypeOK
  <1>2. ASSUME NEW c \in Clients, Continue(c), chunk[c] # << >> PROVE pc'[d] # "none"
    <2>1. pc'[c] \in {"read", "feed"} /\ \A e \in Clients \ {c} : pc'[e] = pc[e]
      BY <1>2, ContinueTypes
    <2>. QED BY <2>1
  <1>3. ASSUME NEW c \in Clients, Exchanging(c), Fail(c) PROVE FALSE
    <2>1. chunk[c] # << >>
      BY <1>3 DEF TypeOK, InPlace, Exchanging
    <2>. QED BY <1>2, <1>3, <2>1 DEF Fail
  <1>4. ASSUME NEW c \in Clients, End(c) PROVE d = c
    BY <1>1, <1>4 DEF End
  <1>5. ASSUME NEW c \in Clients,
               Accept(c) \/ Read(c) \/ FeedRequest(c) \/ Acquire(c) \/ Connect(c)
                 \/ Send(c) \/ AwaitReply(c)
        PROVE  FALSE
    BY <1>1, <1>5 DEF Accept, Read, FeedRequest, Acquire, Connect, Send, AwaitReply
  <1>6. ASSUME NEW c \in Clients, ConnectFail(c) \/ SendFail(c) \/ AwaitFail(c)
        PROVE  FALSE
    BY <1>3, <1>6 DEF ConnectFail, SendFail, AwaitFail, Exchanging
  <1>7. ASSUME NEW c \in Clients, FeedDesync(c) \/ Deliver(c) PROVE FALSE
    <2>1. chunk[c] # << >> /\ Continue(c)
      BY <1>7 DEF FeedDesync, Deliver, TypeOK, InPlace
    <2>. QED BY <1>2, <2>1
  <1>8. ASSUME NEW c \in Clients, ReadEnd(c) \/ DeliverGone(c)
        PROVE  peer[d] = "shut"
    BY <1>4, <1>8 DEF ReadEnd, DeliverGone
  <1>9. ASSUME NEW c \in Clients, FeedPanic(c) \/ AwaitPanic(c) PROVE Panics(d)
    BY <1>4, <1>9 DEF FeedPanic, AwaitPanic, Panics
  <1>10. ASSUME \/ \E c \in Clients : ClientSend(c) \/ ClientTake(c) \/ ClientClose(c)
                \/ \E c \in Clients : AwaitGap(c)
                \/ InverterAnswer \/ InverterIgnore \/ InverterClose
                \/ UNCHANGED vars
         PROVE  FALSE
    BY <1>10 DEF AwaitGap, ClientSend, ClientTake, ClientClose, InverterAnswer, InverterIgnore,
                 InverterClose, session, vars
  <1>. QED
    BY <1>5, <1>6, <1>7, <1>8, <1>9, <1>10 DEF Next, Session

(* An upstream failure that is not a parser panic never ends a session. *)
THEOREM SessionsSurviveFailures == Spec => SessionSurvives
  <1>1. TypeOK /\ [Next]_vars =>
          [\A c \in Clients :
             pc[c] # "none" /\ pc'[c] = "none" => peer[c] = "shut" \/ Panics(c)]_vars
    BY SurvivalStep
  <1>. QED
    BY <1>1, TypeCorrect, PTL DEF Spec, SessionSurvives

-----------------------------------------------------------------------------
(* Proxy implements Multiplexer: the initial state maps to an initial       *)
(* state, and every step to a step of one client in Multiplexer or to no    *)
(* change.                                                                  *)

(* The mapping: the variables of Multiplexer as functions of Proxy's. *)
Todo    == [c \in Clients |-> Pending(c)]
Unread  == [c \in Clients |-> Answers(c)]

(* What of the session of d the mapping looks at is as it was. *)
Unmoved(d) ==
  /\ pc'[d] = pc[d] /\ chunk'[d] = chunk[d] /\ resp'[d] = resp[d]
  /\ peer'[d] = peer[d] /\ inbound'[d] = inbound[d] /\ outbound'[d] = outbound[d]

-----------------------------------------------------------------------------
(* Answers, as Multiplexer keeps them: without the verdict of the parser.  *)

Sent(replies) ==
  [i \in 1..Len(replies) |->
     [to |-> replies[i].to, request |-> replies[i].request]]

(* There is an answer for every reply. *)
LEMMA SentFacts ==
  ASSUME NEW s \in Seq(Reply)
  PROVE  Sent(s) \in Seq(Item) /\ Len(Sent(s)) = Len(s)
  <1>0. \A i \in 1..Len(s) : s[i] \in Reply
    OBVIOUS
  <1>1. \A i \in 1..Len(s) : [to |-> s[i].to, request |-> s[i].request] \in Item
    BY <1>0 DEF Reply, Item
  <1>2. Len(s) \in Nat
    BY EmptyFacts
  <1>. QED
    BY <1>1, <1>2 DEF Sent

(* No replies, no answers. *)
LEMMA SentEmpty == Sent(<< >>) = << >>
  <1>1. << >> \in Seq(Reply)
    OBVIOUS
  <1>. QED
    BY <1>1, SentFacts, EmptyFacts

(* The answers of a client, before and after a step. *)
LEMMA AnswersSent ==
  ASSUME NEW c \in Clients
  PROVE  /\ Answers(c) = IF peer[c] # "open" THEN << >> ELSE Sent(outbound[c] \o resp[c])
         /\ Answers(c)' = IF peer'[c] # "open" THEN << >> ELSE Sent(outbound'[c] \o resp'[c])
  BY DEF Answers, Sent

(* A reply more is an answer more. *)
LEMMA SentOneMore ==
  ASSUME NEW s \in Seq(Reply), NEW r \in Reply
  PROVE  Sent(s \o <<r>>) = Append(Sent(s), [to |-> r.to, request |-> r.request])
  <1>1. Sent(s) \in Seq(Item) /\ Len(Sent(s)) = Len(s) /\ Len(s) \in Nat
    BY SentFacts, EmptyFacts
  <1>2. /\ Len(s \o <<r>>) = Len(s) + 1
        /\ \A i \in 1..Len(s) : (s \o <<r>>)[i] = s[i]
        /\ (s \o <<r>>)[Len(s) + 1] = r
    OBVIOUS
  <1>. QED
    BY <1>1, <1>2 DEF Sent

(* A reply less is an answer less. *)
LEMMA SentOneLess ==
  ASSUME NEW s \in Seq(Reply), s # << >>
  PROVE  Sent(s) # << >> /\ Sent(Tail(s)) = Tail(Sent(s))
  <1>1. /\ Sent(s) \in Seq(Item) /\ Len(Sent(s)) = Len(s) /\ Len(s) \in Nat \ {0}
        /\ Len(Tail(s)) = Len(s) - 1
        /\ \A i \in 1..Len(Tail(s)) : Tail(s)[i] = s[i + 1]
    BY SentFacts, TailFacts
  <1>. QED
    BY <1>1 DEF Sent
-----------------------------------------------------------------------------
(* The mapping of one session.                                             *)

(* A session that a step leaves alone is mapped to what it was mapped to. *)
LEMMA UnmovedMapped ==
  ASSUME NEW d \in Clients, Unmoved(d)
  PROVE  Pending(d)' = Pending(d) /\ Answers(d)' = Answers(d)
  BY DEF Unmoved, Pending, Answers

(* A step that changes the mapping of at most one session. *)
LEMMA MappedExcept ==
  ASSUME NEW c \in Clients, \A d \in Clients \ {c} : Unmoved(d)
  PROVE  /\ Todo' = [Todo EXCEPT ![c] = Pending(c)']
         /\ Unread' = [Unread EXCEPT ![c] = Answers(c)']
  BY UnmovedMapped DEF Todo, Unread

(* A step that changes the mapping of no session. *)
LEMMA MappedKept ==
  ASSUME \A d \in Clients : Pending(d)' = Pending(d) /\ Answers(d)' = Answers(d)
  PROVE  UNCHANGED <<Todo, Unread>>
  BY DEF Todo, Unread

(* What a session is mapped to, in terms of the facts about sequences. *)
LEMMA SessionMapped ==
  ASSUME TypeOK, NEW c \in Clients
  PROVE  /\ Todo[c] = Pending(c) /\ Unread[c] = Answers(c)
         /\ chunk[c] \in Seq(Request) /\ inbound[c] \in Seq(Request)
         /\ outbound[c] \in Seq(Reply) /\ resp[c] \in Seq(Reply)
  BY DEF TypeOK, Todo, Unread

(* When the frame at the head of a chunk is done, whether its session goes  *)
(* on with the next or has a reply to write first, it is no longer pending. *)
LEMMA FrameDone ==
  ASSUME TypeOK, NEW c \in Clients, chunk[c] # << >>, pc[c] # "deliver",
         inbound'[c] = inbound[c],
         \/ pc'[c] = "deliver" /\ chunk'[c] = chunk[c]
         \/ pc'[c] # "deliver" /\ chunk'[c] = Tail(chunk[c])
  PROVE  /\ Pending(c) # << >> /\ Head(Pending(c)) = Head(chunk[c])
         /\ Pending(c)' = Tail(Pending(c))
  <1>1. Pending(c) = chunk[c] \o inbound[c]
    BY DEF Pending
  <1>2. Pending(c)' = Tail(chunk[c]) \o inbound[c]
    BY DEF Pending
  <1>3. chunk[c] \in Seq(Request) /\ inbound[c] \in Seq(Request)
    BY SessionMapped
  <1>4. /\ chunk[c] \o inbound[c] # << >>
        /\ Head(chunk[c] \o inbound[c]) = Head(chunk[c])
        /\ Tail(chunk[c] \o inbound[c]) = Tail(chunk[c]) \o inbound[c]
    BY <1>3, ConcatHead
  <1>. QED
    BY <1>1, <1>2, <1>4

(* Nothing is left of a session that ends. *)
LEMMA EndMapped ==
  ASSUME TypeOK, NEW c \in Clients, End(c)
  PROVE  /\ Pending(c)' = << >> /\ Answers(c)' = << >>
         /\ \A d \in Clients \ {c} : Unmoved(d)
  <1>1. /\ pc'[c] = "none" /\ chunk'[c] = << >> /\ inbound'[c] = << >>
        /\ peer'[c] = "none"
        /\ \A d \in Clients \ {c} : Unmoved(d)
    BY DEF End, TypeOK, Unmoved
  <1>2. Pending(c)' = << >> \o << >>
    BY <1>1 DEF Pending
  <1>3. << >> \o << >> = << >>
    OBVIOUS
  <1>. QED
    BY <1>1, <1>2, <1>3 DEF Answers

-----------------------------------------------------------------------------
(* Who is served.                                                          *)

(* The session that exchanges is the one that is served. *)
LEMMA ServedOne ==
  ASSUME OneAtATime, NEW c \in Clients, Exchanging(c)
  PROVE  Served = c /\ Served # Nobody
  <1>1. \A d \in Clients : Exchanging(d) => d = c
    BY DEF OneAtATime, Owner
  <1>2. (CHOOSE d \in Clients : Exchanging(d)) \in Clients
        /\ Exchanging(CHOOSE d \in Clients : Exchanging(d))
    OBVIOUS
  <1>3. Served = CHOOSE d \in Clients : Exchanging(d)
    BY DEF Served
  <1>. QED
    BY <1>1, <1>2, <1>3, ProxyAssumption

(* The same after a step. *)
LEMMA ServedOneNext ==
  ASSUME OneAtATime', NEW c \in Clients, Exchanging(c)'
  PROVE  Served' = c /\ Served' # Nobody
  <1> DEFINE uses(d) == pc'[d] \in {"connect", "send", "await"}
             one == CHOOSE d \in Clients : uses(d)
  <1>1. \A d \in Clients : uses(d) => d = c
    BY DEF OneAtATime, Owner, Exchanging
  <1>2. uses(c)
    BY DEF Exchanging
  <1>3. Served' = one
    BY <1>2 DEF Served, Exchanging
  <1>4. one \in Clients /\ uses(one)
    <2> HIDE DEF uses
    <2>. QED
      BY <1>2
  <1>. QED
    BY <1>1, <1>3, <1>4, ProxyAssumption

(* Nobody is served when no session exchanges. *)
LEMMA ServedNone ==
  /\ (\A d \in Clients : ~Exchanging(d)) => Served = Nobody
  /\ (\A d \in Clients : ~Exchanging(d)') => Served' = Nobody
  BY DEF Served

(* The owner of the mutex is the only one that uses the connection. *)
LEMMA OthersWait ==
  ASSUME OneAtATime, NEW c \in Clients, Exchanging(c) \/ Owner(c)
  PROVE  \A d \in Clients \ {c} : ~Exchanging(d)
  BY DEF OneAtATime, Owner

(* The exchange of c ends. *)
LEMMA ServedEnds ==
  ASSUME OneAtATime, NEW c \in Clients, Exchanging(c), ~Exchanging(c)',
         \A d \in Clients \ {c} : pc'[d] = pc[d]
  PROVE  Served = c /\ Served' = Nobody
  <1>1. \A d \in Clients \ {c} : ~Exchanging(d)
    BY OthersWait
  <1>2. \A d \in Clients : ~Exchanging(d)'
    BY <1>1 DEF Exchanging
  <1>. QED
    BY <1>2, ServedOne, ServedNone

(* The same exchange goes on, or none is begun. *)
LEMMA ServedKept ==
  ASSUME OneAtATime, OneAtATime',
         \A d \in Clients : Exchanging(d)' <=> Exchanging(d)
  PROVE  Served' = Served
  <1>1. CASE \E d \in Clients : Exchanging(d)
    <2>1. PICK d \in Clients : Exchanging(d)
      BY <1>1
    <2>2. Served = d
      BY <2>1, ServedOne
    <2>3. Served' = d
      BY <2>1, ServedOneNext
    <2>. QED
      BY <2>2, <2>3
  <1>2. CASE \A d \in Clients : ~Exchanging(d)
    BY <1>2, ServedNone
  <1>. QED
    BY <1>1, <1>2

(* Somebody who does not exchange is not served. *)
LEMMA NotServed ==
  ASSUME OneAtATime, NEW c \in Clients, ~Exchanging(c)
  PROVE  Served # c
  <1>1. CASE \E d \in Clients : Exchanging(d)
    <2>1. PICK d \in Clients : Exchanging(d)
      BY <1>1
    <2>. QED
      BY <2>1, ServedOne
  <1>2. CASE \A d \in Clients : ~Exchanging(d)
    BY <1>2, ServedNone, ProxyAssumption
  <1>. QED
    BY <1>1, <1>2

-----------------------------------------------------------------------------
(* The steps of Multiplexer, with its variables mapped: what each takes to *)
(* be a step of Mux!Next.                                                  *)

(* A step that changes none of the mapped variables.                       *)
LEMMA ToStutter ==
  ASSUME Todo' = Todo, Served' = Served, Unread' = Unread
  PROVE  UNCHANGED Mux!vars
  BY DEF Mux!vars, Todo, Unread

(* A client writes a request.                                              *)
LEMMA ToSubmit ==
  ASSUME NEW c \in Clients, NEW r \in Request,
         Todo' = [Todo EXCEPT ![c] = Append(Todo[c], r)],
         UNCHANGED <<Served, Unread>>
  PROVE  Mux!Next
  <1>1. Mux!Submit(c)
    BY DEF Mux!Submit, Todo, Unread
  <1>. QED
    BY <1>1 DEF Mux!Next

(* The proxy takes up the oldest request of a session.                     *)
LEMMA ToBegin ==
  ASSUME NEW c \in Clients, Served = Nobody, Todo[c] # << >>, Served' = c,
         UNCHANGED <<Todo, Unread>>
  PROVE  Mux!Next
  <1>1. Mux!Begin(c)
    BY DEF Mux!Begin, Todo, Unread
  <1>. QED
    BY <1>1 DEF Mux!Next

(* It answers the request it serves.                                       *)
LEMMA ToAnswer ==
  ASSUME NEW c \in Clients, Served = c, Served' = Nobody,
         Todo' = [Todo EXCEPT ![c] = Tail(Todo[c])],
         Unread' = [Unread EXCEPT
                      ![c] = Append(Unread[c], [to |-> c, request |-> Head(Todo[c])])]
  PROVE  Mux!Next
  <1>1. Mux!Answer(c)
    BY DEF Mux!Answer, Todo, Unread
  <1>. QED
    BY <1>1 DEF Mux!Next

(* It drops the request it serves.                                         *)
LEMMA ToFail ==
  ASSUME NEW c \in Clients, Served = c, Served' = Nobody,
         Todo' = [Todo EXCEPT ![c] = Tail(Todo[c])], Unread' = Unread
  PROVE  Mux!Next
  <1>1. Mux!Fail(c)
    BY DEF Mux!Fail, Todo, Unread
  <1>. QED
    BY <1>1 DEF Mux!Next

(* It passes over what is no request.                                      *)
LEMMA ToSkip ==
  ASSUME NEW c \in Clients, Served # c, Todo[c] # << >>,
         Todo' = [Todo EXCEPT ![c] = Tail(Todo[c])],
         UNCHANGED <<Served, Unread>>
  PROVE  Mux!Next
  <1>1. Mux!Skip(c)
    BY DEF Mux!Skip, Todo, Unread
  <1>. QED
    BY <1>1 DEF Mux!Next

(* A client reads an answer.                                               *)
LEMMA ToTake ==
  ASSUME NEW c \in Clients, Unread[c] # << >>,
         Unread' = [Unread EXCEPT ![c] = Tail(Unread[c])],
         UNCHANGED <<Todo, Served>>
  PROVE  Mux!Next
  <1>1. Mux!Take(c)
    BY DEF Mux!Take, Todo, Unread
  <1>. QED
    BY <1>1 DEF Mux!Next

(* A client stops reading.                                                 *)
LEMMA ToHangUp ==
  ASSUME NEW c \in Clients, Unread' = [Unread EXCEPT ![c] = << >>],
         UNCHANGED <<Todo, Served>>
  PROVE  Mux!Next
  <1>1. Mux!HangUp(c)
    BY DEF Mux!HangUp, Todo, Unread
  <1>. QED
    BY <1>1 DEF Mux!Next

(* A session is over.                                                      *)
LEMMA ToEnd ==
  ASSUME NEW c \in Clients,
         Todo' = [Todo EXCEPT ![c] = << >>], Unread' = [Unread EXCEPT ![c] = << >>],
         \/ Served = c /\ Served' = Nobody
         \/ Served # c /\ Served' = Served
  PROVE  Mux!Next
  <1>1. Mux!End(c)
    BY DEF Mux!End, Todo, Unread
  <1>. QED
    BY <1>1 DEF Mux!Next

-----------------------------------------------------------------------------
(* Only an open connection holds replies.                                  *)

Cleared == \A c \in Clients : peer[c] # "open" => outbound[c] = << >>

(* Every step keeps it so. *)
LEMMA ClearedStep ==
  ASSUME TypeOK, Cleared, [Next]_vars
  PROVE  Cleared'
  <1>0. /\ peer \in [Clients -> {"none", "open", "shut"}]
        /\ outbound \in [Clients -> Seq(Reply)]
    BY DEF TypeOK
  <1>1. ASSUME NEW c \in Clients, End(c) PROVE Cleared'
    BY <1>0, <1>1 DEF End, Cleared
  <1>2. ASSUME UNCHANGED <<peer, outbound>> PROVE Cleared'
    BY <1>2 DEF Cleared
  <1>3. ASSUME NEW c \in Clients, Accept(c) \/ ClientClose(c) PROVE Cleared'
    BY <1>0, <1>3 DEF Accept, ClientClose, Cleared
  <1>4. ASSUME NEW c \in Clients, Deliver(c) PROVE Cleared'
    <2>1. \/ UNCHANGED <<peer, outbound>>
          \/ /\ peer[c] = "open" /\ peer' = peer
             /\ outbound' = [outbound EXCEPT ![c] = @ \o resp[c]]
      BY <1>4 DEF Deliver
    <2>. QED
      BY <1>0, <2>1 DEF Cleared
  <1>5. ASSUME NEW c \in Clients, ClientTake(c) PROVE Cleared'
    BY <1>0, <1>5 DEF ClientTake, Cleared
  <1>6. ASSUME NEW c \in Clients,
               ReadEnd(c) \/ FeedPanic(c) \/ AwaitPanic(c) \/ DeliverGone(c)
        PROVE  Cleared'
    BY <1>1, <1>6 DEF ReadEnd, FeedPanic, AwaitPanic, DeliverGone
  <1>7. ASSUME NEW c \in Clients,
               \/ Read(c) \/ FeedRequest(c) \/ FeedDesync(c) \/ Acquire(c) \/ Connect(c)
               \/ ConnectFail(c) \/ Send(c) \/ SendFail(c) \/ AwaitReply(c) \/ AwaitFail(c)
               \/ ClientSend(c)
        PROVE  Cleared'
    BY <1>2, <1>7 DEF Read, FeedRequest, FeedDesync, Acquire, Connect, ConnectFail, Send,
                      SendFail, AwaitReply, AwaitFail, ClientSend, Fail, wires
  <1>8. ASSUME \/ \E c \in Clients : AwaitGap(c)
               \/ InverterAnswer \/ InverterIgnore \/ InverterClose \/ UNCHANGED vars
        PROVE  Cleared'
    BY <1>2, <1>8 DEF AwaitGap, session, InverterAnswer, InverterIgnore, InverterClose, wires, vars
  <1>. QED
    BY <1>3, <1>4, <1>5, <1>6, <1>7, <1>8 DEF Next, Session

-----------------------------------------------------------------------------
(* The steps of the proxy and its environment, mapped.                     *)

Good == Invariant /\ Cleared

MuxStep == Mux!Next \/ UNCHANGED Mux!vars

(* A new session has nothing pending and nothing to be read. *)
LEMMA MapAccept ==
  ASSUME Good, Good', NEW c \in Clients, Accept(c)
  PROVE  MuxStep
  <1>0. TypeOK /\ OneAtATime /\ OneAtATime'
    BY DEF Good, Invariant
  <1>1. /\ peer[c] = "none" /\ pc[c] = "none" /\ outbound[c] = << >> /\ resp[c] = << >>
        /\ chunk[c] = << >>
    <2>1. resp[c] \in Seq(Reply) /\ Len(resp[c]) = 0
      BY DEF Accept, Good, Invariant, TypeOK, InPlace
    <2>. QED
      BY <2>1, EmptyFacts DEF Accept, Good, Invariant, Cleared, TypeOK, InPlace
  <1>2. /\ pc'[c] = "read" /\ outbound'[c] = << >> /\ resp'[c] = << >> /\ chunk'[c] = << >>
        /\ inbound'[c] = inbound[c]
        /\ \A d \in Clients \ {c} : Unmoved(d)
    BY <1>0, <1>1 DEF Accept, TypeOK, Unmoved
  <1>3. Pending(c)' = Pending(c)
    BY <1>1, <1>2 DEF Pending
  <1>4. Answers(c)' = << >> /\ Answers(c) = << >>
    <2>1. << >> \o << >> = << >>
      OBVIOUS
    <2>2. Answers(c)' \in {<< >>, Sent(<< >>)}
      BY <1>2, <2>1, AnswersSent
    <2>3. Answers(c) = << >>
      BY <1>1 DEF Answers
    <2>. QED
      BY <2>2, <2>3, SentEmpty
  <1>5. UNCHANGED <<Todo, Unread>>
    BY <1>2, <1>3, <1>4, UnmovedMapped, MappedKept
  <1>6. Served' = Served
    BY <1>0, <1>1, <1>2, ServedKept DEF Exchanging, Unmoved
  <1>. QED
    BY <1>5, <1>6, ToStutter DEF MuxStep

(* A read moves requests from the connection to the session, in order. *)
LEMMA MapRead ==
  ASSUME Good, Good', NEW c \in Clients, Read(c)
  PROVE  MuxStep
  <1>0. TypeOK /\ OneAtATime /\ OneAtATime'
    BY DEF Good, Invariant
  <1>1. PICK n \in 1..Len(inbound[c]) :
          /\ chunk' = [chunk EXCEPT ![c] = SubSeq(inbound[c], 1, n)]
          /\ inbound' = [inbound EXCEPT ![c] = SubSeq(inbound[c], n + 1, Len(inbound[c]))]
    BY DEF Read
  <1>2. /\ pc[c] = "read" /\ pc'[c] = "feed" /\ chunk[c] = << >>
        /\ chunk'[c] = SubSeq(inbound[c], 1, n)
        /\ inbound'[c] = SubSeq(inbound[c], n + 1, Len(inbound[c]))
        /\ UNCHANGED <<peer, outbound, resp>>
        /\ \A d \in Clients \ {c} : Unmoved(d)
    BY <1>0, <1>1 DEF Read, TypeOK, InPlace, Unmoved
  <1>3. Pending(c)' = Pending(c)
    <2>1. inbound[c] \in Seq(Request)
      BY <1>0, SessionMapped
    <2>2. SubSeq(inbound[c], 1, n) \o SubSeq(inbound[c], n + 1, Len(inbound[c])) = inbound[c]
      BY <2>1, SplitWhole
    <2>3. << >> \o inbound[c] = inbound[c]
      BY <2>1, ConcatEmpty
    <2>4. Pending(c) = << >> \o inbound[c] /\ Pending(c)' = chunk'[c] \o inbound'[c]
      BY <1>2 DEF Pending
    <2>. QED
      BY <1>2, <2>2, <2>3, <2>4
  <1>4. Answers(c)' = Answers(c)
    BY <1>2 DEF Answers
  <1>5. UNCHANGED <<Todo, Unread>>
    BY <1>2, <1>3, <1>4, UnmovedMapped, MappedKept
  <1>6. Served' = Served
    BY <1>0, <1>2, ServedKept DEF Exchanging, Unmoved
  <1>. QED
    BY <1>5, <1>6, ToStutter DEF MuxStep

(* The queue of the mutex grows, or the upstream connection changes. *)
LEMMA MapQuiet ==
  ASSUME Good, Good', UNCHANGED <<peer, inbound, outbound, chunk, resp>>,
         \A d \in Clients : /\ pc'[d] = "deliver" <=> pc[d] = "deliver"
                            /\ Exchanging(d)' <=> Exchanging(d)
  PROVE  MuxStep
  <1>1. UNCHANGED <<Todo, Unread>>
    <2>1. \A d \in Clients : Pending(d)' = Pending(d) /\ Answers(d)' = Answers(d)
      BY DEF Pending, Answers
    <2>. QED
      BY <2>1, MappedKept
  <1>2. Served' = Served
    BY ServedKept DEF Good, Invariant
  <1>. QED
    BY <1>1, <1>2, ToStutter DEF MuxStep

(* The reply is written downstream: it was an answer already. *)
LEMMA MapDeliver ==
  ASSUME Good, Good', NEW c \in Clients, Deliver(c)
  PROVE  MuxStep
  <1>0. TypeOK /\ OneAtATime /\ OneAtATime' /\ Cleared
    BY DEF Good, Invariant
  <1>1. /\ pc[c] = "deliver" /\ chunk[c] # << >> /\ Continue(c) /\ UNCHANGED <<peer, inbound>>
        /\ peer[c] \in {"open", "shut"}
        /\ resp' = [resp EXCEPT ![c] = << >>]
    BY <1>0 DEF Deliver, TypeOK, InPlace
  <1>2. /\ pc'[c] \in {"read", "feed"} /\ chunk'[c] = Tail(chunk[c]) /\ resp'[c] = << >>
        /\ \A d \in Clients \ {c} : Unmoved(d)
    BY <1>0, <1>1, ContinueTypes DEF Deliver, Continue, TypeOK, Unmoved
  <1>3. Pending(c)' = Pending(c)
    BY <1>1, <1>2 DEF Pending
  <1>4. Answers(c)' = Answers(c)
    <2>1. CASE peer[c] = "open"
      <3>1. outbound'[c] = outbound[c] \o resp[c] /\ peer'[c] = "open"
        BY <1>0, <1>1, <2>1 DEF Deliver, TypeOK
      <3>2. outbound[c] \o resp[c] \in Seq(Reply)
        BY <1>0, SessionMapped, ConcatFacts
      <3>3. outbound'[c] \o resp'[c] = outbound[c] \o resp[c]
        BY <1>2, <3>1, <3>2, ConcatEmpty
      <3>. QED
        BY <2>1, <3>1, <3>3, AnswersSent
    <2>2. CASE peer[c] # "open"
      BY <1>1, <2>2 DEF Answers
    <2>. QED
      BY <2>1, <2>2
  <1>5. UNCHANGED <<Todo, Unread>>
    BY <1>2, <1>3, <1>4, UnmovedMapped, MappedKept
  <1>6. Served' = Served
    BY <1>0, <1>1, <1>2, ServedKept DEF Exchanging, Unmoved
  <1>. QED
    BY <1>5, <1>6, ToStutter DEF MuxStep

(* The owner of the mutex begins its exchange. *)
LEMMA MapAcquire ==
  ASSUME Good, Good', NEW c \in Clients, Acquire(c)
  PROVE  MuxStep
  <1>0. TypeOK /\ OneAtATime /\ OneAtATime'
    BY DEF Good, Invariant
  <1>1. /\ pc[c] = "lock" /\ Owner(c) /\ chunk[c] # << >>
        /\ pc'[c] \in {"connect", "send"} /\ \A d \in Clients \ {c} : pc'[d] = pc[d]
        /\ UNCHANGED <<peer, inbound, outbound, chunk, resp>>
    BY <1>0 DEF Acquire, TypeOK, InPlace, wires
  <1>2. Served = Nobody
    <2>1. ~Exchanging(c) /\ \A d \in Clients \ {c} : ~Exchanging(d)
      BY <1>0, <1>1, OthersWait DEF Exchanging
    <2>. QED
      BY <2>1, ServedNone
  <1>3. Served' = c
    BY <1>0, <1>1, ServedOneNext DEF Exchanging
  <1>4. Todo[c] # << >>
    <2>1. Pending(c) = chunk[c] \o inbound[c]
      BY <1>1 DEF Pending
    <2>2. /\ Todo[c] = Pending(c)
          /\ chunk[c] \in Seq(Request) /\ inbound[c] \in Seq(Request)
      BY <1>0, SessionMapped
    <2>3. chunk[c] \o inbound[c] # << >>
      BY <1>1, <2>2, ConcatHead
    <2>. QED
      BY <2>1, <2>2, <2>3
  <1>5. UNCHANGED <<Todo, Unread>>
    <2>1. \A d \in Clients : pc'[d] = "deliver" <=> pc[d] = "deliver"
      BY <1>1
    <2>2. \A d \in Clients : Pending(d)' = Pending(d) /\ Answers(d)' = Answers(d)
      BY <1>1, <2>1 DEF Pending, Answers
    <2>. QED
      BY <2>2, MappedKept
  <1>. QED
    BY <1>2, <1>3, <1>4, <1>5, ToBegin DEF MuxStep

(* An exchange fails: its request is dropped. *)
LEMMA MapFail ==
  ASSUME Good, Good', NEW c \in Clients, Exchanging(c), Fail(c)
  PROVE  MuxStep
  <1>0. TypeOK /\ OneAtATime
    BY DEF Good, Invariant
  <1>1. /\ chunk[c] # << >> /\ pc[c] # "deliver" /\ Continue(c)
        /\ UNCHANGED <<peer, inbound, outbound, resp>>
    BY <1>0 DEF Fail, Exchanging, TypeOK, InPlace, wires
  <1>2. /\ pc'[c] \in {"read", "feed"} /\ chunk'[c] = Tail(chunk[c])
        /\ \A d \in Clients \ {c} : Unmoved(d)
    BY <1>0, <1>1, ContinueTypes DEF Continue, TypeOK, Unmoved
  <1>3. Pending(c)' = Tail(Pending(c))
    BY <1>0, <1>1, <1>2, FrameDone
  <1>4. Answers(c)' = Answers(c)
    BY <1>1 DEF Answers
  <1>5. Todo' = [Todo EXCEPT ![c] = Tail(Todo[c])]
    BY <1>0, <1>2, <1>3, MappedExcept, SessionMapped
  <1>6. Unread' = Unread
    BY <1>2, <1>4, UnmovedMapped DEF Unread
  <1>7. Served = c /\ Served' = Nobody
    BY <1>0, <1>2, ServedEnds DEF Exchanging, Unmoved
  <1>. QED
    BY <1>5, <1>6, <1>7, ToFail DEF MuxStep

(* The inverter's reply ends the exchange: an answer for the client that    *)
(* made the request, if it has not hung up.                                 *)
LEMMA MapAwaitReply ==
  ASSUME Good, Good', NEW c \in Clients, AwaitReply(c)
  PROVE  MuxStep
  <1>0. TypeOK /\ OneAtATime /\ CleanLink
    BY DEF Good, Invariant
  <1>1. /\ pc[c] = "await" /\ chunk[c] # << >> /\ Exchanging(c)
        /\ down \in Seq(Reply) /\ down # << >>
        /\ UNCHANGED <<peer, inbound, outbound, chunk>>
        /\ resp[c] \in Seq(Reply) /\ Len(resp[c]) = 0
    BY <1>0 DEF AwaitReply, Exchanging, TypeOK, InPlace, wires
  <1>2. /\ pc'[c] = "deliver" /\ resp'[c] = <<Head(down)>>
        /\ \A d \in Clients \ {c} : Unmoved(d)
    BY <1>0, <1>1 DEF AwaitReply, TypeOK, Unmoved
  <1>3. /\ Head(down) \in Reply
        /\ Head(down).to = c /\ Head(down).request = Head(chunk[c])
    <2>1. Head(down) = down[1] /\ 1 \in 1..Len(down) /\ Head(down) \in Reply
      BY <1>1, TailFacts
    <2>2. Belongs(Head(down)) /\ Head(down).to \in Clients
      BY <1>0, <2>1 DEF CleanLink, Reply
    <2>3. \A d \in Clients \ {c} : ~Exchanging(d)
      BY <1>0, <1>1, OthersWait
    <2>4. Head(down).to = c
      BY <2>2, <2>3 DEF Belongs, Exchanging
    <2>. QED
      BY <2>1, <2>2, <2>4 DEF Belongs
  <1>4. Pending(c)' = Tail(Pending(c)) /\ Head(Pending(c)) = Head(chunk[c])
    BY <1>0, <1>1, <1>2, FrameDone
  <1>5. Todo' = [Todo EXCEPT ![c] = Tail(Todo[c])]
    BY <1>0, <1>2, <1>4, MappedExcept, SessionMapped
  <1>6. Served = c /\ Served' = Nobody
    BY <1>0, <1>1, <1>2, ServedEnds DEF Exchanging, Unmoved
  <1>7. CASE peer[c] = "open"
    <2>1. outbound[c] \in Seq(Reply) /\ resp[c] = << >>
      BY <1>0, <1>1, SessionMapped, EmptyFacts
    <2>2. Answers(c) = Sent(outbound[c])
      BY <1>7, <2>1, AnswersSent, ConcatEmpty
    <2>3. Answers(c)' = Sent(outbound[c] \o <<Head(down)>>)
      BY <1>1, <1>2, <1>7, AnswersSent
    <2>4. Answers(c)' = Append(Answers(c), [to |-> c, request |-> Head(Pending(c))])
      BY <1>3, <1>4, <2>1, <2>2, <2>3, SentOneMore
    <2>5. Unread' = [Unread EXCEPT
                       ![c] = Append(Unread[c], [to |-> c, request |-> Head(Todo[c])])]
      BY <1>0, <1>2, <2>4, MappedExcept, SessionMapped
    <2>. QED
      BY <1>5, <1>6, <2>5, ToAnswer DEF MuxStep
  <1>8. CASE peer[c] # "open"
    <2>1. Answers(c)' = Answers(c)
      BY <1>1, <1>8 DEF Answers
    <2>2. Unread' = Unread
      BY <1>2, <2>1, UnmovedMapped DEF Unread
    <2>. QED
      BY <1>5, <1>6, <2>2, ToFail DEF MuxStep
  <1>. QED
    BY <1>7, <1>8

(* A desynchronized frame is skipped; no exchange was made for it. *)
LEMMA MapDesync ==
  ASSUME Good, Good', NEW c \in Clients, FeedDesync(c)
  PROVE  MuxStep
  <1>0. TypeOK /\ OneAtATime /\ OneAtATime'
    BY DEF Good, Invariant
  <1>1. /\ chunk[c] # << >> /\ pc[c] = "feed" /\ Continue(c)
        /\ UNCHANGED <<peer, inbound, outbound, resp>>
    BY <1>0 DEF FeedDesync, TypeOK, InPlace, wires
  <1>2. /\ pc'[c] \in {"read", "feed"} /\ chunk'[c] = Tail(chunk[c])
        /\ \A d \in Clients \ {c} : Unmoved(d)
    BY <1>0, <1>1, ContinueTypes DEF Continue, TypeOK, Unmoved
  <1>3. Pending(c)' = Tail(Pending(c)) /\ Pending(c) # << >>
    BY <1>0, <1>1, <1>2, FrameDone
  <1>4. Answers(c)' = Answers(c)
    BY <1>1 DEF Answers
  <1>5. Todo' = [Todo EXCEPT ![c] = Tail(Todo[c])] /\ Todo[c] # << >>
    BY <1>0, <1>2, <1>3, MappedExcept, SessionMapped
  <1>6. Unread' = Unread
    BY <1>2, <1>4, UnmovedMapped DEF Unread
  <1>7. Served # c
    BY <1>0, <1>1, NotServed DEF Exchanging
  <1>8. Served' = Served
    BY <1>0, <1>1, <1>2, ServedKept DEF Exchanging, Unmoved
  <1>. QED
    BY <1>5, <1>6, <1>7, <1>8, ToSkip DEF MuxStep

(* A session ends, in the middle of an exchange or not. *)
LEMMA MapEnd ==
  ASSUME Good, Good', NEW c \in Clients, End(c)
  PROVE  MuxStep
  <1>0. TypeOK /\ OneAtATime /\ OneAtATime'
    BY DEF Good, Invariant
  <1>1. /\ Pending(c)' = << >> /\ Answers(c)' = << >>
        /\ \A d \in Clients \ {c} : Unmoved(d)
    BY <1>0, EndMapped
  <1>2. /\ Todo' = [Todo EXCEPT ![c] = << >>]
        /\ Unread' = [Unread EXCEPT ![c] = << >>]
    BY <1>1, MappedExcept
  <1>3. ~Exchanging(c)'
    BY <1>0 DEF End, TypeOK, Exchanging
  <1>4. CASE Exchanging(c)
    <2>1. Served = c /\ Served' = Nobody
      BY <1>0, <1>1, <1>3, <1>4, ServedEnds DEF Unmoved
    <2>. QED
      BY <1>2, <2>1, ToEnd DEF MuxStep
  <1>5. CASE ~Exchanging(c)
    <2>1. Served # c /\ Served' = Served
      BY <1>0, <1>1, <1>3, <1>5, NotServed, ServedKept DEF Exchanging, Unmoved
    <2>. QED
      BY <1>2, <2>1, ToEnd DEF MuxStep
  <1>. QED
    BY <1>4, <1>5

(* A client writes a request. *)
LEMMA MapClientSend ==
  ASSUME Good, Good', NEW c \in Clients, ClientSend(c)
  PROVE  MuxStep
  <1>0. TypeOK /\ OneAtATime /\ OneAtATime'
    BY DEF Good, Invariant
  <1>1. \A t \in Tags, k \in RequestKinds : [tag |-> t, kind |-> k] \in Request
    BY ProxyAssumption DEF Request
  <1>2. PICK r \in Request : inbound' = [inbound EXCEPT ![c] = Append(inbound[c], r)]
    BY <1>1 DEF ClientSend
  <1>3. /\ inbound'[c] = Append(inbound[c], r)
        /\ UNCHANGED <<peer, outbound, pc, chunk, resp>>
        /\ \A d \in Clients \ {c} : Unmoved(d)
    BY <1>0, <1>2 DEF ClientSend, session, TypeOK, Unmoved
  <1>4. Pending(c)' = Append(Pending(c), r)
    <2>1. /\ chunk[c] \in Seq(Request) /\ inbound[c] \in Seq(Request)
          /\ pc[c] = "deliver" => Tail(chunk[c]) \in Seq(Request)
      BY <1>0, TailFacts DEF TypeOK, InPlace
    <2>2. \A s, q \in Seq(Request), e \in Request : s \o Append(q, e) = Append(s \o q, e)
      BY ConcatAppend
    <2>3. CASE pc[c] = "deliver"
      <3>1. Tail(chunk[c]) \o Append(inbound[c], r) = Append(Tail(chunk[c]) \o inbound[c], r)
        BY <2>1, <2>2, <2>3
      <3>. QED
        BY <1>3, <2>3, <3>1 DEF Pending
    <2>4. CASE pc[c] # "deliver"
      <3>1. chunk[c] \o Append(inbound[c], r) = Append(chunk[c] \o inbound[c], r)
        BY <2>1, <2>2
      <3>. QED
        BY <1>3, <2>4, <3>1 DEF Pending
    <2>. QED
      BY <2>3, <2>4
  <1>5. Answers(c)' = Answers(c)
    BY <1>3 DEF Answers
  <1>6. Todo' = [Todo EXCEPT ![c] = Append(Todo[c], r)]
    BY <1>0, <1>3, <1>4, MappedExcept, SessionMapped
  <1>7. Unread' = Unread
    BY <1>3, <1>5, UnmovedMapped DEF Unread
  <1>8. Served' = Served
    BY <1>0, <1>3, ServedKept DEF Exchanging
  <1>. QED
    BY <1>6, <1>7, <1>8, ToSubmit DEF MuxStep

(* A client reads an answer. *)
LEMMA MapClientTake ==
  ASSUME Good, Good', NEW c \in Clients, ClientTake(c)
  PROVE  MuxStep
  <1>0. TypeOK /\ OneAtATime /\ OneAtATime' /\ Cleared
    BY DEF Good, Invariant
  <1>1. /\ outbound[c] # << >> /\ outbound'[c] = Tail(outbound[c])
        /\ peer[c] = "open"
        /\ UNCHANGED <<peer, inbound, pc, chunk, resp>>
        /\ \A d \in Clients \ {c} : Unmoved(d)
    BY <1>0 DEF ClientTake, session, TypeOK, Cleared, Unmoved
  <1>2. Answers(c)' = Tail(Answers(c)) /\ Answers(c) # << >>
    <2>1. outbound[c] \in Seq(Reply) /\ resp[c] \in Seq(Reply)
      BY <1>0, SessionMapped
    <2>2. /\ outbound[c] \o resp[c] \in Seq(Reply)
          /\ outbound[c] \o resp[c] # << >>
          /\ Tail(outbound[c] \o resp[c]) = Tail(outbound[c]) \o resp[c]
      BY <1>1, <2>1, ConcatFacts, ConcatHead
    <2>3. /\ Answers(c) = Sent(outbound[c] \o resp[c])
          /\ Answers(c)' = Sent(Tail(outbound[c]) \o resp[c])
      BY <1>1, AnswersSent
    <2>. QED
      BY <2>2, <2>3, SentOneLess
  <1>3. Pending(c)' = Pending(c)
    BY <1>1 DEF Pending
  <1>4. Unread' = [Unread EXCEPT ![c] = Tail(Unread[c])] /\ Unread[c] # << >>
    BY <1>0, <1>1, <1>2, MappedExcept, SessionMapped
  <1>5. Todo' = Todo
    BY <1>1, <1>3, UnmovedMapped DEF Todo
  <1>6. Served' = Served
    BY <1>0, <1>1, ServedKept DEF Exchanging
  <1>. QED
    BY <1>4, <1>5, <1>6, ToTake DEF MuxStep

(* A client hangs up. *)
LEMMA MapClientClose ==
  ASSUME Good, Good', NEW c \in Clients, ClientClose(c)
  PROVE  MuxStep
  <1>0. TypeOK /\ OneAtATime /\ OneAtATime'
    BY DEF Good, Invariant
  <1>1. /\ peer'[c] = "shut" /\ UNCHANGED <<inbound, pc, chunk, resp>>
        /\ \A d \in Clients \ {c} : Unmoved(d)
    BY <1>0 DEF ClientClose, session, TypeOK, Unmoved
  <1>2. Answers(c)' = << >> /\ Pending(c)' = Pending(c)
    BY <1>1 DEF Answers, Pending
  <1>3. Unread' = [Unread EXCEPT ![c] = << >>]
    BY <1>1, <1>2, MappedExcept
  <1>4. Todo' = Todo
    BY <1>1, <1>2, UnmovedMapped DEF Todo
  <1>5. Served' = Served
    BY <1>0, <1>1, ServedKept DEF Exchanging
  <1>. QED
    BY <1>3, <1>4, <1>5, ToHangUp DEF MuxStep

-----------------------------------------------------------------------------
(* The theorem.                                                            *)

(* Every step is one of Multiplexer or changes none of its variables. *)
LEMMA EveryStepMapped ==
  ASSUME Good, Good', [Next]_vars
  PROVE  MuxStep
  <1>0. pc \in [Clients -> ControlPoints]
    BY DEF Good, Invariant, TypeOK
  <1>1. ASSUME NEW c \in Clients, FeedRequest(c) \/ Connect(c) \/ Send(c) PROVE MuxStep
    <2>1. UNCHANGED <<peer, inbound, outbound, chunk, resp>>
      BY <1>1 DEF FeedRequest, Connect, Send, wires
    <2>2. /\ pc'[c] # "deliver" /\ pc[c] # "deliver"
          /\ Exchanging(c)' <=> Exchanging(c)
          /\ \A d \in Clients \ {c} : pc'[d] = pc[d]
      BY <1>0, <1>1 DEF FeedRequest, Connect, Send, Exchanging
    <2>3. \A d \in Clients : /\ pc'[d] = "deliver" <=> pc[d] = "deliver"
                             /\ Exchanging(d)' <=> Exchanging(d)
      BY <2>2 DEF Exchanging
    <2>. QED
      BY <2>1, <2>3, MapQuiet
  <1>2. ASSUME NEW c \in Clients, ConnectFail(c) \/ SendFail(c) \/ AwaitFail(c) PROVE MuxStep
    BY <1>2, MapFail DEF ConnectFail, SendFail, AwaitFail, Exchanging
  <1>3. ASSUME NEW c \in Clients,
               ReadEnd(c) \/ FeedPanic(c) \/ AwaitPanic(c) \/ DeliverGone(c)
        PROVE  MuxStep
    BY <1>3, MapEnd DEF ReadEnd, FeedPanic, AwaitPanic, DeliverGone
  <1>4. ASSUME \/ \E c \in Clients : AwaitGap(c)
               \/ InverterAnswer \/ InverterIgnore \/ InverterClose \/ UNCHANGED vars
        PROVE  MuxStep
    <2>1. UNCHANGED <<peer, inbound, outbound, chunk, resp, pc>>
      BY <1>4 DEF AwaitGap, InverterAnswer, InverterIgnore, InverterClose, wires, session, vars
    <2>. QED
      BY <2>1, MapQuiet DEF Exchanging
  <1>. QED
    BY <1>1, <1>2, <1>3, <1>4, MapAccept, MapRead, MapDeliver, MapAcquire, MapAwaitReply,
       MapDesync, MapClientSend, MapClientTake, MapClientClose
    DEF Next, Session

(* Nothing is pending, served or answered at first. *)
LEMMA InitMapped == Init => Mux!Init /\ Cleared
  <1>. SUFFICES ASSUME Init
                PROVE  Mux!Init /\ Cleared
    OBVIOUS
  <1>1. \A c \in Clients : Pending(c) = << >> /\ Answers(c) = << >>
    <2>1. << >> \o << >> = << >>
      OBVIOUS
    <2>. QED
      BY <2>1 DEF Init, Pending, Answers
  <1>2. Served = Nobody
    BY DEF Init, Served, Exchanging
  <1>3. Cleared
    BY DEF Init, Cleared
  <1>. QED
    BY <1>1, <1>2, <1>3 DEF Mux!Init

(* Multiplexer's promise is kept, if no parser panics on the rest of a      *)
(* reply: whatever else clients, inverter and network do, the proxy serves  *)
(* one request at a time, answers it at most once, to the client that made  *)
(* it and in that client's order, and drops it in silence when the exchange *)
(* fails.                                                                   *)
THEOREM Refinement == ASSUME NoTraps PROVE Spec => ImplementsMultiplexer
  <1>1. Init => Good /\ Mux!Init
    BY InitInvariant, InitMapped DEF Good
  <1>2. Good /\ [Next]_vars => Good'
    BY ClearedStep, TypeStep, LockStep, LinkStep, OwnStep DEF Good, Invariant
  <1>3. Good /\ Good' /\ [Next]_vars => [Mux!Next]_(Mux!vars)
    BY EveryStepMapped DEF MuxStep
  <1>. QED
    BY <1>1, <1>2, <1>3, PTL DEF Spec, ImplementsMultiplexer, Mux!Spec
=============================================================================
