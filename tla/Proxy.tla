--------------------------------- MODULE Proxy ---------------------------------
(***************************************************************************)
(* The protocol multiplexer of src/src/proxy.rs: one task per downstream   *)
(* client (serve_client), all sharing one upstream connection behind a     *)
(* FIFO mutex (exchange, exchange_on), with the clients, the inverter and  *)
(* the TCP connections as their environment.                               *)
(*                                                                         *)
(* Bytes, parsing and re-synchronization are in FrameStream; here a frame  *)
(* is one item, with the verdict the parser has on it.                     *)
(***************************************************************************)
EXTENDS Naturals, Sequences

CONSTANTS
  Clients,       \* downstream clients, one connection each at a time
  Nobody,        \* not a client
  Tags,          \* identities of the requests a client has under way
  RequestKinds,  \* what a client's bytes parse to: subset of FrameKinds
  ReplyKinds,    \* what the inverter's bytes parse to: subset of FrameKinds
  TailKinds,     \* what the unread end of a reply looks like: subset of Tails
  Window         \* frames a TCP connection to a client holds unread

(* "ok": a complete frame.  "bad": an error of consume().  "short": the     *)
(* declared length is too short and slicing the payload panics.             *)
FrameKinds == {"ok", "bad", "short"}

(* How the bytes of a reply that a panic left unread look to a new parser.  *)
(* "gap": no start token, passed over.  "stray": a false start that ends in *)
(* an error or never.  "trap": a false start with a length that panics      *)
(* again.  That they hold a whole frame with a matching checksum is left    *)
(* out.                                                                     *)
Tails == {"gap", "stray", "trap"}

ASSUME ProxyAssumption ==
  /\ Nobody \notin Clients
  /\ RequestKinds \subseteq FrameKinds
  /\ ReplyKinds \subseteq FrameKinds
  /\ TailKinds \subseteq Tails
  /\ Window \in Nat \ {0}

VARIABLES
  peer,      \* peer[c]: the client's end of its connection
  inbound,   \* inbound[c]: requests written by c, not read by its session
  outbound,  \* outbound[c]: replies written to c, not read by it
  pc,        \* pc[c]: where the session task of c stands
  chunk,     \* chunk[c]: frames of the last read not processed yet
  resp,      \* resp[c]: the response to write downstream, if any
  waiters,   \* queue of the upstream mutex; the head holds it
  sock,      \* the pooled upstream connection
  up,        \* requests on it, not seen by the inverter
  down,      \* replies on it, not read by the proxy
  rest       \* in front of them, the end of a reply read in part, or "none"

vars ==
  <<peer, inbound, outbound, pc, chunk, resp, waiters, sock, up, down, rest>>

session  == <<pc, chunk, resp>>
upstream == <<sock, up, down, rest>>
wires    == <<peer, inbound, outbound>>

Request == [tag : Tags, kind : FrameKinds]
Item    == [to : Clients, request : Request]
Reply   == [to : Clients, request : Request, kind : FrameKinds]

-----------------------------------------------------------------------------
(* Steps the handlers share.                                               *)

(* Mutant: goes on with the read even when it is used up. *)
ContinueFeeding(c) ==
  /\ chunk' = [chunk EXCEPT ![c] = Tail(@)]
  /\ pc' = [pc EXCEPT ![c] = "feed"]

(* The loop over the bytes of a read goes on behind the frame just done. *)
Continue(c) ==
  /\ chunk' = [chunk EXCEPT ![c] = Tail(@)]
  /\ pc' = [pc EXCEPT ![c] = IF Len(chunk[c]) = 1 THEN "read" ELSE "feed"]

(* The session task returns (or panics): its socket is dropped. *)
End(c) ==
  /\ pc' = [pc EXCEPT ![c] = "none"]
  /\ chunk' = [chunk EXCEPT ![c] = << >>]
  /\ resp' = [resp EXCEPT ![c] = << >>]
  /\ peer' = [peer EXCEPT ![c] = "none"]
  /\ inbound' = [inbound EXCEPT ![c] = << >>]
  /\ outbound' = [outbound EXCEPT ![c] = << >>]

Release == waiters' = Tail(waiters)

(* Mutant: the lock is held while a reply is written downstream. *)
OwnerDelivered(c) ==
  /\ waiters # << >> /\ Head(waiters) = c
  /\ \A d \in Clients : pc[d] # "deliver"

Owner(c) == waiters # << >> /\ Head(waiters) = c

(* guard.take(): what is still on the old connection is lost. *)
Disconnect ==
  /\ sock' = "none"
  /\ up' = << >>
  /\ down' = << >>
  /\ rest' = "none"

(* Mutant: a failed exchange ends the session. *)
FailEndsSession(c) == End(c) /\ Release

(* exchange() returns an error: no reply, and the session goes on. *)
Fail(c) ==
  /\ Continue(c)
  /\ Release
  /\ UNCHANGED resp
  /\ UNCHANGED wires

-----------------------------------------------------------------------------
(* Proxy::serve                                                            *)

Accept(c) ==
  /\ peer[c] = "none"
  /\ peer' = [peer EXCEPT ![c] = "open"]
  /\ pc' = [pc EXCEPT ![c] = "read"]
  /\ UNCHANGED <<inbound, outbound, chunk, resp, waiters, upstream>>

-----------------------------------------------------------------------------
(* serve_client                                                            *)

(* Mutant: only the first frame of a read is looked at. *)
ReadFirstOnly(c) ==
  /\ pc[c] = "read"
  /\ inbound[c] # << >>
  /\ \E n \in 1..Len(inbound[c]) :
       /\ chunk' = [chunk EXCEPT ![c] = <<Head(inbound[c])>>]
       /\ inbound' = [inbound EXCEPT ![c] = SubSeq(@, n + 1, Len(@))]
  /\ pc' = [pc EXCEPT ![c] = "feed"]
  /\ UNCHANGED <<peer, outbound, resp, waiters, upstream>>

Read(c) ==
  /\ pc[c] = "read"
  /\ inbound[c] # << >>
  /\ \E n \in 1..Len(inbound[c]) :
       /\ chunk' = [chunk EXCEPT ![c] = SubSeq(inbound[c], 1, n)]
       /\ inbound' = [inbound EXCEPT ![c] = SubSeq(@, n + 1, Len(@))]
  /\ pc' = [pc EXCEPT ![c] = "feed"]
  /\ UNCHANGED <<peer, outbound, resp, waiters, upstream>>

(* End of file, or an error when the connection was reset: then what the    *)
(* client wrote before may be lost unread.                                  *)
ReadEnd(c) ==
  /\ pc[c] = "read"
  /\ peer[c] = "shut"
  /\ End(c)
  /\ UNCHANGED <<waiters, upstream>>

FeedRequest(c) ==
  /\ pc[c] = "feed"
  /\ Head(chunk[c]).kind = "ok"
  /\ pc' = [pc EXCEPT ![c] = "lock"]
  /\ waiters' = Append(waiters, c)
  /\ UNCHANGED <<chunk, resp, wires, upstream>>

FeedDesync(c) ==
  /\ pc[c] = "feed"
  /\ Head(chunk[c]).kind = "bad"
  /\ Continue(c)
  /\ UNCHANGED <<resp, waiters, wires, upstream>>

FeedPanic(c) ==
  /\ pc[c] = "feed"
  /\ Head(chunk[c]).kind = "short"
  /\ End(c)
  /\ UNCHANGED <<waiters, upstream>>

(* write_all(&resp), with the lock released: blocks while the client does   *)
(* not read, and may or may not notice that it has gone.                    *)
Deliver(c) ==
  /\ pc[c] = "deliver"
  /\ \/ /\ peer[c] = "open"
        /\ Len(outbound[c]) < Window
        /\ outbound' = [outbound EXCEPT ![c] = @ \o resp[c]]
     \/ /\ peer[c] = "shut"
        /\ UNCHANGED outbound
  /\ resp' = [resp EXCEPT ![c] = << >>]
  /\ Continue(c)
  /\ UNCHANGED <<peer, inbound, waiters, upstream>>

DeliverGone(c) ==
  /\ pc[c] = "deliver"
  /\ peer[c] = "shut"
  /\ End(c)
  /\ UNCHANGED <<waiters, upstream>>

-----------------------------------------------------------------------------
(* exchange and exchange_on, under the mutex                               *)

(* Mutant: the exchange does not wait for the lock. *)
AcquireAtOnce(c) ==
  /\ pc[c] = "lock"
  /\ pc' = [pc EXCEPT ![c] = IF sock = "none" THEN "connect" ELSE "send"]
  /\ UNCHANGED <<chunk, resp, waiters, wires, upstream>>

Acquire(c) ==
  /\ pc[c] = "lock"
  /\ Owner(c)
  /\ pc' = [pc EXCEPT ![c] = IF sock = "none" THEN "connect" ELSE "send"]
  /\ UNCHANGED <<chunk, resp, waiters, wires, upstream>>

Connect(c) ==
  /\ pc[c] = "connect"
  /\ sock' = "live"
  /\ up' = << >>
  /\ down' = << >>
  /\ rest' = "none"
  /\ pc' = [pc EXCEPT ![c] = "send"]
  /\ UNCHANGED <<chunk, resp, waiters, wires>>

ConnectFail(c) ==
  /\ pc[c] = "connect"
  /\ Fail(c)
  /\ UNCHANGED upstream

(* A write to a connection the inverter has closed may still succeed. *)
Send(c) ==
  /\ pc[c] = "send"
  /\ up' = IF sock = "live"
           THEN Append(up, [to |-> c, request |-> Head(chunk[c])]) ELSE up
  /\ pc' = [pc EXCEPT ![c] = "await"]
  /\ UNCHANGED <<chunk, resp, waiters, wires, sock, down, rest>>

SendFail(c) ==
  /\ pc[c] = "send"
  /\ Disconnect
  /\ Fail(c)

(* The loop over read() and consume() up to a complete frame, as one step:  *)
(* every other way to stop in the middle of a reply but the panic drops the *)
(* connection.  The parser stops behind the first frame and the rest of the *)
(* buffer is dropped, in which the last frame may be cut.                   *)
ReadReply ==
  \E n \in 1..Len(down) :
    /\ down' = SubSeq(down, n + 1, Len(down))
    /\ rest' \in {"none"} \cup (IF n > 1 THEN TailKinds ELSE {})

AwaitReply(c) ==
  /\ pc[c] = "await"
  /\ rest = "none"
  /\ down # << >>
  /\ Head(down).kind = "ok"
  /\ ReadReply
  /\ resp' = [resp EXCEPT ![c] = <<Head(down)>>]
  /\ pc' = [pc EXCEPT ![c] = "deliver"]
  /\ Release
  /\ UNCHANGED <<chunk, wires, sock, up>>

(* The parser looks for a start token and passes over what has none. *)
AwaitGap(c) ==
  /\ pc[c] = "await"
  /\ rest = "gap"
  /\ rest' = "none"
  /\ UNCHANGED <<session, waiters, wires, sock, up, down>>

(* Mutant: the connection stays in the pool after a failed exchange. *)
AwaitFailPooled(c) ==
  /\ pc[c] = "await"
  /\ Fail(c)
  /\ UNCHANGED upstream

(* The deadline passes, the connection ends, or the reply does not parse. *)
AwaitFail(c) ==
  /\ pc[c] = "await"
  /\ Disconnect
  /\ Fail(c)

(* The parser panics: the task is gone, its guard is dropped and the        *)
(* connection stays in the pool, with what read() had not returned yet.     *)
ReadTrap ==
  \E n \in (IF rest = "trap" THEN 0 ELSE 1)..Len(down) :
    /\ down' = SubSeq(down, n + 1, Len(down))
    /\ rest' \in {"none"} \cup TailKinds

Trapped ==
  \/ rest = "trap"
  \/ rest = "none" /\ down # << >> /\ Head(down).kind = "short"

AwaitPanic(c) ==
  /\ pc[c] = "await"
  /\ Trapped
  /\ ReadTrap
  /\ End(c)
  /\ Release
  /\ UNCHANGED <<sock, up>>

Session(c) ==
  \/ Read(c) \/ ReadEnd(c) \/ FeedRequest(c) \/ FeedDesync(c) \/ FeedPanic(c)
  \/ Acquire(c) \/ Connect(c) \/ ConnectFail(c) \/ Send(c) \/ SendFail(c)
  \/ AwaitReply(c) \/ AwaitGap(c) \/ AwaitFail(c) \/ AwaitPanic(c)
  \/ Deliver(c) \/ DeliverGone(c)

-----------------------------------------------------------------------------
(* The environment: clients and inverter (external).                       *)

(* Tags only tell apart what is under way, so one may be used again later. *)
UnderWay(c) ==
  {inbound[c][i].tag : i \in 1..Len(inbound[c])}
    \cup {chunk[c][i].tag : i \in 1..Len(chunk[c])}
    \cup {outbound[c][i].request.tag : i \in 1..Len(outbound[c])}
    \cup {up[i].request.tag : i \in {j \in 1..Len(up) : up[j].to = c}}
    \cup {down[i].request.tag : i \in {j \in 1..Len(down) : down[j].to = c}}

ClientSend(c) ==
  /\ peer[c] = "open"
  /\ Len(inbound[c]) < Window
  /\ \E t \in Tags \ UnderWay(c), k \in RequestKinds :
       inbound' = [inbound EXCEPT ![c] = Append(@, [tag |-> t, kind |-> k])]
  /\ UNCHANGED <<peer, outbound, session, waiters, upstream>>

ClientTake(c) ==
  /\ outbound[c] # << >>
  /\ outbound' = [outbound EXCEPT ![c] = Tail(@)]
  /\ UNCHANGED <<peer, inbound, session, waiters, upstream>>

ClientClose(c) ==
  /\ peer[c] = "open"
  /\ peer' = [peer EXCEPT ![c] = "shut"]
  /\ outbound' = [outbound EXCEPT ![c] = << >>]
  /\ UNCHANGED <<inbound, session, waiters, upstream>>

InverterAnswer ==
  /\ sock = "live" /\ up # << >>
  /\ up' = Tail(up)
  /\ \E k \in ReplyKinds :
       down' = Append(down, [to |-> Head(up).to, request |-> Head(up).request,
                             kind |-> k])
  /\ UNCHANGED <<wires, session, waiters, sock, rest>>

InverterIgnore ==
  /\ sock = "live" /\ up # << >>
  /\ up' = Tail(up)
  /\ UNCHANGED <<wires, session, waiters, sock, down, rest>>

(* Closed or reset: replies already sent may be lost with a reset. *)
InverterClose ==
  /\ sock = "live"
  /\ sock' = "dead"
  /\ up' = << >>
  /\ \/ UNCHANGED <<down, rest>>
     \/ down' = << >> /\ rest' = "none"
  /\ UNCHANGED <<wires, session, waiters>>

Init ==
  /\ peer = [c \in Clients |-> "none"]
  /\ inbound = [c \in Clients |-> << >>]
  /\ outbound = [c \in Clients |-> << >>]
  /\ pc = [c \in Clients |-> "none"]
  /\ chunk = [c \in Clients |-> << >>]
  /\ resp = [c \in Clients |-> << >>]
  /\ waiters = << >>
  /\ sock = "none"
  /\ up = << >>
  /\ down = << >>
  /\ rest = "none"

Next ==
  \/ \E c \in Clients :
       Accept(c) \/ Session(c) \/ ClientSend(c) \/ ClientTake(c) \/ ClientClose(c)
  \/ InverterAnswer \/ InverterIgnore \/ InverterClose

Spec == Init /\ [][Next]_vars

(* The runtime polls every task that can go on; the timeouts of exchange_on *)
(* and the operating system's for connecting end every wait for the         *)
(* inverter.  Nothing is assumed of clients and inverter.                   *)
FairSpec == Spec /\ \A c \in Clients : WF_vars(Session(c))

-----------------------------------------------------------------------------
(* Properties.                                                             *)

ControlPoints ==
  {"none", "read", "feed", "lock", "connect", "send", "await", "deliver"}

(* A session works on the head of its chunk, has a response in hand exactly *)
(* when it is about to write it, and exists as long as its connection.      *)
InPlace(c) ==
  /\ peer[c] = "none" <=> pc[c] = "none"
  /\ chunk[c] = << >> <=> pc[c] \in {"none", "read"}
  /\ Len(resp[c]) = IF pc[c] = "deliver" THEN 1 ELSE 0

(* Types, and what the control points of serve_client and exchange mean for *)
(* the other variables.                                                     *)
TypeOK ==
  /\ peer \in [Clients -> {"none", "open", "shut"}]
  /\ inbound \in [Clients -> Seq(Request)]
  /\ outbound \in [Clients -> Seq(Reply)]
  /\ pc \in [Clients -> ControlPoints]
  /\ chunk \in [Clients -> Seq(Request)]
  /\ resp \in [Clients -> Seq(Reply)]
  /\ waiters \in Seq(Clients)
  /\ sock \in {"none", "live", "dead"}
  /\ up \in Seq(Item)
  /\ down \in Seq(Reply)
  /\ rest \in TailKinds \cup {"none"}
  /\ \A c \in Clients : InPlace(c)

Exchanging(c) == pc[c] \in {"connect", "send", "await"}

(* The mutex of exchange(): the sessions that wait for the upstream         *)
(* connection or use it are the ones in its queue, each once, and only the  *)
(* head uses it, so no two exchanges overlap.                               *)
OneAtATime ==
  /\ \A c \in Clients :
       /\ Exchanging(c) => Owner(c)
       /\ Exchanging(c) \/ pc[c] = "lock" <=>
            \E i \in 1..Len(waiters) : waiters[i] = c
  /\ \A i, j \in 1..Len(waiters) : waiters[i] = waiters[j] => i = j

Belongs(item) ==
  /\ pc[item.to] = "await"
  /\ item.request = Head(chunk[item.to])

(* A request, or a whole reply, in flight on the pooled connection belongs  *)
(* to the exchange in progress: the next client cannot read an answer that  *)
(* was meant for another request.  What a panic of exchange_on's parser     *)
(* left of a reply is not counted.  Under NoTraps: where such a leftover    *)
(* makes the next parser panic, that one leaves a whole reply.              *)
NoTraps == "trap" \notin TailKinds

CleanLink ==
  /\ Len(up) + Len(down) <= 1
  /\ \A i \in 1..Len(up) : Belongs(up[i])
  /\ \A i \in 1..Len(down) : Belongs(down[i])

(* Request/response pairing, which the header of proxy.rs has of "one       *)
(* exchange per lock hold": the response a session writes downstream        *)
(* answers the request it forwarded, and what a client finds on its         *)
(* connection answers requests of its own.  Under NoTraps.                  *)
OwnReply ==
  \A c \in Clients :
    /\ pc[c] = "deliver" =>
         Head(resp[c]).to = c /\ Head(resp[c]).request = Head(chunk[c])
    /\ \A i \in 1..Len(outbound[c]) : outbound[c][i].to = c

(* A failure upstream never costs a client its session (the comment in      *)
(* serve_client and the test upstream_failure_keeps_downstream_session_open): *)
(* a session ends because its client hung up, or because bytes of that      *)
(* session or of its inverter reply made the parser panic.                  *)
Panics(c) ==
  \/ pc[c] = "feed" /\ Head(chunk[c]).kind = "short"
  \/ pc[c] = "await" /\ Trapped

SessionSurvives ==
  [][\A c \in Clients :
       pc[c] # "none" /\ pc'[c] = "none" => peer[c] = "shut" \/ Panics(c)]_vars

(* The proxy does what Multiplexer promises: a frame leaves the client's    *)
(* list when its exchange is over, an answer counts from then on.           *)
Pending(c) ==
  (IF pc[c] = "deliver" THEN Tail(chunk[c]) ELSE chunk[c]) \o inbound[c]

Answers(c) ==
  LET replies == outbound[c] \o resp[c]
  IN  IF peer[c] # "open" THEN << >>
      ELSE [i \in 1..Len(replies) |->
              [to |-> replies[i].to, request |-> replies[i].request]]

Served == IF \E c \in Clients : Exchanging(c)
          THEN CHOOSE c \in Clients : Exchanging(c) ELSE Nobody

Mux == INSTANCE Multiplexer
  WITH Requests <- Request,
       todo <- [c \in Clients |-> Pending(c)],
       serving <- Served,
       answers <- [c \in Clients |-> Answers(c)]

ImplementsMultiplexer == Mux!Spec

(* Every request a client has written is done with some day, whatever the   *)
(* inverter does and even if other clients never read their replies: only   *)
(* replies of its own that it does not read can hold up a client.           *)
Backlogged(c) == pc[c] = "deliver" /\ Len(outbound[c]) = Window

Awaits(c, t) == \E i \in 1..Len(Pending(c)) : Pending(c)[i].tag = t

EveryRequestEnds ==
  \A c \in Clients, t \in Tags :
    Awaits(c, t) ~> ~Awaits(c, t) \/ Backlogged(c)
=============================================================================
