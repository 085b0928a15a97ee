# TLA+ models of rctpower-protocol

rctpower-protocol speaks the serial protocol of RCT Power inverters over TCP:
it builds and parses frames, reads and writes objects of the inverter, and
multiplexes many clients onto the one connection an inverter accepts. This
directory holds the models, the TLC runs and the proofs about that code.
Source paths are relative to the repository root (`src/proxy.rs`, ...).

## 1. Inventory

| component | state | operations | what makes it correct |
|---|---|---|---|
| frames (`src/frame.rs`, `src/types.rs`, crc16 of `src/codec.rs`) | `ReceiveFrame`: buffer without escapes, raw wire bytes, escape flag, declared length, header length, command, id, address, data | `make_frame`, `ReceiveFrame::consume` | what was made is what is parsed; errors, never panics; nothing is invented from damaged bytes |
| proxy session (`serve_client`) | parser, the read being processed | feed every byte, forward each complete frame, write the reply, re-sync | frames come out at once, in order, with their wire bytes; one upstream failure does not end the session |
| proxy upstream (`exchange`, `exchange_on`) | `Mutex<Option<TcpStream>>` shared by all sessions | lock, connect, write, read until a frame or the deadline, drop the connection on an error | one exchange at a time; a reply goes to the client whose request it answers; a failed exchange leaves nothing behind |
| synchronous client (`src/client.rs`) | `RefCell<Option<TcpStream>>` | `read`, `write`, `write_and_verify`, their retries | a value returned is current; lost acknowledgements are tolerated; retries are bounded; calls end |
| asynchronous client (`src/async_client.rs`) | `std::sync::Mutex<Option<TcpStream>>`, held across awaits | the same three, cancellable | as above, also when a future is dropped and when several calls overlap |
| value codec (`src/codec.rs`) | none | `encode_for`, `decode_value`, `crc16` | a value written is the value read, whatever width it travels in; nothing is cut that was checked |
| write rules (`src/writable.rs`) | a table | `parse_value`, `validate` | what the inverter ends up with is in the range of its rule and is what was typed |
| registry (`src/registry.rs`, `data/registry.csv`, `tools/generate_registry.py`) | a table, parsed once, replaced by the update procedure | look up by id or name | every entry has the types of its row; an update cannot make a caller panic |
| rct tool (`examples/rct.rs`) | none between runs | `get`, `set` | a `set` that succeeds is what a `get` shows |
| other programs, logging, packaging (`examples/rct_proxy.rs`, `describe_frame`, `Dockerfile`) | none | - | - |

**Interaction.** A session of the proxy turns the bytes of its client into
frames (`ReceiveFrame`), takes the upstream mutex, writes the frame to the
inverter, reads one frame back, releases the mutex and only then writes the
reply to its client. A client object writes one frame to an inverter (or a
proxy) and reads one back. There are no request numbers in the protocol and the
code does not compare object ids: a reply belongs to a request only because it
is the next frame on the same connection. Pairing therefore rests on what is
in flight on a connection when an exchange begins. The rct tool looks a name up
in the registry, parses what was typed by the type found there, validates it by
name and hands it to `Client::write`, where `encode_for` converts it once more.

**Hard behaviour.** Sessions interleave and queue for the connection; clients
pipeline, hang up and stop reading; the inverter is late, silent, closes, or
sends what does not parse; the connection outlives the exchange that failed on
it; bytes are lost or changed and reads split frames anywhere; retries of a
write whose fate is not known; futures dropped half-way. `PROJECT.json` lists
each hazard with its line and the properties that would catch it.

## 2. Modules

| module | models | extends |
|---|---|---|
| `RctFrame` | `make_frame`, `ReceiveFrame::consume`, `crc16`, `Command::from_byte`: pure operators on byte sequences | - |
| `FrameStream` | the byte loop of `serve_client` over a stream of frames with one damaged byte | `RctFrame` |
| `PlantStream` | `FrameStream` with plant frames that have the plant bit, as other programs write them | `FrameStream` |
| `FrameStreamProofs` | theorems about `FrameStream` and the parser | `FrameStream`, `QueueFacts`, `WellFoundedInduction` |
| `Multiplexer` | what the header of `src/proxy.rs` promises (abstract) | - |
| `Proxy` | `serve`, `serve_client`, `exchange`, `exchange_on`, with clients and inverter | - |
| `QueueFacts` | lemmas about sequences used as queues | `TLAPS` |
| `ProxyProofs` | theorems about the safety of `Proxy`, and that it implements `Multiplexer` | `Proxy`, `QueueFacts` |
| `Retry` | the loops of `read`, `write` and `write_and_verify`, the same in both clients: pure operators | - |
| `RetryFacts` | lemmas about the operators of `Retry` | `Retry`, `TLAPS` |
| `Codec` | `DataType`, `DataValue`, `encode_value`, `encode_for`, `to_i64`, `decode_value`: pure operators | - |
| `Registry` | `ObjectGroup::from_string`, `DataType::from_str_name`, `build` and its two maps: pure operators | `Codec` |
| `Writable` | `WRITABLE`, `parse_value`, `validate`: pure operators | `Registry` |
| `RctTool` | `get` and `set` of `examples/rct.rs` with an inverter that answers late or not at all | `Writable` |
| `RctToolProofs` | theorems about `RctTool` | `RctTool`, `TLAPS` |
| `SyncClient` | `src/client.rs` with an inverter that stores objects | `Retry`, `Codec` |
| `SyncClientProofs` | theorems about `SyncClient` | `SyncClient`, `QueueFacts`, `RetryFacts` |
| `AsyncClient` | `src/async_client.rs`: tasks on threads, the mutex, cancellation, the inverter | `Retry` |
| `AsyncClientProofs` | theorems about `AsyncClient` | `AsyncClient`, `QueueFacts`, `RetryFacts` |
| `ProxiedClients` | clients of both kinds behind the proxy, and one object of the inverter | `Retry`; instance of `Multiplexer` |
| `ProxiedClientsProofs` | theorems about `ProxiedClients` | `ProxiedClients`, `QueueFacts`, `RetryFacts`, `FiniteSetTheorems` |
| `MCFrameStream`, `MCProxy`, `MCSyncClient`, `MCAsyncClient`, `MCRctTool`, `MCProxiedClients` | instances for TLC | the above |

Definitions marked *Mutant* are faulty versions of the definition that follows
them. They are in no specification; with one of them in place of its
definition, the property named in `PROJECT.json` fails, which shows that the
run would notice such a bug.

### RctFrame and FrameStream

A byte is a number, a frame a sequence of bytes. `ConsumeByte` is one turn of
the loop of `consume()`; it returns the new parser state and an outcome: more,
complete, one of the three errors, or `"panic"`, where the code slices a
payload that would end before it starts. The plant bit, the width of the length
field, its wrap at 8 and 16 bits, the zero byte that pads the checksum of an
odd number of bytes and the payload that a READ counts but does not carry are
as in the code. `ignore_crc_mismatch` is left out: every caller passes `false`.
`consumed_bytes` and the offsets in the errors are left out: no caller in `src/`
uses them. Arithmetic overflow is that of a release build (it wraps).

`FrameStream` makes a stream from a few messages, damages at most one byte and
reads it in chunks; `FeedByte` is the body of the `for` loop of `serve_client`
without forwarding, which is an append to `out`. `PlantStream` feeds the same
loop with plant frames whose command byte has the plant bit. `make_frame` never
sets it, so without such frames the branches of `consume` for them would not be
taken.

### Proxy

One action per await-free section of the code, so that every point at which a
task can be suspended is a state. `pc[c]` is the control point of the session
of client c:

| `pc` | place in the code |
|---|---|
| `"none"` | no session task |
| `"read"` | `sock.read(&mut buf).await` |
| `"feed"` | in the `for` loop, before the bytes of the next frame |
| `"lock"` | `upstream.lock().await` |
| `"connect"` | `TcpStream::connect(addr).await` |
| `"send"` | `sock.write_all(wire_request)` |
| `"await"` | the read loop of `exchange_on` |
| `"deliver"` | `sock.write_all(&resp).await`, the mutex released |

`waiters` is the mutex: tokio's is fair, its queue first-in first-out, and the
head holds it. `sock`, `up`, `down` are the pooled connection: `"none"` for
`None`, `"dead"` when the inverter has closed it and the proxy has not noticed.
A frame is one item with the verdict of the parser (`"ok"`, `"bad"`: an error,
`"short"`: the panic); `FrameStream` is about how bytes become frames. `AwaitFail` covers
every way `exchange_on` can fail after the write (timeout, end of file, reset,
parse error); a timeout may strike at any moment. When a session task panics
its guard is dropped and the socket stays in the pool (`AwaitPanic`), as in the
code. A write to a client that has gone, or to a connection the inverter has
closed, may succeed or fail.

`rest` is the end of a reply that is on the pooled connection without its
beginning. It comes about in two ways: `consume` panics at the eighth byte of a
frame while `read()` has returned only a part of it (`ReadTrap`), or a read that
holds a whole reply ends inside the next one (`ReadReply`; this needs two
replies in flight). Every other way to stop inside a reply drops the connection.
The parser of the next exchange sees the rest first. `TailKinds` says what it may
look like: bytes without a start token, which are passed over (`"gap"`,
`AwaitGap`), a false start that ends in an error or never (`"stray"`,
`AwaitFail`), or one whose length makes that parser panic too (`"trap"`,
`Trapped`). That a rest holds a whole frame with a matching checksum is left
out.

Clients (external) pipeline up to `Window` requests, take replies or never, hang
up at any time and come back. The inverter (external) answers a request once,
ignores it, or closes, with or without what it had sent. `Tags` only tell
requests of one client apart; a client reuses a tag when nothing with it is
under way.

`Multiplexer` has for each client the list of requests not finished yet, the
one client being served, and the answers it has not read. The refinement
mapping at the end of `Proxy` takes the list from `chunk` and `inbound` (the
request whose reply is about to be written is finished), the client being
served from the control points, the answers from `outbound` and `resp`. An
answer the session has in hand for a client that has hung up is no answer.

### Codec, Registry and Writable

A value is a variant with a number or bytes; a number is its floor and the
ten-thousandths above it, which is what `validate` can tell apart when it counts
the digits that are printed. `Cast` is Rust's `as` between integers: it keeps
the low bytes. `Normalized` is the conversion of `encode_for` and `WireVariant`
the variant it makes; `ReadVariant` is the one `decode_value` makes, the same
but for an ENUM, which is written as a `U8` and read as a `U32`. Errors are
records with a `kind`, the name of the variant of `RctError`, or `"panic"`.

The rows of `registry.csv` are a parameter, because the update procedure
replaces them: `Build` makes both maps, the last row with a key stays. Unknown
types become `"Unknown"`, unknown groups `Others`. `Verdict` is `validate` after its two look-ups,
`ParseValue` is `parse_value` with its `unwrap`.

### RctTool

A behaviour is a series of `get` and `set` commands for one parameter, with
whatever the operator types. `Prepared` follows `main` up to the first frame,
with the checks in their order; `Receive`, `TryAgain` and `TimeOut` are what
`Client` makes of an answer or of none; how many tries there are is in
`SyncClient`. A try that times out does not take its frame back: `late` holds
the writes that may still arrive, `told` the values the object may have as far
as the operator knows.

### Retry and SyncClient

One thread calls `read`, `write` or `write_and_verify`. `step` says where the
call stands: `phase` is the exchange under way (`"exchange"`: the one of a read
or a write; `"first"`, `"rewrite"`, `"readback"`: those of `write_and_verify`),
`attempt` counts the loop of `exchange`, `round` the loop of
`write_and_verify`. `Retry!AfterError` and `Retry!AfterValue` are what the
callers of `try_exchange` do with its result.
`conn` is the pooled connection as in `Proxy`. Only a payload that does not
decode removes it from the pool.

Objects have types. A call takes and returns values, frames and the inverter's
objects hold payloads: `Payload` is `encode_for`, whose failure ends a call
before it has sent anything (`BeginInvalid`), `Decode` is `decode_value`.
Whether an answer is `PayloadTooShort` follows from its bytes.

The inverter (external) keeps a payload for each object and answers a request
with what the object then holds. It keeps an ENUM in as many bytes as it sends,
whatever it is sent (`Kept`). `Faults` selects what else it may do: apply a
write and not answer it, keep its value and answer with that, ignore, close,
refuse connections, not read until a write times out, send answers that are garbled,
empty or cut or make the parser panic, and be later than the timeout. A write
that times out (`SendFail`) leaves the connection in the pool with a part of a
frame on it; a request behind that part may be ignored. An answer is one item:
where the parser stops inside one, what `read()` had not returned of it is taken to
have no start token, so that the next exchange passes over it. The history variables `seen`
(the payloads the object of the call has held since the call began), `frames`
(frames the call wrote) and `smooth` (nothing but acknowledgements of writes
was lost) are for the properties only. The delay between retries is no state.

### AsyncClient

A call is made by a task, and a task stays on its thread, since the guard of a
`std::sync::Mutex` is not `Send`. `pc[t]` is `"lock"` before `conn.lock()` (a
retry sleeps there), `"blocked"` inside it, and `"connect"`, `"send"`,
`"await"` at the awaits made with the guard held. While a task is in `"blocked"`
no task of its thread takes a step (`Runs`). Every error after the connection is
there takes it out of the pool (`Drop`), unlike in the synchronous client. `Cancel`
drops the future at an await: the guard is released, the connection stays;
`torn` records that an exchange was under way on it, which at `"send"` may or may
not have written a part of its frame. `AwaitPanic` poisons the
mutex, after which every call panics in `expect`, so that what the panic left on
the connection is never read. A thread survives the panic
of a task and a cancelled task, as on a `LocalSet`. An answer arrives in one
piece, so the timeout of one read is the timeout of the exchange. Payloads are
as in `SyncClient` and abstracted here: a value stands for its bytes.

### ProxiedClients

What the clients and the proxy do together. A client is a call with its `step`
(`Retry`) and a numbered connection; every connection is a session of the
proxy, which does what `Multiplexer` allows (`Mux!Submit`, `Begin`, `Answer`,
`Fail`, `End`): `Proxy` is shown to implement that module by `proxy_safety` and
the theorem `Refinement`, both without traps (`NoTraps`), and this holds here
as well.
An answer carries what the inverter read (`readings`, beside the answers of
`Multiplexer`). After a timeout an asynchronous client hangs up and a
synchronous one (`Keep`) stays, as in the code. A session whose client has hung
up may still execute what it was sent, or end. `Abandon` is the failed exchange
of the proxy: its connection goes, and a write the inverter has not executed
stays in `limbo`, from where it may be executed at any later time. `credit`
counts the writes of a client that were sent and not executed.

## 3. Runs

| run | result | bounds | shows |
|---|---|---|---|
| `frame_stream` | holds | 3 frames out of 3 messages, one byte flipped to a token or a small number, dropped or doubled at every position; reads of 7 and 16 bytes | `OnlySentFrames`, `PromptDelivery`, `FlipCostsOneFrame` |
| `plant_bit` | violated | one plant frame with the plant bit, no damage | `consume` loses the bit and never completes the frame |
| `short_length` | violated | one byte flipped to 3 | `consume` panics on a declared length of 3 |
| `proxy_safety` | holds | 2 clients, 2 tags, window 2, all kinds of frames, rests without traps | mutual exclusion, pairing, quiet connection, sessions survive, refinement of `Multiplexer` |
| `proxy_live` | holds | 2 clients, 2 tags, window 1 | `EveryRequestEnds` |
| `sync_client` | holds | an ENUM and a BOOL object, values in variants that compare equal after a read-back and that do not, 3 tries, all faults but late answers | `AnswerIsCurrent`, `LostAckTolerated`, `RetryBudget`, `CallsEnd` |
| `async_client` | holds | 2 tasks, on one thread and on two, one call each, 2 objects, 2 values, one try; late answers, stalled writes, cancellation, panics, closing | `CleanWhenFree`, `AnswerIsCurrent`, `CallsEnd` |
| `sync_stale` | violated | late answers only | a late answer answers the next call |
| `sync_reconnect` | violated | closing only | a closed connection is never replaced |
| `verify_enum` | violated | lost acknowledgements only | an ENUM that was stored is reported as a timeout |
| `rct_tool` | holds | 8 names, 21 inputs at the edges of rules and widths, the shipped rows of 7 objects and 7 other registries, one `set` whose fate is open | `HeldInRange`, `SetsWhatWasTyped`, `GetShowsWhatSetShowed`, `NeverPanics` |
| `end_to_end` | holds | one client of each kind, 3 calls in all, 3 connections each, 2 values, one try | `AnswerIsCurrent`, `OwnWrite`, `ExecutedOnce` |

**Why the bounds are enough.** The messages of `frame_stream` have a start and
an escape token in an id and in a payload, 8 and 16 bit lengths, no payload and
some, and odd and even checksum inputs; three frames put one before and one
behind the damaged one; reads of 7 bytes end inside headers, escapes and
checksums, reads of 16 hold the end of one frame and the start of the next.
Two clients make a conflict and a window of 2 a pipeline with a
request behind a failed one; the exchange looks at no more than one frame. The
theorems of section 4 remove these bounds for the safety properties of the proxy, of
the clients and of the rct tool, for the refinement, and for what `frame_stream`
checks but `OnlySentFrames` of a stream damaged anyhow. With
window 1 and two tags a client in `proxy_live` can leave its reply unread and ask again, so
its session blocks in `write_all`. Two objects are needed for an answer to
belong to the wrong one, values beside those held at first for a refusal to be seen, two
retries for the second round with its rewrite and a second attempt inside a
read-back, three for a round in the middle. The types of the two objects are those of the writable objects
whose values are not what `decode_value` returns: an ENUM, and a BOOL to which
a `U16` is given, which `encode_for` refuses. `rct_tool` has a value on and one
beyond the bounds of rules and of integer widths, and types that no
writable object has today; one open `set` and one late write make two values
the object may have, more would only repeat that. In `end_to_end` a client that
keeps its session and one that does not meet; `write_and_verify` with one try
has a write and a read-back, so a reply can be left over inside a call and
between two; three calls in all let one client go on after the other has left
something behind. The values are interchangeable, which `SYMMETRY` uses. In `async_client` one call meets what the call of the other task left
behind; `write_and_verify` has two exchanges between which the other task may
take the mutex. More retries repeat that, and are in `sync_client`.

`frame_stream`, `plant_bit` and `short_length` say
`CHECK_DEADLOCK FALSE`: the stream ends. So do `async_client` and `end_to_end`, whose calls are bounded by
`CallLimit` (two calls of `async_client` on one thread also do deadlock), and
`sync_stale`, where unread answers fill `LinkLimit`. The other systems never stop.

**What is violated** is what the code does, and is described under `findings` in
`PROJECT.json`: the plant bit, which `consume` does not recognize (and `make_frame`
never sets); the panic on a declared length of 3; the synchronous client that
keeps a connection after an error (late answers, closed connections); and the
ENUM that `write_and_verify` cannot verify. The other runs exclude exactly these:
`frame_stream` has no plant messages and does not ask whether the session
survives a damaged length, `sync_client` has no late answers, does not check
`Reconnects`, and asks in `LostAckTolerated` for values that compare equal after a
read-back (`Comparable`).

**Fairness.** `Proxy!FairSpec` has weak fairness of every session task: the
runtime polls a task whose wait is over, and every wait for the inverter ends,
in `exchange_on` by `tokio::time::timeout`, when connecting by the operating
system's limit. Nothing is assumed of clients or inverter. Weak fairness is
enough for the mutex because its queue is first-in first-out.
`SyncClient!FairSpec` has weak fairness of the calling thread, and of the
inverter handling what it has been sent, because in that run it is never later
than the deadline; when it does not answer, the deadline ends the wait.
`AsyncClient!FairSpec` has the same for every task. std's mutex is not fair: a
call is sure to get it only because the calls of the others come to an end
(`CallLimit`).

**What the properties leave out** is what the code does not provide, although its
own words suggest it. Each of these is reachable in the run or, where a
constant is named, with that constant; the properties say that nothing else
breaks.

* `CleanLink` is about requests and whole replies, not about the `rest` of one: when
  the parser panics in `exchange_on` with a reply only partly read, the mutex is
  free and the end of the reply is on the pooled connection, in spite of "unknown state ->
  reconnect on next request" (`src/proxy.rs:125`). In `proxy_safety` the next
  exchange passes over the rest or fails on it, and no pairing is lost. A rest that starts like
  a frame with a length of 3 makes the next parser panic too and leaves that
  exchange's own reply unread for the client after it: with `TailKinds = {"trap"}` in
  `proxy_safety.cfg` TLC finds `CleanLink` and `OwnReply` violated.
* In `async_client` a call dropped while its exchange is under way leaves its
  connection in the pool (`torn`), and its answer may be taken by the next call, in spite
  of "drop it so the next call reconnects" (`src/async_client.rs:138`). Two
  overlapping calls on one thread block each other for ever (`SelfBlocked`).
* In `rct_tool` an integer that is too wide counts as its low bytes in the width of
  the object's own type, and in no other (`Means`). `parse_value` cuts it before
  `validate` looks, so 260 for `power_mng.soc_strategy`, an ENUM of 0 to 5, is sent
  as 4, in spite of "Values are validated against the rct.py ruleset before
  sending" (`README.md:80`). A `set` that timed out may count later.
* In `end_to_end` a call of a synchronous client that begins with replies still
  owed to its session may get one of those (`Stale`; `sync_stale` shows this of one
  client); inside one call that cannot be harmful, since all its frames are about
  one object.

`end_to_end` and `rct_tool` are about safety only and state no fairness.

## 4. Proofs

Every theorem is about all values of the constants that satisfy the named
assumption of the module (`StreamAssumption`, `ProxyAssumption`, `RetryAssumption`,
`ClientAssumption`, `AsyncAssumption`, `ProxiedAssumption`, `ToolAssumption`).
They say that marks such as `Nobody` and `NoValue` are not one of the things
they mark the absence of, that operations and faults are the known ones, and
that bounds are natural numbers. A theorem that needs more names it in its
statement. `QueueFacts` has the lemmas about `Head`, `Tail` and `Append` that
every connection and buffer needs, `RetryFacts` what `Start`, `Request`,
`AfterError` and `AfterValue` return: a step within the loops, or a result, and
`"Ok"` only out of an answer.

### Proxy

`ProxyProofs`, for any set of clients, tags and kinds of
frames and any window:

| theorem | states |
|---|---|
| `LockHolds` | `TypeOK` and `OneAtATime` |
| `TypeCorrect` | `TypeOK` |
| `MutualExclusion` | `OneAtATime` |
| `SessionsSurviveFailures` | `SessionSurvives` |
| `InvariantHolds` | `Spec => []Invariant`, the inductive invariant, if `NoTraps` |
| `QuietConnection` | `CleanLink`, if `NoTraps` |
| `Pairing` | `OwnReply`, if `NoTraps` |
| `Refinement` | `ImplementsMultiplexer`, if `NoTraps` |

`NoTraps` says that what a panic leaves of a reply does not make the next parser
panic. It is needed: with traps `OwnReply` is false (section 3). What
a panic leaves may well be there: the theorems say that it never costs more than the
exchange that reads it. `LockHolds` and its two corollaries, and
`SessionsSurviveFailures`, need no condition.

The argument. `TypeOK` has beside the types what each control point means
(`InPlace`: the chunk is not empty while its head is worked on, a response is in
hand exactly at `"deliver"`); without it the heads and tails of the other steps
have no meaning. `OneAtATime` is inductive given `TypeOK`: it says that the queue of the mutex is
exactly the set of waiting and exchanging sessions, without repetition, so
`Tail` on release removes the one session that leaves. `CleanLink` needs both:
a send finds the connection quiet because anything in flight would belong to a
session at `"await"`, which would own the mutex as well. It also needs that at
most one item is in flight, or a reply could be left behind by a successful
exchange, and that a panic uses up the one reply there is, but for its rest: a
panic in a rest would leave the reply behind it, which is why it needs `NoTraps`.
`OwnReply` follows from `CleanLink` at `AwaitReply` and is kept by the
other steps. `SessionSurvives` is an action property proved from the types:
of the steps that end a session each has a hang-up or a panic as its
condition.

`Refinement` adds one conjunct, `Cleared`: a client that has hung up has no
replies left to read. With it every step maps to a step of `Multiplexer` or to
a stutter:

| step of `Proxy` | step of `Multiplexer` |
|---|---|
| `ClientSend` | `Submit` |
| `Acquire` | `Begin`: the mutex is free only when nobody is served, by `OneAtATime` |
| `AwaitReply` | `Answer` (a response in hand counts as one) if the client is still there, `Fail` if it has hung up |
| `ConnectFail`, `SendFail`, `AwaitFail` | `Fail` |
| `FeedDesync` | `Skip` |
| `ClientTake`, `ClientClose` | `Take`, `HangUp` |
| `ReadEnd`, `FeedPanic`, `AwaitPanic`, `DeliverGone` | `End` |
| `Accept`, `Read`, `FeedRequest`, `Connect`, `Send`, `Deliver`, `AwaitGap`, the inverter's steps | stutter: a request or an answer moves from one buffer to the next |

That the answer handed out is the one to the head of the list is `CleanLink`,
and that one client at most is served is `OneAtATime`, so the refinement stands
on the invariant.

### SyncClient

`SyncClientProofs`, for any objects, types, inputs and faults, any number
of retries and any `LinkLimit`:

| theorem | states |
|---|---|
| `TypeCorrect` | `TypeOK` |
| `AnswersAreCurrent` | `AnswerIsCurrent`, if `Punctual` and `CutsAreNoticed` |
| `RetriesBounded` | `RetryBudget` |
| `LostAcksTolerated` | `LostAckTolerated`, if `Punctual` |

`TypeOK` needs `CallFits` (a call in progress has a payload) to be inductive:
the request in flight is then one that `Sent` describes, and what the inverter
keeps of it is a payload of its object. `AnswersAreCurrent` rests on `Fresh`:
between exchanges nothing is in flight, during one it is one request or one
answer, about the object of the call. Nearly every error leaves the connection in the
pool, so this holds only because each way an exchange ends has used up what was
in flight, which a late answer breaks: `Punctual` excludes `"late"`, and
`sync_stale` shows that it has to. `CutsAreNoticed` says that a payload that
lost its last byte is empty or does not decode, which is so for the types of a
fixed width when objects hold as many bytes as they have; a STRING cut short
would be taken for another string. `RetriesBounded` rests on `Counted`: `Spent` gives for
every step of a call the frames that can have been written before it, each way
on leads to a step that counts one more, and no step is beyond the budget. It
has no condition on the faults.

`LostAckTolerated` follows from `Tolerated`. While nothing but acknowledgements
was lost, a call is in its first exchange or in a read-back, never in a rewrite, and
in a read-back the object holds what was written. What is on the connection is
then the request, the right answer, or nothing because the acknowledgement of
an applied write is gone. So a read-back decodes to the value given
(`Comparable`) and ends the call, and only a first exchange can use up its
tries, after which the read-back begins.

### AsyncClient

`AsyncClientProofs`, for any tasks on any threads, any objects, values, retries
and faults, late answers, closing and cancellation included:

| theorem | states |
|---|---|
| `InvariantHolds` | `Spec => []Invariant` |
| `TypeCorrect` | `TypeOK` |
| `CleanConnection` | `CleanWhenFree` |
| `AnswersAreCurrent` | `AnswerIsCurrent` |

`Invariant` has four parts. `Guarded`: a task holds the guard exactly at the
control points of an exchange, and none once the mutex is poisoned; that makes
every other part a statement about one task.
`Whole`: unless an exchange was cancelled on the connection (`torn`) or the mutex
is poisoned, there is
something on it only while the holder awaits, and then one request or one
answer, about the object of the holder's call. `Witnessed`: each call has seen what
its object holds now, so an answer made at any time during the call is current.
Unlike in `SyncClient` no condition on lateness is needed, because every error
drops the connection, and with it what was in flight. A panic keeps the
connection, maybe with a part of the answer, but no task gets the mutex after it. The lemmas follow an exchange: taking
the mutex, connecting, sending, and each way out.

### ProxiedClients

`ProxiedClientsProofs`, for any clients of either kind, any values, calls,
retries and connections:

| theorem | states |
|---|---|
| `InvariantHolds` | `Spec => []Invariant` |
| `TypeCorrect` | `TypeOK` |
| `AnswersAreCurrent` | `AnswerIsCurrent` |
| `WritesAreOwn` | `OwnWrite` |
| `WritesExecutedOnce` | `ExecutedOnce` |

`Load(s)` is what session s still has to do for its client. The invariant says
for each client: connections it has not made yet are empty (`Unused`); a client
that hangs up after an error has on its connection at most the request of its
call (`Tidy`); every value on the way to a call that is owed nothing was held during
the call (`Current`), and until its first read-back is the call's own (`Own`).
The first two make "a reply is left over" impossible for an asynchronous client
and name, as `owed`, the one way in which it happens to a synchronous one. A
step of one client leaves the sessions of the others alone (`IdlesGood`), so
each action has to be proved for one client only.

`ExecutedOnce` is a counting argument. `Pending(c)` is the set of places where
a write of c that may still be executed stands: in the list of a session and not yet
executed, or in limbo. `Credited` says that there are no more of them than `credit[c]`. Each
action maps the places after it one to one into those before: a finished
request shifts a list, a failed exchange moves its request to limbo, an
execution uses up one place and one credit. The theorem follows because no
set has fewer than no elements.

### FrameStream

`FrameStreamProofs`, for streams of any number of frames, any damage, any
sizes of the reads, and all messages with `WellFormed`:

| theorem | states |
|---|---|
| `PromptlyDelivered` | `PromptDelivery` |
| `FlipCosts` | `FlipCostsOneFrame` |
| `CleanStream` | without damage, or with a byte flipped in place (`LocalDamage`), `OnlySentFrames` and `ParserNeverPanics` |
| `TypeCorrect` | `TypeOK` |

`WellFormed` is what the code needs to read a frame as it was meant, and it
leaves out exactly what the code does not: plant frames (`plant_bit` shows
one misread), EXTENSION, which `consume` reports as `InvalidCommand`, a READ
with a payload, which its length field counts and the frame does not carry, and
payloads whose length wraps. The messages of the run have it (`MCWellFormed`).

`Pos(m)` gives for each byte of a frame the place on the wire behind it, with
the escape tokens counted. `At(r, m, j, escaping, q)` is the parser after j bytes
of frame m, which were q on the wire: what it has in `buffer` and `raw`, and which
of its fields are known by then. `Parsing` says that it is at such a place, or
new. `ParseStep` takes it through every byte: the next byte of the wire leads to
the next place, and the last one to a complete frame that says what m says, with
the wire bytes of m. It splits into the cases of `consume`: the command byte, the
end of the header, the last byte, any other, and an escape token before any of
them. The invariant `ReadSoFar` says that some p bytes of the stream have been
read, that every whole frame in front of the damage that lies within them was handed on as it was
written (`Good`), and that until the damage the parser is exactly
where the stream is (`Reading`). That a read of several bytes keeps it is
induction over its bytes.

Behind a byte flipped in place two sessions are compared: s, which reads the
damaged stream, and z, which reads it as it was written. In the damaged frame,
s has the wrong bytes but still counts to the right length (`Hurting`); at the last
byte `CrcDetects` makes it refuse the frame, and from there on `Behind` says that
it has the parser of z and what z has handed on, less one frame. `CrcDetects`
says that one wrong byte always changes the checksum, because the XOR of a byte and
each of the eight shifts are one-to-one on 16-bit words; a wrong byte in the
checksum field itself does not match either. The same invariant has this as its
part for a damaged stream (`Local`). The condition of `FlipCostsOneFrame` counts the length
field as it is on the wire, where a length that is a token takes two bytes: a flip
of the second is one of the length.

`TypeOK` needs no such place in the stream: a byte leaves the parser with bytes
in its buffers whatever they are (`FrameByteTyped`), and a complete frame ends it.

The library states induction with an operator as a parameter, which the provers
cannot use. `InductionSet` states it with a set instead, and is proved from the
well-foundedness of `<` on the natural numbers; `Feed`, `Escape`, `Ends`,
`BytesOf` are recursive functions, and what they compute is proved with it.

### RctTool

`RctToolProofs`, for any registry, parameter, inputs, commands and tries:

| theorem | states |
|---|---|
| `NoPanic` | `NeverPanics` |
| `OnlyAllowedHeld` | the object only holds what it held at first or what the inverter keeps of an input that its rule allows |
| `TypeCorrect` | `TypeOK`, if `RegistryFits` |
| `InRangeHeld` | `HeldInRange`, if `RegistryFits`, `HeldFits` and an ENUM has 4 bytes |
| `TypedIsHeld` | `SetsWhatWasTyped`, if `RegistryFits` and an ENUM has 4 bytes |
| `ShownIsTold` | `GetShowsWhatSetShowed`, if `RegistryFits` and an ENUM has 4 bytes |

`RegistryFits` says of the registry what `data/registry.csv` has: a writable
object is read in the type in which it is written, and the range of a rule fits
the integer type of its object and has no decimals there. Without it a `set` may
be told a number that the object cannot hold. `HeldFits`: the object is in range before the
first command. An ENUM is written as one byte and read as four
(`decode_value` refuses any other number), so the inverter has to keep four; with
another number `get` fails. TLC checks both of the instance (`MCFits`).

The invariant `ToolInv` says that what is on its way, or late, is a read or the
frame of an allowed input. `NoPanic` rests on the order of the checks in `main`:
the `unwrap` of `parse_value` is reached only by a name that has been found.
`OnlyAllowedHeld` is the README's "values are validated before sending" as a
fact about the inverter, of the value that `validate` sees and not of what was
typed (section 3). `ValueInv` adds the values: `told` has what was printed
or sent, every late frame carries one of them, an answer on its way back is what
the object holds. The lemmas before it are the arithmetic: for each width, what
`Cast` keeps, that `EncodeValue` and `DecodeValue` undo each other, and that the
conversion of `encode_for` and the inverter's widening of an ENUM keep a number
that its rule allows (`AllowedFacts`). So what is held is in range, is the number
typed or what `parse_value` keeps of it in the type of the object, and is shown as the number that was told.

### Only model-checked

* Liveness: `EveryRequestEnds` and `CallsEnd`. The provers have neither fairness
  (`ENABLED`) nor the induction on what is left to do.
* `OnlySentFrames` of a stream with a byte dropped or doubled, or with a token or
  a length flipped. The parser then takes other bytes for the frame and its checksum,
  and a checksum of 16 bits refuses most of those but not all: this is true of
  the messages of the run, not of every message.

## 5. Not modelled

* Logging (`describe_frame`, `ObjectInfo::enum_str`), the table printed by
  `params`, the arguments of `rct_proxy`: text and printing.
* The content of `registry.csv` and its meta file beyond the rows in
  `MCRctTool`; iterating over the registry.
* Floats that are not finite, and the rounding of floats beyond four decimals:
  a number is the decimal that is printed for it.
* Integers beyond 2^31, and with them negative numbers written to a UINT32: TLC's
  integers end there. No writable object has that type.
* Frames above 251 bytes of payload. `Client::write` of a long `Str` makes one,
  with WRITE and a length of one byte, which overflows (a debug build panics, a
  release build wraps it, as `LengthField` does). No run has such a frame: the
  checksum of 256 bytes, a recursive function, is beyond TLC's stack. `WellFormed`
  excludes it in the theorems.
* In `Proxy`, the rest of a reply that itself holds a whole frame with a matching
  checksum; in `SyncClient`, the rest of an answer with a start token in it: an
  answer is one item there.
* A reply that trickles in byte by byte: the asynchronous client's timeout is
  per read, so such an inverter holds a call as long as it likes.
* Frames nobody asked for (periodic readings): the code would take one for the
  reply to the request under way; the modelled inverter sends none.
* `cfg.retries` of the proxy: unused by the code.

## 6. Plan

1. Done: frames and their stream; `Multiplexer` and `Proxy`, with the proofs of
   its safety; `Retry`, `SyncClient` and `AsyncClient`.
2. Done: `Codec`, `Registry`, `Writable` and `RctTool`; types in `SyncClient`
   and the proofs of its safety; `ProxiedClients`.
3. Done: the proofs that `Proxy` implements `Multiplexer`, of the safety of
   `AsyncClient`, `ProxiedClients` and `RctTool`, of `LostAckTolerated`, and of
   `FrameStream`: undamaged frames, and a byte flipped in place.
4. Left: answers in several pieces in `AsyncClient`, and frames nobody asked for
   in `Proxy`.
