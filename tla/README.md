# A verification project for zeek-websocket-rs

TLA+ models of the Zeek WebSocket client library: the sans-I/O protocol
binding, the tokio service loop over it, the clients of other languages that
add behaviour of their own (C, synchronous and asyncio Python), the conversions of
values that programs of different languages exchange, and who owns what the C API
hands out.  TLC checks them on small instances; TLAPS proves every safety property of
every component for every instance, and that the service, in Rust and inside the C and the
asyncio client, takes the steps of its abstract specification.  Liveness is only model-checked.
Paths below are relative to the repository.

    tlc -workers 2 -config MCService.cfg MCService     # any run of PROJECT.json
    tlapm ServiceProofs.tla                            # any module named *Proofs, Lemmas

## 1. Inventory

| component | source | state | operations | modelled in |
|---|---|---|---|---|
| protocol binding | `src/protocol.rs` | `Binding{state, inbox, outbox}`; after `split` the two queues alone | `new`, `handle_incoming`, `outgoing`, `receive_event`, `publish_event`, `split`; `Inbox::{handle, next_message, next_event}`, `Outbox::{next_data, enqueue, enqueue_event}` | `Protocol`, `Binding`; `BindingProofs` |
| service loop | `src/client.rs` | program point of `serve`, its `Binding`, the channel `rx`, the stream | `new`, `serve`; `Outbox::{send, clone, drop}`; callbacks `connected`, `event`, `error` | `Service`, `BusyService`, `Session`, `ServiceSession`; `ServiceProofs` |
| C client | `bindings/c/zeek-websocket-c/src/lib.rs` | `Client{rt, _service, outbox}`, the spawned task | `zws_client_new/publish/shutdown/free`, the receive and error callbacks | `CClient`; `CProofs` |
| C values | same file | owned values behind pointers | constructors, accessors, `zws_*_free` | who owns what (`CValues`; `CProofs`), numbers (`Numbers`), timespans and timestamps (`TimeValues`); `ScalarProofs` |
| Python sync client | `bindings/python/zeek_websocket/__init__.py`, `src/python.rs` | `_conn`, `_binding` | `__init__`, `publish`, `receive` | `SyncClient`; `SyncClientProofs` |
| Python asyncio client | `src/python/asyncio.rs` | `outbox: Option<Outbox>` behind a PyO3 borrow | `publish`, `disconnect`, `Service.run`, adapter callbacks | `PyAsyncClient`; `PyAsyncClientProofs` |
| Python values | `src/python.rs` | none | `make_value`, `as_record`, type hints | records (`Records`), numbers (`Numbers`); `RecordsProofs`, `ScalarProofs` |
| wire data model | `crates/zeek-websocket-types/src/lib.rs` | none | (de)serialisation of `Value`, `Data`, `Message`, timespans, timestamps | the kind a frame decodes to, `Data` (`Values`), `Numbers`, `TimeValues`; `RecordsProofs`, `ScalarProofs` |
| `ZeekType` derive | `crates/zeek-websocket-derive` | none | generated conversions | `Records`; `RecordsProofs` |
| Node.js binding | `bindings/node/zeek-websocket-node` | a `Binding` | forwards to it; value conversions | the binding (`Protocol`), numbers (`Numbers`), timespans and timestamps (`TimeValues`); `ScalarProofs` |
| `MockServer` | `src/test.rs` | one connection | acknowledges, echoes | no: support for tests; what it does is among what the server of `Service` may do |

How they interact: every client drives one `Binding`.  `Service::serve` owns it
in one task and multiplexes two sources with `tokio::select!`: a bounded mpsc
channel, filled by any number of clones of `Outbox` in other tasks *and in the
callbacks that same task awaits*, and the WebSocket stream.  The C client runs
`serve` on a runtime of its own and calls from foreign threads; the asyncio
client spawns it, and every send, on a shared runtime and awaits them in the Python
event loop, where the callbacks run as coroutines.  The sync Python client has no task: it
flushes the outbox and reads one frame per call.

What is hard: the order of events through channel, outbox and stream; what is
lost when a send fails or either side closes; a callback that waits for the
channel its own task drains; the handshake, which looks at one source only;
a bad frame between good ones; integers that fit at one end and not in the
middle; records whose two ends know different versions of them; a publish blocked on a channel whose receiver
goes away; stopping a runtime with a task in a callback; a first message that is
no ACK.  `PROJECT.json` lists these hazards by line, with the properties that
cover them.  What makes each component correct:

- binding: two FIFO queues; one ACK per subscription; the subscription first;
  `receive_event` never reaches its `unreachable!()` arms.
- service: what `Outbox::send` answered `Ok` to is sent once and in order, and a
  graceful exit loses none of it; every frame gets its callback, in order;
  `serve` ends when it should, however busy either side is; no sender hangs but by a callback
  that waits for room.
- C client: no callback after the client is gone; stopping returns; the end of the
  session and refused publishes are explained.
- asyncio client: events of several tasks leave in the order of the calls; a
  disconnect ends the session; a `publish` comes back; once `run` is over the client is quiet.
- C values: a program that follows the comments neither frees twice nor uses what is gone,
  and leaks only what three of the comments mislead it to abandon.
- sync client: `receive` hands out each message once and in order, without leaving any
  behind once the ACK came; nothing stays unsent between calls.
- values: an event stays an event and a record keeps its fields from one program to
  another; a whole number arrives as it was written or is refused, a real at most one float
  off for every program it passed; timespans are exact or refused; timestamps are off by what their text, a
  local time without offset, implies, and by no more.

## 2. Modules

- **`Protocol`**: the operations of `Binding`, `Inbox` and `Outbox` as actions on
  `state`, `inbox`, `outbox`.  A message is a record of its kind and an opaque
  body; `Data` messages of either shape differ in kind (`event`, `other`).  Every
  operation takes its result as a parameter, so callers bind it in the same step.
- **`Binding`** (extends it): any caller, any order of calls, before and after
  `split`, with histories of what was handed in, handed out and discarded.
- **`Service`** (extends it): `serve` from one await point to the next.  `pc`
  names where it is suspended: `connect`, `subscribe` and `flush` (the two
  `stream.send` loops), `await_ack`, `select`, `closing`, `drain`
  (the `receive_event` loop), `callback` (awaiting the client; `resume` says
  where to go on) and `done`.  The channel is `rx` with `pending[h]`, the event
  holder `h` awaits room for; `holders` are the clones.  `Return` models what
  leaving `serve`, which consumes `self`, drops: the receiver with all it holds,
  and the client with its `Outbox`.
- **`BusyService`** (extends it): the same under a load that never ends.  The histories of
  `Service` are bounded, so its server and publishers fall silent; here a ping may be ready
  whenever `serve` looks at the stream (`PingTraffic`) and an event of a further `Outbox` whenever
  it looks at the channel (`EventTraffic`), of which nothing is recorded but `beat`, which tells
  such a step from none.  Either can keep its branch of the `select` ready forever.  The fairness
  of the service is stated here, and its liveness checked.
- **`Session`**: the abstract specification of the publishing side: offer, send
  in order, leave only when everyone left and everything went out.
  **`ServiceSession`** holds the refinement mapping.
- **`CClient`** (extends `Service`): one C thread, the runtime that is stopped, and
  the cancellation of the task at an await.
- **`PyAsyncClient`** (extends `Service`): the Python object (`Obj`, which has the one
  `Outbox`), the asyncio tasks of the program, the coroutine of a callback, `Service.run`
  and the event loop.  `PublishCall` spawns a send with a clone of the `Outbox`, so
  `Publishers` are `Obj` and the sends, numbered by their event.  `Borrowed` is the borrow
  PyO3 holds while a coroutine lives: exclusive for `publish` (`&mut self`), shared for a
  callback of the base class (`&self`); it is what a second `publish`, a `disconnect` or
  a base-class callback meets.  A cancelled `publish` or `run` leaves what it spawned
  running.  `Service` separates the task's own steps (`Poll`) from the return of a
  callback, so that here the coroutine decides about the latter.
- **`CValues`**: pointers that cross the C API.  Each function is one action of two
  halves: `Heap`, what the code drops and makes, read from the signature and body, and
  `Program`, what the comments tell the caller it passes on and gets.  The properties
  compare the two.  Of `zws_value_as_address`, `_subnet` and `_port` the comment says that the
  value is passed while the signature takes a `const` pointer: a program goes by either
  (`Copies`), and one that goes by the comment abandons the value (`Abandon`).  Pointers into a value, list or event (`views`) are good as long as
  their target was neither dropped nor moved (`intact`).
- **`SyncClient`** (extends `Protocol`): the Python calls over the binding.
- **`Values`**, **`Records`**: a record written by a Rust struct deriving `ZeekType`
  or a Python object (`Make`), sent as an event's argument (`Send`), passed on by
  programs of this library and by Zeek nodes, which may leave the metadata out
  (`Relay`, `ZeekRelay`), and read in either language (`Receive`), or read by Python
  where it was made (`ReadHere`).  A value is a kind and a payload; a field is a
  name, one of two kinds and whether it is optional.  In the chain of `Value::extract` only the
  branches a class instance reaches are modelled.  Of its attributes, a plain `int` becomes a `Real`
  and a `str` that reads as an IP address an `Address` (`ExtractAttribute`); reading calls the declared
  type (`ConvertField`), whose results are told apart as far as the fields are: `str` makes the text `()`
  of an unset value, and what `int` refuses is passed on as it is.
- **`Floats`**: the f64, with a mantissa of a few bits and rounding half to even, as a
  function of integers; `Numbers` and `TimeValues` share it.  `Digits` looks for the number
  of binary digits up to `IntBits + 3`, more than any number of the two modules has.
- **`Numbers`**: a `Count`, `Integer` or `Real` made of a number of Rust, C, Python, Node.js
  or Zeek (`Make`), written to and read from text any number of times (`Send`, `Arrive`) as
  one of two arguments of an event, and read as a type of any language (`Read`).  Numbers
  are counted in halves, so that reals have a fraction.  `Parsed` is `serde_json` as it is
  built here: a float whose digits do not fit a mantissa may come out as a neighbour.
- **`TimeValues`**: timespans and timestamps as numbers of nanoseconds, with i64, f64
  (mantissa, rounding half to even) and the second scaled down: made by Rust, C,
  Node.js or Zeek, written to text and parsed on any host, read through the C or the
  Node.js API.  Where the local offset cannot be determined (`OffsetUnknown`) the sender panics
  and the receiver gets an error.
- **`Journey`** declares the variables that `Numbers` and `TimeValues` have in common, `kind` to say
  which of the two a value belongs to, so that one module can prove about both and one run
  (`MCScalars`) check both.
- **`*Proofs`**: the theorems of the module they are named after, `CProofs` those of `CClient` and
  `CValues`, `ScalarProofs` those of `Numbers` and `TimeValues`; `Lemmas` is what they share (section 4).
- **`MC*`** and the `.cfg` files: TLC instances.

External parts, modelled from how the code uses them: the stream delivers frames
in order; a Close frame is delivered as a message, and the stream ends after it
(tungstenite yields `Message::Close`, then `None`), while sends then fail; `next()`
on a broken connection yields an error once what arrived before it was read; a
broken connection may lose frames not yet read, and a send need not notice it.
`EndModes` also allows a stream that just ends (`"bare"`): a `Stream` may, though
tungstenite mostly reports it as an error.  The server is arbitrary: any frame
(`garbage` stands for whatever fails `Message::try_from`: malformed text,
binary frames), any time, any end.  Dropping tokio's mpsc receiver refuses
waiting and later sends; the receiver sees the end of the channel only when
it is empty and no clone is left.

The map of `PROJECT.json` names the lines of every definition.

## 3. Runs

| run | instance | states | shows |
|---|---|---|---|
| `binding` | two bodies (symmetric), 3 messages in, 2 events out | 975 000 | the queues, the ACK and the panics of the API under any calls |
| `service_safety` | 2 publishers + publishing callbacks, channel of 1, 3 frames of 7 kinds, 3 events | 1.2 million | safety of `serve` |
| `service_live` | 2 publishers, callbacks that do not publish, 2 frames of 3 kinds, 2 events, and endless pings and events that are not recorded | 31 000 | liveness of `serve`, and that it implements `Session` |
| `c_client` | channel of 1, 2 frames of 3 kinds, 2 publishes | 12 000 | safety and liveness of the C API |
| `py_async` | one user task and the callbacks' coroutine, derived class with `connected` alone, channel of 1, 2 frames of 2 kinds, 3 publishes | 133 000 | safety and liveness of the asyncio client |
| `c_values` | 5 boxes (symmetric), arrays of 2, 2 values abandoned | 11 000 | ownership in the C API |
| `sync_client` | 4 frames of 5 kinds, 2 publishes | 101 000 | the sync Python client |
| `records` | 3 names, records of up to 2 fields and all their versions, 2 relays | 281 000 | records and events between Rust and Python |
| `scalars` | u64 and i64 of 7 bits, narrow types of 4, f64 of 5, a second of 10 ns, 3 zones, 2 hops | 2.3 million | integers, reals, timespans and timestamps between all programs |

Three more runs are expected to be violated, each a statement of a comment, doc or
test that the code does not meet (`findings` in `PROJECT.json`):

- `service_second_ack`: `serve` matches the first ACK itself and never hands it to
  its binding, so a second ACK, an error by `protocol.rs:95`, is accepted.
- `records_enum`: a Python object with a `str` attribute `name` becomes an `Enum`, since
  the result of `is_instance` is discarded (`python.rs:116`).
- `sync_receive_waits`: the synchronous `receive` raises `TimeoutError` while a message waits that
  was received already, where `__init__.py:86-88` promises to return it: the constructor
  took the first message for the ACK without looking, and `receive` waits for another frame
  before it looks at the inbox.

**Bounds.** A channel of one makes it full as often as possible; a larger one adds
no branch to the code (only `Len(rx) < OutboxSize` reads it).  Two publishers and
the client's own `Outbox` give every overlap of a waiting send, a clone and
a drop.  Three frames are the fewest for an ACK, a message and a message
after it, or for ping, ACK, message; every kind occurs in every position.  Three
events let one be in the channel, one waiting and one on the wire.  Events are
numbered by call and frames by position, so losing, repeating or swapping any of
them is visible.  For the liveness runs the kinds are those that take different
branches (`error` and `other` follow the paths of `event`, `pong` and `close` that of
`garbage`).  What the bounded histories of `service_live` leave out, a branch of the `select` that is
ready forever, `PingTraffic` and `EventTraffic` add; its properties fail without the fairness of
either branch (`FairnessBiased` is `biased;` in the `select!`).  `c_client` and `py_async` have the same
`select` with bounded traffic only, and so do not show again that neither branch is starved.  In `binding` two bodies are enough to tell two messages apart; three
messages in give two in the inbox while one is skipped.  In `records` three names with
`name` in the middle allow every order of two fields, with and without it.  In
`scalars` an i64 of nanoseconds holds six seconds and a mantissa three, and the units
include one below and one above the second, so that every
i64, every rounding and every overflow of the code is met; the durations are all those of the scale.
Every integer and float of the scale is sent, from below the least to above the
greatest that fits; integers of 7 bits have more digits than a mantissa of 5, so that
numbers that are no float occur among them, and a narrow type is overrun by most of them;
a real of a few bits already has more decimal digits than a mantissa holds.  With two
hops the error of a real adds up once.
In `py_async` three events let one be in the channel while the callback's publish waits
and another is called for; a derived class with some callbacks and without others meets
both kinds of coroutine; an ACK and an event start both.  The stream does not end by
itself there (`EndModes = {}`): what `serve` does then is the same for every client and
is checked by the `service_*` runs, and a disconnect must end `run` without that help.
In `c_values` five boxes hold the most one call touches (two lists and an event made of
them, or two values and their list) and the event lent to a callback; two values abandoned
are enough for one to be there while another call goes wrong.  In `records` an attribute of each
kind that is converted on the way stands for its like, and fields are told apart by name.

**Deadlock** is checked except in `service_safety`: with callbacks that publish the
system really can stop (see section 5).  `Finished`, `CFinished`, `PyFinished` and
`NoClient` stutter where the program is over.

**Fairness** (`BusyService`): the runtime keeps polling the task (`WF` of `BusyTask`, which takes it
that a send to the stream completes or fails: that the server, or the network, reads on); `tokio::select!` without `biased` picks at random among
ready branches (`SF` of each); tokio's semaphore serves waiting senders
in order and wakes them when the receiver goes (`SF` of `SendAccepted`, `WF` of
`SendRefused`).  Callbacks return as far as they do not wait for the channel.
Nothing else is assumed of the server and the network, nor of publishers ever sending
or dropping.  `CClient` adds that a stopped runtime drops the task at one of the awaits
it passes (`SF` of `Cancel`), that the spawned task reports its error, and that a
call returns once it can.  `PyAsyncClient` adds that the Python event loop runs every
coroutine that can go on and that callbacks return unless they await a `publish`;
nothing of what the program publishes, cancels or disconnects.  The other modules are only checked for safety.

## 4. Proofs

`Lemmas` states once what the other modules need: how moving a message over the boundary
between two queues preserves their concatenation (`PopMoves`, `PushMoves`, `PrefixMoves`),
and of numbers the powers of two, how many binary digits a number has, and division.
The powers rest on a theorem about finite sets (a set of `n` has `2 ^ n` subsets), and
what would be an induction takes the least counterexample (`LeastNumber`).
There are no assumptions but those the modules of the models name.

`BindingProofs` proves, for every set `Body` of messages, every `Subs` and every bound
of `Binding`: `TypeCorrect`, `Unreachable`, `Inbound`, `Outbound` and `AckOnce`, the five
properties the run `binding` checks.  `Invariance` carries them: `IInv` is their
conjunction with `InboxFiltered`.  `NeverUnreachable` is not inductive alone: its conclusion
speaks of the front of the inbox, while `receive_event` takes it and exposes the next.
`InboxFiltered` says of *every* message of an unsplit inbox that `handle_incoming` let
it through; it holds because each way in (`handle_incoming`) filters, and
each way out removes a message.  After `split` the bare `Inbox::handle` does not filter, which
is why the statement is limited to the unsplit binding, and why splitting consumes it.

`ServiceProofs` proves, for any publishers, any channel size, callbacks that publish or not,
any server, and every bound, all six invariants `service_safety` checks: `TypeCorrect`,
`NothingLostOnTheWay` (`OutboundConserved`), `GracefulExit`, `SubscribedBeforeEvents`
(`HandshakeFirst`), `ClientSeesStream` (`CallbacksFollowFrames`) and `OkIsDeliberate`.  `IInv`
adds what these need of each await point:

- `Types` (with `Awaited`: who waits for room has an Outbox, the client only in a
  callback; `InboxRead`: the inbox holds frames that were read);
- `Drained`: the outbox is empty at every await but the two that flush it, and the channel
  and the set of holders are empty when `Close` is reached.  This is what makes a
  graceful exit lossless: that nobody sends any more is not enough;
- `Handshake`: before the ACK the subscription is all there is, after it `connected` was
  called.  This, not a test of the code, keeps events behind the handshake;
- `Conserved`: while `serve` runs, no Close frame is on the wire and what was promised is
  wire, outbox and channel in this order;
- `Incoming`: the inbox holds at most the frame just read, and only until its callback.

The argument has two halves that do not meet: `SendingSteps` says what a step can do to the
events on their way (move the head of one queue to the next, let one in, or leave), and
`ReadingSteps` what it can do to the frames (nothing, skip one, report one, hand one to
the binding, take it back).  Each conjunct is preserved by those few kinds of step.

It also proves `SessionSteps`: `Service` starts as a `Session` does and each of its
steps is one of `Session` or changes nothing of it, for every instance; the fairness half of
`ImplementsSession` is checked by `service_live`.

All of this is proved of `Step`, which is a step of `Service` or one of two more that the
clients of other languages add: the task is left at an await (`Interrupted`: the C runtime drops it, or
a callback of the asyncio client panics) and a send starts with a clone of the `Outbox` made for it
(`Spawn`).  `Safe`, which is `IInv` without the set of results `serve` itself returns, is
preserved by each of them.  `CProofs` and `PyAsyncClientProofs` show that every step
of theirs is a `Step` (`CStepIsStep`, `PyStepIsStep`), and so have the theorems of `serve` for
their clients too: `CServeSafe` and `CSessionSteps`, `PyServeSafe` and `PySessionSteps`.  That
a task may be dropped at any await and still loses nothing but a suffix is what these add.

`CProofs` proves the three safety properties of `c_client` for every channel size, server and
bound.  `CutNotClosed` (`NoGoodbye`) needs `Thread`, who holds the `Outbox` when: the C thread
gives it up only once the runtime has stopped the task, or a shutdown timed out, so that
`RxClosed`, which needs that nobody holds one, is out of reach before.  `LeftAlone`
(`QuietWhenGone`) rests on `Stopped`: who waited for the runtime saw the task end, and
a task that is over takes no step.  `Explained` (`ExplainedBeforeStop`) needs to know by what `serve` may have ended:
by one of its results or because it was cancelled (`CResult`); and `Ok`, since it never says goodbye
itself, only because the server's Close frame was read (`CloseFrames`), which was reported like
any undecodable frame (`CloseReported`).

It also proves, for every set of boxes and arrays of any length, both properties of
`c_values`: `LeaksOnlyMisled` (`LeaksOnlyAbandoned`) and `DanglingFree`.  `Ownership` is their conjunction with
the types of the variables and `Forgotten`, that nobody holds an abandoned value, and each needs the others: a new box is in nobody's hands only because what
is held is allocated (`NoDangling`), and what is dropped leaves no owner behind only
because nobody else held it.  `CallKeepsOwnership` is the argument: the code and the
program stay in step whenever the program passes on exactly the boxes that the code
drops, all of them its own, and gets those that are made.  Most calls are
instances of it (`PlainCallKeepsOwnership`); pointers into values, the conversion of a value into an existing list,
the lent event and the three accessors that may leave a value abandoned (`CopiesKeepOwnership`) have a lemma each.

`PyAsyncClientProofs` proves for every set of tasks, derived class, channel and server
`PyTypeCorrect`, `CallOrder` (`PublishOrder`) and `QuietAfterRun`, which no run states: after `run`
returned or raised, nothing is called, sent or accepted.  `CallOrder` is about the exclusive borrow
of `publish`: as long as none was cancelled, at most one send is alive, the last one spawned, and
its coroutine holds the client (`OneSend`), so that all that was accepted before it is older
(`NoneOvertaken`).  A cancelled `publish` lets go of the client and leaves its send behind,
which is why the property excludes it.

`SyncClientProofs` proves, for every server and every bound, what the run `sync_client`
checks: `TypeCorrect`, `InOrder` (`ReceivesInOrder`), `CaughtUp` (`CaughtUpOnceSubscribed`) and
`NothingUnsent` (`PublishFlushes`).  `CaughtUp` needs to know how many messages the inbox holds at
any moment (`Lag`): the one that was taken for the ACK as long as no ACK came, and one more inside a call
of `receive`; an ACK adds none, so the call that reads it catches up.
`Sending` says of the outbox that it holds at most the event of the current call,
younger than all that was sent; `Received` that what was handed out and what is in the
inbox are the frames read, increasing; `InboxFiltered` that none of them is unreachable.

`RecordsProofs` and `ScalarProofs` prove what the runs `records` and `scalars` check, without their bounds: for any names, number of fields and versions of a record, any width of
the integers and of the mantissa, any second, units, hosts and offsets, and any number of hops.

- Records.  `RInv` says what becomes of a record at each station (`Life`): on the wire there
  is the event that was sent, or what a Zeek node leaves of it, the same event without metadata.
  `EventsSurvive` follows, since either is read as an event, and `RecordsEvolve`,
  since the reader's argument is what the writer made.  `ReadByName` needs besides that what
  `Value::extract` and `convert_field` do to an attribute cancels out (`AttributeComesBack`), and that two
  versions give a shared field one kind (`VersionsTellKinds`).  `SortedArrive` needs that the order in which
  `TryFrom<Value>` puts the fields is the declared one: the place of a name in an ascending
  enumeration is its rank, the number of names not after it (`PlaceIsRank`), so there is one such
  enumeration (`OneOrder`).
- Floats.  A number of a mantissa's digits followed by zeros is a float (`FewDigitsExact`) and
  every float is one (`FloatHasFewDigits`), so rounding twice is rounding once (`RoundedOnce`).
  A whole number of up to `2 ^ FloatBits`, divided by another, is rounded to a float with
  the integer part of the exact quotient (`QuotientFloors`): to round up to an integer
  the quotient would have to be closer to it than any quotient of such numbers is
  (`RoundKeepsFloor`).
- Numbers.  `NumberInv` says what every value and text holds; for whole numbers it is
  the number that was made (`WholeNumbersArrive`), and a number that is not finite never
  passes `Decodable` (`FiniteArrive`).  For reals, `Drifting` bounds the floats between the
  real and its origin by the hops: a real parsed once more lies next to the float it was written from,
  so at most that float is added to those in between (`OneHopDrift`, `RealsDriftSlowly`).
- Times.  `StampInv` follows the local time of the first host through the text to the clock of
  the last (`StampsShift`).  `SpanInv` says that the value, and what the text stands for in its unit, is
  the number that was written, as long as no float rounded it; for the Node.js API that
  is `NodeSpanExact`: up to `2 ^ FloatBits` nanoseconds the seconds are the integer part of the
  quotient, and what they leave is exact (`SpansArrive`).

Model-checked only: liveness, which is out of the reach of the prover (`service_live`, and
the liveness properties of `c_client` and `py_async`), with it the fairness
half of `ImplementsSession`; and the three findings, which are counterexamples.

## 5. Not modelled

- Of the values: scalars other than numbers, timespans and timestamps, sets, tables, nested
  records and the text of JSON.  Parse errors of malformed text.
- Of the C API's ownership: `zws_value_as_table` and the functions
  of tables, whose target objects no function of the API makes, and the length of
  strings (pointers to text are not terminated, though `examples/example.c` prints them so).
- `MockServer` and its tests: support for tests of Rust programs.
- Argument checks of `zws_client_new`, which fail before a client exists.
- Calling `zws_client_publish` from a callback: `block_on` inside the runtime panics
  at once.
- Benchmarks and examples.

Disagreements that no run states as a violation:

- `zws_value_as_address`, `_subnet` and `_port` say that they take `self`, and take a `const` pointer
  (`lib.rs:635`, `:649`, `:666`).  `CValues` has programs that go by either; `LeaksOnlyAbandoned` says that
  one which goes by the comment leaks the value, and that this is all that leaks.
- A callback awaiting `Outbox::send` on a full channel blocks the task for good, and with it all other
  senders; even the end of the connection goes unnoticed (`client.rs:33-35`: `serve` ends with the connection;
  `:267`: it "will keep checking" the channel).  `SendsAnswered` is
  about clients whose callbacks do not send for this reason, `service_live` has no others,
  and `service_safety`, which does, does not check for deadlock.
- Dropping the `Outbox` before the ACK does not end `serve`, which looks at the stream only until then
  (`client.rs:187`; `client.rs:268-269` says it "will cause it to terminate"; `HangUp` is about connected clients).
- A clean close during the handshake is returned as an error, since the Close frame arrives as a
  message (`client.rs:188`); undecodable frames in the main loop go to the `error` callback (`client.rs:243`),
  though `client.rs:164-167` lists them among the errors of `serve`; `client.rs:150` speaks of a channel of
  size 1 while the default is 256.
- `zws_client_shutdown` cancels the service task instead of waiting for it (the comment at `lib.rs:205`;
  `NoGoodbye` and `QuietWhenGone` hold all the same); `zws_client_publish` accepts events before the
  connection is up, though `lib.rs:167` speaks of not being connected; a publish can be refused before
  `error_callback` was called, contrary to `lib.rs:196-197` (`RefusalExplained` says "in the end").
- The Node.js bindings ignore the sign of a `BigInt`, so that `-5n` becomes the count 5
  (`zeek-websocket-node/src/lib.rs:159`; `WholeNumbersExact` leaves it out, and the `BigInt` 0, of which
  the source does not say how napi hands it out).
- A `NaN` or an infinity is written as `null` and makes the event undecodable for its receiver, without
  an error for the sender (`OnlyFiniteArrive` states just this).
- `README.md:110` and `:116` show a Python `int` among the arguments of an event as an `Integer`, and
  `README.md:159` and `:171` one among the attributes of an object as a `Count`, where it becomes a `Real`
  (`python.rs:90`, as `README.md:105` says; `Made` and `ExtractAttribute` do so).  A Rust reader with an integer
  field refuses such a record, as it refuses a `str` that reads as an address (`SortedRecordsArrive`).
- An unset value read into a mandatory field of a dataclass is no error: `str` makes the text `()` of it, and
  `int` passes the `()` on (`python.rs:276-279`, `:421`; `MatchesByName` excludes it).
- A Python record whose fields are not declared in the order of their names is permuted over the wire
  (`python.rs:453`), which is why `SortedRecordsArrive` asks for that order.
- A timespan that needs nanoseconds and does not fit an i64 of them, and a timestamp where the local offset is
  not known, panic where they are sent (`zeek-websocket-types/src/lib.rs:498`, "conversion should never fail"), also when they
  are only passed on; `TimeValues` gives them no further hop.
- The asyncio `publish` can be called "from a separate task" only while no other is waiting, for it raises
  then (`asyncio.rs:38`); an exception of a Python callback is discarded, and so is a `NotImplementedError` of
  `error` (`asyncio.rs:110`); cancelling `run` leaves `serve` running.

## 6. Plan

Done: every module of section 2, with its runs, and a proof of every safety property a run checks.

Next: safety theorems that no run states, where a proof tells more than a run: what a timespan
written by a Zeek node in any unit becomes (`SpanInv` leaves it out), how far `NodeSpan` may be
off above `2 ^ FloatBits`, and that an asyncio program is told of every error but the one of a
task it cancelled, as `Explained` says of C.
