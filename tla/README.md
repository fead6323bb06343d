# A TLA+ model of interop

interop moves messages (headers and a body) between processes, and makes remote calls
out of them, in Go, Ruby, PHP and JavaScript. This directory models the parts in which
several threads, goroutines, callbacks or processes meet, checks them with TLC on small
instances, and proves their safety properties with TLAPS for every size.

Source paths are relative to the root of the repository. "README" below is the
repository's own `README.md`.

## 1. The system

A **message** has headers and a body. A **conn** reads and writes messages. A **client**
sends requests, messages with an ID header, and matches each response with its request
by ID; a message without an ID is an **event**. A **server** reads requests, runs a
handler for each and writes a response with the request's ID; it may send events at any
time. Each language implements this with its own concurrency:

| Part | State | Operations | What makes it hard |
|---|---|---|---|
| Go client, `interop/rpc_client.go` | `results` (ID to channel) under a mutex, `nextId`, a channel of capacity 1 per call | `SendContext`, `Run` with `onReceiveMessage` | a response races the caller's timeout; a handler of `Run`'s goroutine calls `Send`; a write that fails after delivery |
| Go server, `interop/rpc_server.go`, `bg_runner.go` | `s.err` (capacity 2), a `WaitGroup`, a ctx | `Run`, a goroutine per request, `Send`, `Wait`, `WaitClean` | failed writes fill `s.err`; `WaitClean` against `Add`; responders that outlive `Run` |
| Go pipe, `interop/pipe.go` | an atomic flag, an error, a channel | `Read`, `Write`, `CloseWithError` | `Close` between the check and the send; two closers |
| Go multi server, `rpc_multi_server.go`, `multi_writer.go` | a slice of writers, two `WaitGroup`s | `Run` per conn, `Send`, `Wait`, `WaitClean` | `unsubscribe` moves cells of the array that `Write` walks |
| Wire format, readers and writers of each language | bytes on the stream, the writer's mutex | write in chunks, read headers, then a body by length or by blank line | concurrent writers; a stream that breaks in a message; the differences between languages |
| Message builders | headers | set, add, encode content | a stale or repeated Content-Length |
| Ruby channel and pipe, `lib/interop/channel.rb`, `pipe.rb` | buffer, blocked puts and gets | `<<`, `get`, `close` | order of blocked and buffered objects; closing with threads blocked |
| Ruby RPC, `lib/interop/rpc/` | `@queues`, an I/O thread, a thread per message | `call`, `send`, `run`, `wait` | messages overtake each other; exceptions raised across threads |
| PHP RPC, `php/Interop/RPC/` | `$waiting`, `$responders`, the call stack | `call`, `wait`, `Server::wait` | a handler calls while a call waits; exceptions unwind nested loops |
| JavaScript socket, `js/src/PersistentWebSocket.ts`, `ConstrainedEventTarget/` | ready state, promise of the open socket, listeners | connect, retry, close, dispatch an event | reconnection; close at any time; listeners that close or throw in the middle of `onclose` |
| JavaScript connection and RPC client, `createWebSocketConn.ts`, `Exchange/`, `RpcClient/` | exchange of reads and messages, table of calls, the logger's pending messages | send, read, call, `run` | await before and use after; blobs parsed in any order; one buffer for reads and messages |
| JavaScript dispatchers and messages, `Dispatcher/`, `createMessage.ts`, `createDecoder.ts` | list of routes | subscribe, unsubscribe, dispatch, build, decode | routes that come and go while an event is decoded; content that cannot be decoded |
| Go and Ruby middleware | a pipe or a queue | intercept reads and writes | a relay goroutine that nobody reads from |
| Go and Ruby dispatchers, controllers, content types, examples | lists of routes, registries | register, dispatch | handlers that throw or call back |

What could go wrong, line by line and with the property that covers it, is the list of
hazards in `PROJECT.json`; the parts that are modelled, partly or not, are its
components.

## 2. Modules

| Module | Models | Run by |
|---|---|---|
| `RpcClient` | the Go client | `client`, and in `session` |
| `RpcServer` | the Go server and `bgRunner` | `server`, `server_write_errors`, and in `session` |
| `RpcSession` | client and server connected: the client, and an `INSTANCE` of the server that is its peer | `session`, `countdown` |
| `Fifo` | what a pipe promises: an abstract queue that is closed with one error | refined by `Pipe` |
| `Pipe` | the Go pipe | `pipe` |
| `MultiWriter`, `RpcMultiServer` | the Go multi writer, and the server that extends it | `multi` |
| `Wire` | message builders, writers and readers of all four languages | `wire` |
| `RubyChannel`, `RubyRpc` | the Ruby channel as operators on a value; client and server on two pipes | `ruby`, `ruby_buffered` |
| `PhpRpc` | the PHP client and server | `php` |
| `JsMessage` | JavaScript's guards, builders, content types and decoders, as operators | in `js` |
| `JsSocket` | the reconnecting web socket and its event target | in `js` |
| `JsDispatcher` | the dispatcher of events with its routes | in `js` |
| `JsClient` | the composition: the connection, the logger and the RPC client on `JsSocket` and `JsDispatcher` | `js` |
| `MC*` | constants for TLC | |
| `*Proofs` | theorems (section 5) | |

### How state and actions correspond to the code

**RpcClient.** `SendContext` is cut where another goroutine can see a difference:
`Register` (ID and entry, under the mutex), `WriteDelivers` and `WriteReturns` (the peer
may answer before `Write` returns), `WriteFails`, `ReleaseAfterError`,
`CloseAfterError`, then `Receive` or `CtxDone` and `ReleaseAfterExpiry` in the select.
`Run` is `OnReceiveMessage` (release the entry, or start dispatching), `SendResponse`,
`CloseResponse`, `DispatchReturns` and `ReadFails`. `Handlers` are event handlers that
call `Send`, one after the other and in the goroutine of `Run`, which meanwhile reads
nothing. `Expiring` are the callers whose ctx gets done; the default, a `Timeout` of 0 and
`context.Background()`, is to be outside it. The peer is free: it answers what was
delivered late, twice or never. `TornWrites` allows a `Write` that reports an error
although the request went out, as a socket may.

**RpcServer.** `run` is the place of `Run` (reading, pushing its error into `s.err`,
popping one, canceling, returned), `handler[p]` that of the goroutine of request `p`
(responding, or waiting for its ctx, writing, reporting an error, counting down).
`sync.WaitGroup` is modelled with its panic: a waiter that wakes up and finds the
counter raised again takes the process down.

**RpcSession.** It extends `RpcClient` with an instance of `RpcServer`, and the streams are
shared: `reqLog` is both what the client delivers and what the server reads, `inLog` what
the server writes and what the client reads. A step is one of either side,
the client closing its stream, or the end of the server's process. That each side's steps are steps of the
other's environment is `ServerIsPeer` and `ClientIsPeer`: what is shown of the two modules
separately holds of them together.

**Pipe.** A channel is a queue of which the first `Cap` messages are buffered and the
others belong to parked senders; closing it makes parked senders panic. `status` of
`Fifo` is mapped to `err` once the channel is closed.

**MultiWriter.** A slice is an array and a length, and arrays stay when `append` moves on
to a larger one, because a `Write` may still walk them. Removing a writer moves one
cell at a time.

**Wire.** A header line, line break included, is one symbol and so is a byte of a body (a
newline, a carriage return, or anything else). `wire` is all that was ever written, and the
reader keeps how much of it it has taken. `Assembled` is the headers that a language's builder ends up
with, `StreamChunks` the writes its writer makes of them, and the reader's loop is an
action per line or per body. Frames of a web socket are read by `ParseBlob`. Values of
headers are numbers, "" or missing; other headers, such as Content-Type, would be read
as Interop-Rpc-Id is.

**RubyRpc.** Each side has an I/O thread that reads from its channel and starts a task
per message; `raised` is an exception that another thread has raised in the I/O thread
and that it has yet to take. `assigned` is whether the constructor has assigned
`@io_thread`.

**PhpRpc.** `frames` is the stack of the single-threaded client, in which `call` and
`wait` read, and handlers run on top of them. An exception unwinds it frame by frame,
and any program frame may catch it.

**JsSocket, JsDispatcher, JsClient.** One action per callback or continuation of an
`await`; what runs without an `await` in between is one action, with the listeners that
it calls. `promises` keeps every promise for an open socket that was ever created, since
a `send` may hold an old one; `close` of an open socket is its assignment to
`readyState`, and `CloseSocket` the `then` on the promise it saw. `onclose` is
`ClosedOpen`, `ClosedForGood` or `ConnectFailed`, by the ready state it reads first;
`dispatchEvent` is part of it, up to a listener that throws. A route is its handler, and
`routes` their order; `Handle` is an iteration of `run` up to the `await` of the decoder,
`Dispatched` the rest. A call is `Call` (the request is being encoded), `Encoded` (the
ID is drawn, the triplet registered, `conn.write` called), the write's own steps
(`WriteLogged`, `Send`, `SendResumes`), and `CallResumes`. `Parsed` is the continuation of
the listener for messages, in any order; `exchange` is `newExchange`'s buffer and side.
What a web page does with all this is the record `page`, chosen in the initial state
from `Pages`: its callers, handlers, listeners, logger and frames.

## 3. Runs

Run one with `tlc -workers 2 -config X.cfg M`; `PROJECT.json` lists which. Each
property is defined at the end of its module, under a comment that states it and names
the code it is about.

| Run | Instance | Shows |
|---|---|---|
| `client` | two callers and two event handlers that call, one of each without a deadline; two IDs, two inbound messages; torn writes | a call returns the first response with its ID and no other (`ResponseIsFirstMatch`); every exit releases its entry (`NoLeakedEntry`); a response is taken for an event only when its call is over (`StrayOnlyWhenLate`); what precedes a response has been dealt with when the call returns (`HandledBeforeReturn`); channels panic only after a torn write (`PanicOnlyIfTorn`); calls with a deadline return (`SendReturns`); `Run` gets to every message and answered calls return, unless an event handler is in a `Send` without a deadline, which deadlocks (`ReadingNotBlocked`, `AnsweredReturns`; section 6) |
| `server` | two requests, one event, up to two failing writes, one goroutine in `WaitCleanContext`, from any moment on | responses and requests correspond one to one (`ResponsesMirrorRequests`); a goroutine that is done has answered (`DoneIsAnswered`); after `WaitClean` nothing runs (`CleanMeansQuiet`); `Run` and `WaitClean` return while fewer than two writes have failed (`RunReturns`, `CleanReturns`) |
| `server_write_errors` | the same, two requests | a **violation**: two failed writes, and `Wait` never returns (section 6) |
| `pipe` | two writers with two messages each, two readers, two closers, a buffer of one | the pipe implements `Fifo` (`ImplementsFifo`); an error is read only after everything acknowledged, and it is the winner's (`ErrAfterAll`); closing releases everybody (`CloseReleases`) |
| `session` | one caller that may give up and call again while its first request is handled, one event | each side is the peer that the other assumes; a call returns what its own request's goroutine wrote (`CallGetsOwnResult`); with a clean exit, calls that reached the server return (`CallsReturn`) |
| `countdown` | one call, one event, no `WaitClean`: the example programs | a **violation**: the client does not exit (section 6) |
| `wire` | two threads, any two of eleven messages, every pair of languages except JavaScript to JavaScript, a stream that breaks at any chunk | framed messages arrive whole and in order, in JavaScript if they have a Content-Length (`FramedReadBack`; section 6); a failed write releases the mutex (`WritersReturn`); no reader waits for bytes that never come (`FramedGetThrough`) |
| `ruby` | two callers, one unusual handler (it sends an event, or raises), pipes closed at any time, no buffer | pipes keep order (`ReadInOrder`); calls get their own responses and return (`CallGetsOwnResponse`, `CallsReturn`); `wait` returns after a close or an exception (`WaitReturns`) |
| `ruby_buffered` | the same with a buffer of one | a **violation** of `ReadInOrder` (section 6) |
| `php` | two routes per message, four calls or waits, two events | `$waiting` is set exactly while a call is on the stack (`WaitingIffCalling`); a response is lost only in a nested loop or after its call has raised (`LostOnlyIfNested`); calls end (`CallsEnd`) |
| `js` | ten pages, one retry, one lost connection | an OPEN socket's promise is that of the latest socket (`OpenIsCurrent`); a listener for one event is called once (`OnceAtMostOnce`); a call settles with what the server made of its own request (`CallGetsOwnResult`), messages are taken in the order they were given (`TakenInOrder`), an event goes to a handler that wants it (`MissedOnlyIfTwice`); writes settle, calls that were sent settle, and closing an open socket ends the client's run (`WritesSettle`, `CallsSettle`, `CloseEndsRun`) |
| `multi` | three conns, one `Send`, one goroutine in `Wait` or `WaitClean`, one request at a time per conn; symmetric in the conns | a `Write` that no `unsubscribe` disturbs reaches every writer exactly once (`UndisturbedReachesAll`); what `Wait` and `WaitClean` promise (`WaitMeansEnded`) |

### Bounds

A race needs two parties, so there are two callers, requests, writers, readers or
threads each; three conns where a middle cell of an array matters. Two inbound messages
are enough for a duplicate response, a response with an event before it, and two
responses in either order. `ErrCap` is 2, as in the code, so two failures fill it. The
buffer of one has all three kinds of cell: free, filled, and a parked sender behind it.
The eleven messages of `wire` are chosen for the branches of the readers: with and
without a length, an empty length, a zero length, a body that looks like a blank line,
no headers, stale and repeated lengths. The pages of `js` each do one thing at a time:
two calls that race; a call through the logger, answered in every way, among malformed
frames; subscriptions that come and go, with a call; events that a guard, a decoder or a
handler refuses; a listener added up to twice and removed; a listener that closes the
socket or throws, before or after that of the connection; and a plain WebSocket with
binary content. They share one run because the initial state chooses among them. Each bound is a constant, named in its module;
the proofs (section 5) do without them.

Deadlock is not checked: every one of these systems stops when its stream is closed and
its calls are over. What has to happen is stated as a liveness property.

### Fairness

Every process that can move does: goroutines, threads and callbacks are run by
schedulers that are fair. Handlers are the program's own code and are assumed to return
or throw; a responder of the Go server may instead wait for its ctx, which only `Run`
cancels. A write returns. Nothing is assumed of a peer, of a caller starting a call, of a stream breaking, of
somebody closing, or of a ctx without a deadline. `RpcClient`, `RpcServer` and `Pipe`
have a fairness condition per goroutine. The other modules have a single one for all
steps that make progress: this assumes less, and where a behaviour has finitely many
such steps the two agree. In `JsClient` a pending connection opens, fails or times out,
which the timer in `connect` guarantees, every continuation that is due runs, and the
server answers what it received; the page owes nothing.

## 4. Abstractions

* A message is its ID and what else a property tells apart. Bodies exist in `Wire` only.
* IDs are numbers. The prefix of a client is the same for all its calls.
* In Go, Ruby and PHP, matchers and routes are a choice of outcome: handled, not handled,
  error. In JavaScript routes are state, and a matcher is the set of classes it matches.
* A body in `JsMessage` is a format and the value that was encoded; decoding it in another
  format throws. The response to a request is an echo of its content, an error, one with
  an empty text, nothing, or garbage.
* `RpcMultiServer` takes the server of a conn at what `RpcServer` shows of it.
* JavaScript's IDs, random per session, do not collide. `maxRetries` is given: if it is not,
  connections are tried for ever, and a write waits for as long.
* Ruby's `Deadlock`, raised in a process of a single thread, does not arise: there is
  always an I/O thread.
* Logging, wording, formatting and the marshalling of content are left out.

## 5. Proofs

Eight modules hold theorems; `tlapm M.tla` checks one. They assume only the named
assumptions on constants (`ClientConstants` and `HandlersAssumption` of `RpcClient`, `ClientConstants` of `JsClient`,
`ServerConstants`, `SessionConstants`, `PipeConstants`, `MultiServerConstants`,
`PhpConstants`, `ChannelConstants`, `RubyConstants`, `SocketConstants`, and
`MessagesAssumption` of `Wire`, which gives messages their type), and are for any
number of callers, calls, messages, requests, failures, waiters, goroutines, threads, conns,
routes and pages, and for headers and bodies of any length. The only other hypothesis is that of `RubyReadsInOrder`, `BufferLimit = 0`, which
is the default of `Channel`; with a buffer it is false (section 6).

**The client** (`RpcClientProofs`, with a lemma per action).
`ClientTypeOK` is inductive on its own. `ClientInvariant` is `TypeOK /\ ClientInv`.
`ResponseIsFirstMatch`, say, is not inductive: that a call returns the first message
with its ID depends on where the ID has been before. `ClientInv` therefore follows an ID
through its life:

1. active callers have distinct IDs, whose calls are undecided (`CallsDistinct`), and
   IDs not drawn yet occur nowhere (`FreshIds`);
2. an entry of `results` belongs to a call that no message has met (`EntriesWait`), so
   the message for which `Run` takes the entry away is the first with its ID
   (`ClaimedIsFirst`), and so are the contents of channels and answers
   (`ContentsMatch`);
3. a channel is closed by one party, and by `Run` only after it has sent on it
   (`ClosedByOwner`); the other party gets there only if a write failed that was
   delivered (`FailedUndelivered`);
4. a delivered request without an entry is over (`LateIsOver`), so what `Run` dispatches
   is an event or late (`StraysLate`), and all that it has passed is handled or handed
   out (`PastHandled`).

The safety properties follow from these without further induction:
`ClientMatchesResponses`, `ClientLeaksNothing`, `ClientStraysAreLate`,
`ClientHandlesInOrder`, `ClientPanicsOnlyIfTorn`, `ClientNeverUnexpectedEOF`.

**The server** (`GoProofs`, first part). `ServerInvariant`
is `TypeOK /\ ServerInv`, proved together because the counter of the `WaitGroup` is a
natural number only if it counts what it should. `RunningCounted` says that it equals
the number of unfinished goroutines, `ErrChCounts` that `s.err` holds an error per
reported failure and that of the read loop, `WrittenOrFailed` that a goroutine past its
write has a response in the stream or a failure, `WokenFindsZero` that after the read
loop nobody raises the counter again. From it: `ServerTypeOK`, `ServerMirrorsRequests`,
`ServerAnswersAll`, `ServerCleanMeansQuiet`, `ServerErrChHasRoom`, and
`ServerPanicsOnlyIfEarly`: `sync.WaitGroup` panics only if `WaitClean` is called while
`Run` still reads, whose run is `server` with `WaitEarly`.

**The session** (`RpcSessionProofs`). A step of the server is one that the client allows its
peer if the stream of responses stays within the client's bound, and the other way round.
`SessionInv` counts: `inLog` holds the events and one message per answered request
(`InLogCounted`), and `reqLog` holds no ID twice (`RequestsDistinct`), so that a request
still to be written finds room. With that, `SessionServerIsPeer` and `SessionClientIsPeer`:
the session implements the specifications of the client and of the server, fairness aside.
What is proved of the client thus holds in the session, such as `SessionHandlesInOrder`.
`ResponsesOwned` says that a response carries the ID of the request that its goroutine was
started for; a call returns the first message with its ID, its ID was delivered once, and
so the call has what its own request's goroutine wrote, `SessionOwnResult`.

**The multi server** (`RpcMultiServerProofs`). Two invariants that do not depend on each
other. `WriterInv`: but for the cell that an `unsubscribe` is about to fill, the slice holds
each subscribed writer once (`SliceHolds`); a `Write` into which no `unsubscribe` fell walks
over cells that hold every writer subscribed all along once, and that `append` does not
touch, whether it moves to a larger array or fills the cell behind (`WalksWhole`). Hence
`UndisturbedWrites`. `WaitInv`: the two `WaitGroup`s count the conns that have not returned
and the goroutines that `Run` leaves behind, and whoever was woken finds the conns of its
time ended; hence `WaitsForAll`.

**The pipe** (`GoProofs`, second part). `PipeInv` adds to the types that one closer at most is past
the flag, that `err` is its error, and that it has closed the channel if that is closed
(`OneCloser`); that a reader which is parked or was told of the end found the channel
empty (`ReadersFoundNone`); that a message on its way is not acknowledged
(`AckedBefore`); and that one which was sent is in the channel or was received, and in
the buffer if it is in the channel and acknowledged (`SentIsSafe`). The last is why
closing loses nothing: close keeps the first `Cap` messages, and those behind them are
not acknowledged. From it `PipeErrAfterAll`, and `PipeImplementsFifo`: every step of the
pipe is a step of `Fifo` under the mapping, or a stutter, for any buffer.

**The PHP client** (`PhpRpcProofs`). `WaitingIffCalling` is not inductive, since a call
that ends restores what the flag was when it began: `StackInv` says that each frame has
kept whether there was a call beneath it. `FlightInv` says that an ID is in one place at
a time, a request, the server's, or a response, and `ExpectedInv` that somebody waits for
it or has given up. A response that reaches nobody is then of a call that has raised, or
of one that is not on top: `PhpWaitingIffCalling`, `PhpLostOnlyIfNested`.

**The Ruby client and server** (`RubyRpcProofs`). `CallsInv` says that a message with an ID,
wherever it is (held by a blocked writer, in a buffer, given to a reader, or with a
task), is about the caller that the ID was registered for; it holds for any buffer, since
matching by ID does not depend on order: `RubyCallsOwnResponse`. `OrderInv` is about the
channel that the server reads: what was read, what its I/O thread is being given and what
the blocked writers hold, one after the other, are the requests as they were written
(`InLine`), and nobody is blocked in front of a parked reader (`Unbuffered`):
`RubyReadsInOrder`.

**The JavaScript client** (`JsClientProofs`). Five invariants:

* `SocketInv` relates the ready state to the current promise, the WebSocket and the timer:
  a connection or a timer is under way, not both, and finds the promise pending; a socket
  that is up is the one the promise was resolved with. It holds until a listener throws.
  Every step of `JsClient` is one of the socket or leaves it alone (`ClientStepsSocket`),
  hence `ClientOpenIsCurrent`.
* `OnceInv` says that the stack holds no registration twice, and that one with `once`,
  and without an equal, has not been called while it is in the stack, and once at most
  afterwards: `ClientOnceAtMostOnce`. `dispatchEvent` walks over a copy of the stack and
  removes from the stack itself. What this leaves is `AfterCalls`, a recursive function of
  the number of listeners that were called: that it exists and unfolds is
  `AfterCallsUnfolds`, and that the listeners it has called for are gone is an induction,
  `AfterCallsFree`. Both rest on `NatSet` and `RecursionExists`, induction and definition
  by recursion in a form that mentions sets and no operators.
* `RoutesInv` says that, until somebody unsubscribes twice, `routes` holds each handler
  whose subscription is on once, and no other: `ClientDispatches`.
* `ExchangeInv` says, while `run` has not ended, that what was given is what was taken
  followed by the buffer, or that the buffer holds the one triplet for which `run` waits
  and everything was taken: `ClientTakesInOrder`.
* `JsCallsInv` follows a call through its write to its response. The ID that a call was
  given is in the table for it, or no longer there (`OwnId`); a response on its way,
  be it in the network, being parsed, in the exchange or with the logger, is what the
  server made of the request that had its ID (`RepliesOwned`); a request is received
  once (`ReceivedOnce`). So the call that is found under the ID of a response is the one
  whose request it answers: `JsCallsOwnResult`.

**The wire format** (`WireProofs`). `WireReadsBack` states `FramedReadBack` of all four
languages at once. The argument has three layers. It is about positions in sequences, since
nothing in `Wire` is recursive.

1. *One message.* `Keep`, by which headers are dropped or replaced, keeps the elements at a
   set of positions, in order (`KeepElements`). From this follows what each builder makes of the
   headers it is given: content gets one Content-Length, the right one, whatever it had, and
   the other headers are what they were (`Meaning` depends on no more than that). The text of a
   message is its headers, a newline, its body and a newline (`TextShape`), and the chunks of
   `StreamChunks` are that text cut in pieces (`StreamPieces`). In a frame, the first double
   line break of a framed message is the one behind its headers, if it has any, so that
   `parseMessageFromBlob` finds what `ReadAs` says (`FrameIsReadAs`); a frame without a header
   line is lost (`HeadlessIsLost`).
2. *The writers.* `Turns` says that the thread that is writing has the mutex and is the last in
   `order`, and that none has failed while the stream is open. So the messages lie on the wire one after the
   other (`Laid`, for some table `off` of where each of them starts), each whole but perhaps
   the last, of which there is a prefix: the chunks that were written. In frames it is simpler:
   the n-th frame is the text of the n-th message (`Frames`).
3. *The readers.* `FramedReadBack` is not inductive, as it says nothing of a message that is
   half read. `Place` does: the reader is somewhere in the message that follows those it has
   returned, in its headers, in its paragraph or at its length, and holds what the text up to
   there says (`InHeaders`, `InParagraph`, `InLength`), or it waits at the end of the wire.
   That a line, a length or a blank line means to it what the writer meant by it is
   `HeaderStep`, `BodyStep` and `LengthStep`: what comes next on the wire is what comes next in
   this message (`MoreToCome`), as nothing of another one is on the wire before it ends.

`WireInv` joins them; `Returned`, its conjunct for streams, is `FramedReadBack` itself. It
claims a place only as long as what was written is framed, and has one spelling of
Content-Length: a message with a wrong length may take the reader anywhere, and from then on
nothing is claimed of it.

The inductive invariants were also checked with TLC on the instances of the runs, in a
form in which the unbounded quantifiers are bounded.

**Only model-checked**: all liveness properties, since fairness and `ENABLED` are out of
reach of the prover (the refinements `ServerIsPeer`, `ClientIsPeer` and `ImplementsFifo`
are of safety specifications and do not need them). Those of `Wire` among them are that
writers return and that no reader waits for bytes that never come.

## 6. Where code and documentation disagree

* `server_write_errors`: `s.err` has room for two errors and is received from only
  after the read loop. Two failed writes fill it; the read loop then blocks on its own
  error, and neither `Wait` nor the ctx of the responders is ever released, although
  `Wait` is documented to wait "for the process to finish running in the background,
  returning its error" (`interop/bg_runner.go:30`).
* `countdown`: README, line 96, says of the example that closing FIFO `a` "causes the
  server to exit, which in turn causes the client to exit". The server's process may
  end before the goroutine of the pending request has written its response, and
  `SendContext` does not notice that `Run` has ended: without a deadline it waits for
  ever.
* `ruby_buffered`: `Channel#get` prefers blocked writers to the buffer, whose objects
  are older, so that a buffered channel is not first in, first out, as
  `spec/interop/channel_spec.rb:21` has it.

Others have no run of their own. They are conditions of properties, which would be false
without them:

* *A Go event handler that calls `Send`.* `Run` dispatches events in its own goroutine
  (`interop/rpc_client.go:38,119`), so that a handler waits for a response that only `Run`
  could read. Without a deadline, which is the default, both wait for ever, and so does
  every other call that has none, answered or not. README, line 86, has handlers
  "processed asynchronously wherever possible, to minimise blocking on IO streams". It is
  the condition `HandlerWaits` of `ReadingNotBlocked` and `AnsweredReturns`. With a deadline
  the handler's call fails, but `Run` goes on.
* *A message without Content-Length, read by JavaScript.* README, line 18: "All headers are
  optional. A double line-break serves as a message terminator in the absense of a
  `Content-Length` header." `parseMessageFromBlob` takes such a body to the end of the frame,
  with the line break that terminates it (`js/src/parseMessageFromBlob.ts:48`); Go, the
  reference (README, line 5), Ruby and PHP do not. This is the last case of `ReadAs`.
* *A message without headers, read by JavaScript.* The same line of README. The one line of
  its headers, which is empty, has no colon, and the parser throws
  (`js/src/parseMessageFromBlob.ts:39`): the frame is `Lost`, the other case of `ReadAs`.
* *`content-length` given to JavaScript.* README, line 50, on headers: "They should be used
  in a case-insensitive way." `createMessage` sets `Content-Length` and leaves a
  `content-length` it was given (`js/src/createMessage.ts:24,38`); both are written, and Go
  and PHP take the first one, Ruby the last. It is the condition `SpelledTwice`.
* *A PHP call in an event handler.* README, line 40, has clients "wait for a message with
  the same ID". The inner loop reads the response of the outer call, and hands it to the event
  routes (`php/Interop/RPC/Client.php:99`). It is the last case of `LostOnlyIfNested`, and the
  condition of `CallsEnd`.
* *A Ruby handler that raises.* README, line 32: "The server should send a response with the
  same ID header." The response after an exception has none, and the call waits for ever; a
  condition of `CallsReturn` in `RubyRpc`.

## 7. Not modelled

* Go's read interceptor is a goroutine that is the only writer and the only closer of a
  pipe, so that what section 5 proves of pipes holds of it; the interceptor itself is the
  program's function, and may do anything. A relay whose reader has gone stays parked in
  the pipe, which nothing in the code promises to avoid. Ruby's holds a mutex for the
  whole of a read, which makes it sequential.
* Registration of routes while messages are dispatched in Go, Ruby and PHP (Go locks its
  list, the others register before they run); controllers; magic.
* JavaScript: the getter `closed` of the RPC client, which `Object.assign` reads once and
  nothing in the code reads again; a RegExp with the `g` flag as a matcher, which keeps
  `lastIndex`; `createMessage` with a Blob alone, which `isHeaders` takes for headers, as
  no caller in `src/` does it. Calls that are still pending when `run` ends stay pending;
  no contract is stated for them.
* Content types and encodings of Go and Ruby, `DuplicateMessage`, PHP's in-memory
  `Buffer`: pure conversions and test support.
* What the loggers, the example programs, `bin/` and the integration tests print, and how
  they open their FIFOs.

## 8. Plan

1. **Contracts between languages.** The conditions in the second list of section 6, each
   as a run of its own.
2. **Go and Ruby dispatchers.** Routes as state, as in `JsDispatcher`.
