# bsio in TLA+

bsio is a header-only C++17 network library over asio: io_context thread pools,
TCP acceptors, connectors and sessions, and HTTP/WebSocket sessions on top.
This directory holds TLA+ models of its components, TLC configurations that
check them on small instances, and TLAPS proofs of the results that matter most.
Paths below are relative to `src/include/bsio/` unless they start with `src/`.

## 1. Inventory

| component | state | operations | used by |
|---|---|---|---|
| `net/TcpSession.hpp` | socket; `mSending`, two message lists and `mSendingSize` under `mSendGuard`; high-water callback; receive buffer, `mRecvPosted`; three handlers | `startRecv`, `runAfter`, `dispatch`, `setHighWater`, `close`, `shutdown`, `shrinkReceiveBuffer`, `send`; completions of write and receive | builders, HTTP sessions, user code |
| receive buffer (in `TcpSession`) | `asio::streambuf`, `mReceivePos`, `mCurrentTanhXDiff` | grow, move, adjust, shrink | `TcpSession` |
| `net/IoContextThreadPool.hpp`, `net/IoContextThread.hpp`, `net/WrapperIoContext.hpp` | io_contexts, their threads, two levels of mutexes, a work guard per context, the pick index | `start`, `stop`, `pickIoContext`; the run loop; `RunAfter` | everything |
| `net/TcpAcceptor.hpp`, `net/SharedSocket.hpp` | acceptor | `startAccept`, `close`; the accept handler | acceptor builders |
| `net/TcpConnector.hpp` | none of its own; a timer and a socket per attempt | `asyncConnect`; the handlers of timer and connect | connector builders |
| `net/IoContextProvider.hpp`, `net/FixedIoContextProvider.hpp` | a fixed context | pick | acceptor, connector |
| `net/wrapper/*Builder.hpp` | options, collected for an attempt and cleared | `With...`, `start`, `asyncConnect` | user code |
| `net/http/HttpService.hpp`, `net/http/HttpParser.hpp`, `net/wrapper/internal/HttpSessionBuilder.hpp` | parser, message or frame under assembly, user callbacks | parse, dispatch to callbacks, upgrade to WebSocket | HTTP builders |
| `net/http/WebSocketFormat.hpp` | none | frame build, frame extract, handshake | HTTP sessions |
| `net/http/HttpFormat.hpp` | query and header strings | string building | user code |
| `base/Packet.hpp`, `base/endian/Endian.hpp` | a position in a buffer | typed reads and writes, growth | user code, `TcpSession` (the reader of a data handler) |
| `base/WaitGroup.hpp` | counter, mutex, condition variable | `add`, `done`, `wait` with and without a timeout | nothing in the repository |
| `base/crypto/*.hpp` | none | SHA1, Base64 | WebSocket handshake |
| `src/examples/BroadCastServer.cpp`, `BroadCastClient.cpp` | the main loop's list of sessions; a packet on its way | establish, packet handler, broadcast, close | |
| `src/dep/asio-1-16-1`, `net/http/http_parser.h` | vendored | | |

How they interact: an acceptor or connector makes a socket on a context that a
provider picks and *posts* or calls the builder's callback there; the builder
makes a `TcpSession`, whose later life is a sequence of handlers in that
context's queue. Any application thread may call the session. Public operations
go through `asio::dispatch` (inline on a thread of the context, queued from
elsewhere); only `send` works on shared state directly, under `mSendGuard`. User
callbacks run inside the session's handlers and may call it again. A context
may be run by several threads (`threadNum` of the pool, the last argument
of `src/examples/EchoClient.cpp:18`), without a strand.

What is hard, and what makes each component correct:

* **sessions**: `mSending` is a lock handed from thread to queue to socket and
  back; the lists it protects are used without a mutex. One write at a time, no
  lost wakeup, order and exactly-once of messages, byte accounting, one receive
  at a time, one report of a close, and no data after it. A callback that is
  posted, and looked up again when it runs, may be gone by then.
* **receive buffer**: three notions of position (streambuf's pointers,
  `mReceivePos`, capacity) that must agree across grow, move and shrink; unsigned
  differences; memory that asio writes to while user code runs.
* **pool**: two levels of locks, joins while a lock is held, restart after stop.
* **acceptor, connector, builders**: a close or a timeout between any two steps; a
  builder that is used for the next attempt while the last one is under way.
* **HTTP, WebSocket**: callbacks called by a foreign parser, fragmentation of the
  input at any byte, reassembly, and a closing handler inside a handler.
* **packets, broadcast**: unsigned positions that wrap around; a list of sessions
  that belongs to one thread while handlers of the sessions run in others.
* **WaitGroup**: a notification that does not take the mutex.

`PROJECT.json` lists every hazard at its line, with the properties aimed at it.

## 2. Modules

| module | models | proofs |
|---|---|---|
| `SendStream` | abstract: what a session promises to senders | |
| `TcpSession` | `net/TcpSession.hpp` with its threads and its io_context | `TcpSessionProofs`: the send path, the bytes queued, it implements `SendStream`, the receive loop and the close |
| `ReceiveBuffer` | the receive buffer, over the offsets of `asio::basic_streambuf` | `ReceiveBufferProofs` |
| `IoContextThreadPool` | pool, context thread and run loop | `IoContextThreadPoolProofs` |
| `TcpAcceptor` | accept loops and the hand-over to a pool's contexts | `TcpAcceptorProofs` |
| `TcpConnector` | connect attempts with timers | `ConnectorBuilderProofs` |
| `ConnectorBuilder` | extends `TcpConnector` by the builder and the HTTP sessions of its attempts | `ConnectorBuilderProofs` |
| `HttpParser` | `net/http/HttpParser.hpp` and the framing part of `http_parser.h`, as functions | |
| `WebSocketFormat` | frame build and extract, as functions | `HttpSessionProofs` |
| `HttpSession` | extends both: `makeHttpHandlers`, `HttpService` | `HttpSessionProofs` |
| `Packet` | writers and readers, as functions | `BroadCastProofs` |
| `BroadCast` | extends `Packet`: the broadcast server and its clients | `BroadCastProofs` |
| `WaitGroup` | `base/WaitGroup.hpp` | `WaitGroupProofs` |

Modules whose names begin with `MC` hold instances for TLC. Operators whose comment
begins with "Mutant" are forms of an operator that a plausible bug would give
it; no specification uses them.

### TcpSession

A step of a thread is a critical section under `mSendGuard`, one access to shared
state without a lock, or one call into asio; `pc` says where each thread is.
The labels follow the member functions:

| labels | code |
|---|---|
| `enqueue`, `postHighWater` | `send`: the block under the lock, up to the test of the high-water callback; the post of its call. `HighWaterComing` says that a thread holds the lock in between |
| `tryFlush`, `dispatchFlush` | `tryFlush`: its lock, then its dispatch |
| `flush` | `flush`: `async_write` of `mSendingMsgList` |
| `callbacks`, `inCallback`, `release` | `onSendCompleted`: a callback at a time, `clear`, the block under the lock |
| `received`, `inData`, `inEof` | `onRecvCompleted`, and user code called from it |
| `armCheck`, `arm`, `armed` | `startAsyncRecv`: the test of `mRecvPosted`, `async_receive`, the assignment |
| `isOpen`, `close`, `callClosed`, `clearHandlers` | `causeClosed` |
| `shutdown`, `setHighWater`, `inFunctor` | the other dispatched operations |
| `thrown` | the posted lambda called a high-water callback that was withdrawn: the exception leaves `run` and ends the process |

`setHighWater` takes no lock, so it may come between `send`'s test of the callback and the post. (That the two access one `std::function` without
a lock is a data race as well; the model has its two orders, and no torn value.) What throws inside `causeClosed`'s `try`, `mSocket.close()` or the
closed handler, is swallowed and the rest is skipped (`Swallow`, `swallowed`); so is what `shutdown` throws. Where `mSocket.close()` throws, asio has
closed the descriptor nevertheless. All other callbacks of the user are taken not to throw: an exception of theirs leaves the thread's
`run` and ends the process, and there is nothing more to say of the session.

`queue` is asio's handler queue, FIFO, as the default scheduler's; `Dispatch` and
`Post` are asio's. At the labels in `UserLabels`, and in an idle application
thread, user code may call any operation, so that re-entrance from
callbacks is part of every run. `writes` and `receives` are what asio has outstanding; a
close completes them with an error, as `reactive_socket_service_base::close` does.
A write transmits message by message, so that a failed one may have sent part.
The receive buffer is a counter of unread chunks here; its own module has
the detail.

`SendStream` is three sequences, each a prefix of the previous one: messages
accepted, on the wire, confirmed. The mapping is by name: TcpSession keeps the three as
history variables, and `StreamSpec` says that every step of a session is one
of the stream or leaves it alone. They are tied to the program's two lists by the
refinement's invariant (section 4).

### ReceiveBuffer

The streambuf is a record of its offsets, of its vector's capacity (libstdc++'s
growth policy, external), of `mReceivePos` and of the growth index. `prepare`, `commit` and `consume` are
asio's code; `Grow`, `Move`, `Adjust`, `Shrink`, `StartAsyncRecv` and `Handled` the session's. The
operators map one record to the next, which lets a handler be one step:
the data handler may or may not call `startRecv` and `shrinkReceiveBuffer`, and leaves any part of the
buffer unread. `tanh` is a constant table of increments, `GrowBy`; `MCReceiveBuffer`
gives the rounded values of the code's formula for a maximal size of 1024. `GrowthAssumption` says of the
table that its entries are above 0 and lead from the initial size to `max_size`. The code's formula, evaluated in
doubles, gives such a table for every `max_size` tried from 2^10 to 2^52: tanh's steps add up to nearly 1,
and what the conversion to `size_t` cuts off is less than one byte a step, together less than the initial size.

### IoContextThreadPool, TcpAcceptor

`IoContextThreadPool` has a mutex for the pool and one per context; `Stop` takes the
context's and keeps it until `Joined`. A thread that a `start` creates goes through
`WrapperIoContext::run`'s loop until its context is stopped. A stop on one
of the context's own threads ends the process (`std::thread`'s
destructor), which is the state `crashed`.

`TcpAcceptor` lets a close come between `doAccept`'s test of the acceptor and its
`async_accept`. Its contexts are numbered as the pool's round robin counts
them.

### TcpConnector, ConnectorBuilder

`TcpConnector` has a timer and a connect per attempt; the connect's
handler cancels the timer, the timer's leaves the connect alone. An attempt may have no
`failedCallback`: the connect's handler tests for that, the timer's does not,
and calls an empty function (`terminated`). An attempt may be in `throwing`: its `successCallback` throws when it is called, which nothing
catches either. `TerminatedByCallback` says that there is no third way.

`ConnectorBuilder` is one `HttpConnectorBuilder` in the hands of one thread that makes
attempt after attempt without waiting for answers. It keeps what the builder has collected, what
each attempt's success callback captured of it, and the `TcpSession` that each `HttpSession`
holds: `SessionsPaired` is about handlers of one attempt that
reach the session of another. A call of `asyncConnect` throws as long as the builder has no connector (`mConnector`). `HttpConnectorBuilder` has added its
establish handler by then and nothing takes it away, so that a later attempt enters the `HttpSession` of the call that threw too (`threw`), with its own
`TcpSession`; `SessionsPaired` excepts the `HttpSession`s of such calls and says what still holds of them. The other throw, "establishHandlers is
empty", cannot come from an `HttpConnectorBuilder`, which has just added one. A builder without a receive buffer size makes
`TcpSession::Make` throw in the success callback; an attempt of such a builder is in `throwing`.

### HttpParser, WebSocketFormat, HttpSession

`HttpSession` is one connection on a context with one thread. The peer's HTTP bytes are units that a
segment boundary may separate: a piece of a header's field or value, the end of
a header line or of the headers, a byte of a body, the line of a chunk's size. A piece within a token is one unit of
its own, so that `mLastWasValue` and `std::map`'s append matter. `Feed` is
http_parser's callbacks on one unit, `Execute` how far `http_parser_execute` gets: to the end, to
an error, or to an upgrade. Frames come byte by byte: their bytes are those that `wsFrameBuild` writes,
and `wsFrameExtractBuffer` looks for them in what was received. What a peer sends that keeps to the rules of HTTP and
RFC 6455 is stated by `Proper`; the model takes anything. `ProcessHttp` and `DataHandler` are the code's
functions up to the first user callback; `HttpReturn`, `Frame`, `WsReturn` and `FrameAwaited` go on
from there, and `Close` may come in between, or from any other handler.

| variable | code |
|---|---|
| `parser` | `HTTPParser`'s members, and of its `http_parser` the state (`at`), `http_errno` (`error`), flags, content length, `upgrade` |
| `cache` | `mWSCacheFrame`, `mWSFrameType` |
| `pc`, `used` | where `dataHandler` or `eofHandler` is, and the sum of the `frameSize`s or `retlen` |
| `buffer` | the receive buffer's unread bytes, `reader` |
| `destroyed`, `crashed` | a close from a callback resets `mDataHandler` while it runs, and with it the `shared_ptr`s it captured by value; what reads them later may or may not crash |

`WebSocketFormat` takes the number of values of a byte as a constant. The lengths at
which the format changes follow it (125, 2^16, 2^31 and 2^32 for 256 values), so
that TLC meets every format of the length with 32 values and short payloads,
while the theorems are for 256 as well.

What the model shows of this code beside its properties:

* A parser that has completed a message stays completed until it is parsed with again, and it is never
  parsed with again: `ProcessHttp` skips `tryParse` for a completed parser. What comes behind the first
  message of a connection, in a segment of its own, is consumed unread, and the callback is called with
  the old message. If it comes in the same segment, the new message's beginning clears the old one before it was
  reported. `WholeMessages` therefore says what callbacks get, and `OneMessageOneCall` says
  how often for connections that carry one message. A server that keeps a connection alive, as `src/examples/HttpServer.cpp:48-51` does,
  meets the other case: the next request on it is not parsed, and the callback gets the first one again.
* `TcpSession::close` does not reset the eof handler: a message that ends with the
  stream can be reported after the closed callback, if the end of the stream was already in the queue.
* The data and eof handlers hold the `HttpSession`, which holds the `TcpSession` that holds them:
  the data handler is dropped by a close, the eof handler only by an end of stream.
* `wsFrameBuild` writes frames of 2^31 bytes and more that `wsFrameExtractBuffer` never finds
  (`HeadFound` proves both halves).

### Packet, BroadCast, WaitGroup

`Packet` has `size_t` arithmetic modulo a constant. `BroadCast` builds packets with it, field by field, and
reads them back in the server's and the client's packet handlers, whose data arrive in
segments of any length that the receive buffer has room for. The size of the receive buffers (`maxUnread`) is chosen at the start: with a packet that is longer than
they are, the handler finds no whole packet, consumes nothing, and the receive loop ends with "buffer size is zero" (`TcpSession.hpp:246-250`), which
is no step of `Brings`. `PacketReturns` is about the packets that fit. (`BroadCastClient` takes any packet size, and gives its buffers 1024 bytes.) `ServerTurn` and `ClientTurn` are one turn of a handler's `while (true)`, from one saved
position to the next; a handler makes turns until one finds no whole packet, or throws. The server's sessions are streams as `SendStream` and `TcpSession`
specify them. Each context of the programs is run by one thread. (How many it is, is
an argument of the programs; with more of them a session's receive loop may stop, section 5.) The list of sessions belongs to the main loop, to which
everything about it is dispatched.

`WaitGroup` has the mutex, the condition variable (notifications, spurious wakeups, timeouts) and the atomic
counter, in one step for each.

## 3. Runs

| run | instance | shows |
|---|---|---|
| `send` | 1 caller, 2 io threads, 3 messages of sizes 1, 2 and 2, 2 other calls (close, shutdown, a high-water callback set or withdrawn), no eof handler | the send path's invariants, the high-water alert, and when its call throws; and `StreamSpec`, the refinement |
| `recv` | 1 caller, 1 io thread, 2 messages, 3 calls or chunks, fair | the receive loop and the close; nothing accepted stays unconfirmed on an open session (`StreamFairSpec`), a close happens and is reported (`CloseReported`) |
| `two_io_close` | 1 caller, 2 io threads | expected violation, see section 6 |
| `buffer` | maximal size 1024, a shrink at any time | positions, memory window, no exception; until the shrink, no byte lost or invented and room unless full |
| `buffer_garbage` | the same | expected violation, see section 6 |
| `pool` | 2 callers, 2 contexts of 1 thread, 3 calls, 1 handler at a time, which may call start or stop, fair | who owns which threads; quiet after stop; calls return, handlers run |
| `accept` | 1 caller, 2 listening threads, 2 contexts, 3 connections, 2 errors, 2 loops, fair | one accept per loop, delivery on the right context, a close ends the loops |
| `connect` | 2 attempts through one builder, each with or without a failedCallback and with a successCallback that may throw, the connector given at any time, fair | answers and timers, what ends the process, and which session gets which attempt's handlers |
| `http` | HTTP messages, alone, in pairs or before an upgrade; an upgrade and up to 3 frames, masked or not; heads of frames of all length classes | what callbacks get, when and how often |
| `http_gives_up` | the same | expected violation, see section 6 |
| `packets` | 2 clients with packets of different lengths, receive buffers that both fit in or only one, 2 rounds, segments of 3 units or all there is or has room, fair | framing, the list of sessions, one packet of each client on its way, and that it comes back if it fits |
| `wait_group` | 3 threads, 2 announced, fair | when a waiter sleeps on, and that a wait with a timeout ends |

Bounds, and why they are enough to meet the interesting cases:

* three messages in `send`: one in the write, one pending that a swap will take, one
  that comes while the swap is done. `HighWater` is 2, so that one message is above the mark
  or not by its size, and two always are. A caller and two io threads (whose callbacks send as well) are three threads that race for `mSending`.
  `SendingSpec` leaves out the eof handler, which makes no difference where nothing is received. The two io threads are symmetric, and so are the two messages of one size: the code tells them apart nowhere,
  and all that is checked under this symmetry is safety.
* `MaxInputs` counts calls other than `send`, and chunks received; three of them in `recv` are
  enough for a `startRecv` in a data handler, a close, and a chunk still queued. The `recv` instance is
  the smaller one because liveness is checked on it; what its invariants say is proved for any number of callers and messages.
* `MaxUnread` is 1 or 2 in `TcpSession`: a buffer that is empty, partly full and full. In `HttpSession` it is
  22 units: the longest request and the headers and first frames of an upgrade fit in one segment, and a
  segment may end anywhere before.
* `Received` and `Left` in the buffer runs: 100 bytes, or the whole window; 0 or 100 (in `buffer_garbage`, 50)
  left unread, or nothing consumed. 100 is below the initial 128 and no divisor of any capacity. They reach growth to 1024 and every branch of `prepare`.
* Three calls of start or stop: a start, and a stop and a start that race, with two locks each.
* Two accept loops on two threads: both handlers interleave with each other and with a close.
* Two attempts: the second may begin at any point of the first, or follow a call of `asyncConnect` that threw. A call that threw and two attempts after it are 7 million states
  without, in an exploration, another result; the theorems are for any number of attempts.
* `Talks` in `MCHttpSession`: headers in pieces, without a value, and whole; bodies by length, in chunks with a trailer, to the end of the stream and
  none; two lengths, or a length and chunks, which is an error; messages to be kept alive or not, of HTTP/1.0 and 1.1; one that `sHeadComplete` refuses; upgrades to WebSocket and
  to something else, as request and as response; all sequences of up to three frames that RFC 6455 allows
  over text, binary, ping, close, and continuation; frames at both sides of each length at which the format changes. The client of an upgrade waits for the answer (`MayFollow`);
  a server may send frames right behind its 101. All of them are `Proper` (`TalksAssumption`, which TLC evaluates), so that the instance meets
  the hypothesis of the theorems.
* `Chunks` is 3 units in `packets`, where a word is 2: segments end within every field. `BufferSizes` are 6 and 8 there: 8 is a unit more than
  the longest packet, so that a buffer fills up within the next one, and 6 a unit less, so that the client with that packet gets stuck and the other must not.

Deadlock is not checked: every system here rests when its users stop calling it.

The type invariants (`TypeOK` of `TcpSession`, `ReceiveBuffer`, `TcpConnector` and `WaitGroup`) are proved, and no run
repeats them.

Fairness. Threads continue (weak fairness on each thread's steps; it suffices for `mSendGuard` too, since finitely many messages take it finitely often), an io thread
takes queued handlers, user callbacks return, and an outstanding write ends in
some way. Nothing forces a receive or a connect to end, users to call,
or clients to come. `pool` has strong fairness on the steps that take a mutex: a mutex that
is free again and again is not withheld for ever, which `std::mutex` implementations
give in practice and the standard does not promise. `CallsReturn` and `PostedRuns` except the states where
a handler is inside start or stop: such a call waits for the mutex that a stop keeps while it
joins the handler's thread, and neither returns. In `packets` TCP delivers what was sent while the connection
stands. In `wait_group` a timeout comes, a notification only when somebody calls `done`.

## 4. Proofs

`TcpSessionProofs` proves for any sets of application threads, io threads and
messages, any sizes, mark and bounds (assumptions: `ThreadsAssumption`, `MsgsAssumption`, `NatAssumption`):

* `TypeCorrect`: `[]TypeOK`.
* `SendSlot`: `[]SendInv`. `OneWriteAtATime` is not inductive. What is, is
  that the *right to send* is in one place: a thread between the swap and the dispatch of flush, a queued
  `flush`, a thread in `flush`, an outstanding write, a queued successful completion,
  or a thread in `onSendCompleted` (`OneHolder`); that `mSending` is true while it is anywhere
  (`FlagGuardsSending`); and that calls made from a send callback return
  there and nowhere else (`ReturnLabels`), since such a call leaves the right with
  its caller. A failed write drops the right with the flag still set, which is why
  the flag does not imply a holder.
* `OneWrite`, `FlagGuards`: `[]OneWriteAtATime` and `[]FlagGuardsSending`, from it.
* `NoMessageStranded`: `[]NoLostFlush`.
* `BuffersOwned`: `[]WriteOwnsBuffers`; it rests on `SendInv`, which says that nobody else may swap or clear the list.
* `StuckOnlyByClose`: `[]StuckOnlyWhenClosing`. If the flag is set and nobody holds the right, then either
  the socket is closed, or a thread is on its way through `causeClosed`, or the failed completion that will go there is queued.
* `AlertedAlways` and `ThrowsOnlyIfWithdrawnAlways`: `[]AlertedAboveMark` and `[]ThrowsOnlyIfWithdrawn`, from `MarkInv`, which adds
  that a call of the high-water callback is queued, or a thread is about to queue one, while there is no callback only if the user withdrew it under
  that call or that thread.
* `SizeAccountingAlways`: `[]SizeAccounting`. The sum of a list's sizes is a recursive function (`Sums`); what an
  append adds and a clear takes is proved by induction over the list. The invariant, `SizeInv`, adds that the
  amount a thread subtracts in `release` is the sum of the list it cleared, which needs that no
  other thread clears in between: `SendInv` again.

The same module proves the refinement, `SessionIsStream == Spec => StreamSpec`: every
behaviour of a session, with any number of threads and messages, is one of `SendStream`. Initial states map to initial
states, and each step to a step of the stream or a stutter. Its inductive invariant, `StreamInv`, has three
parts. `Queued`: the messages in `mSendingMsgList` and `mPendingSendMsgList`, in this order, are the last of those accepted
(`Base` of them are done with). `InOrder`: the wire is a prefix of what was accepted, and the confirmed
messages one of the wire. `Progress`: how far wire and confirmations have got within `mSendingMsgList`, by where the right to
send is: nowhere yet at `flush`, as far as the write at a write, with the
whole list written in the callbacks, and confirmed up to the loop's index.

For one io thread, and any number of callers and messages, it proves the
properties of the receive loop: `OneReceive`, `RecvFlagAlwaysFresh`, `ClosedOnlyOnce` and the action property
`NoLateData`. The inductive invariant `OneIoInv` says that the receive outstanding, its queued completion
and the io thread's work on one exclude each other, that `mRecvPosted` is set exactly between the arming and the completion
(except at the labels where the thread is about to change it), and that the closed handler is there until the
thread that found the socket open has called it. `NoLateData` is about the completions that are queued when a session closes: they find the data
handler dropped, or an exception was swallowed on the way to line 430. With two io threads these properties do not hold.

`ReceiveBufferProofs` proves for any maximal and initial size, growth table,
amounts and number of shrinks:

* `BufferTypeCorrect`, `EveryPrepareSafe`, `EveryReceiveInWindow`: `TypeOK`, `PrepareSafe` and `ReceiveWindow`, by one invariant (`Sound`)
  and a lemma per operation. `Idle` is `Sound` with no receive outstanding, which every operation that
  moves memory requires. The delicate case is a data handler
  that calls `startRecv` itself: the session's own growth after it could then move memory
  that asio writes to. `HandledSound` shows why it does not: growth requires that the
  amount just received equals the capacity, and then the handler's `startRecv`
  either found no room and posted nothing or has changed the capacity.
* `NothingLost`: `UnshrunkExact`. Until a shrink, what is readable is what was received and not consumed.
* `ReceivesUntilFull`: `RoomUnlessFull`, from `GrowthAssumption`. The invariant says that the capacity is at
  least what the growths so far lead to (`Grown`), so that a buffer that has used up its table has `max_size`.
  `Grow` is reached with a buffer that is full up to its capacity, and adds at least one byte.

`IoContextThreadPoolProofs` proves for any numbers of callers, contexts, threads and calls:

* `OwnedThreadsAlways` and `QuietAfterStopAlways`, by one invariant. It needs no word about the mutexes: `start`'s test of the
  vector and its creation of threads are one step under the context's mutex, and `Joined` is enabled only when all that the
  vector owns have ended. What it adds is that whoever joins has stopped the context (`HandlersCall`), and that no start
  takes that back (`StaysStopped`). Handlers that call start or stop are included.
* `NeverTerminates`: if no handler stops the very context that runs it, itself or through the pool, no call of start or stop ends the process. Handlers may stop
  other contexts, and application threads all of them. The invariant behind it: no thread that waits in a join is one of those it waits for.

`TcpAcceptorProofs` proves for any numbers of callers, listening threads, contexts, connections and errors:

* `OneAcceptPerLoopAlways`. A loop is in one of three places: an accept outstanding, a queued completion, or a thread
  that handles it or starts the next; and a callback that began no loop is in none (`Places`). Calls of `startAccept`
  that have not looked at the acceptor yet are kept apart by `OwnCallback`.
* `DeliveredOnItsContextAlways`: no accepted connection is in flight twice, each is posted to its socket's
  context (`Once`), and none that was accepted waits in the backlog (`Waits`).

`HttpSessionProofs` proves for any conversations, whatever messages, broken or not, and frames they consist of, and any
bound on what is unread, `UpgradeOnceAlways`. No unit that is fed to the parser sets `mIsWebSocket` (a
lemma per callback, and induction over the units for `Execute`); only `tryParse` does, for a message that is complete. The invariant
adds that a parser of a WebSocket connection is completed, which is why neither `ProcessHttp` nor `eofHandler`
parses behind the upgrade, and that no callback has been told of WebSocket before the parser was.

Of peers that keep to the rules (`Proper`: how the end of a body is marked, which headers may not contradict each other, how frames
follow each other) it proves, for any such conversations and any cuts, and wherever the user closes the session:

* `MessageEaten`: what http_parser makes of the units of one message, one by one, wherever a stream begins it. It is put
  together from what `Feed` makes of each kind of unit (`Fed`, `LineOfValue`, `DataIs`), of a header, of all headers, of a chunk, of a body. `Eats` says that
  units lead from one state of the parser to another with no error and no end of a message in between, and two such stretches make one (`EatsCat`).
* `WholeMessagesAlways` and `OneMessageOneCallAlways`, from the invariant `HInv`: as long as no message is complete, every unit that was received
  was fed, to a parser that is where these units lead from the start (`AtUnit`), whatever the segments were; a completed parser carries one message
  that was sent (`CarriesOne`); and a message that is the only one is reported when it is complete (`ReportedOnce`).
  Segments do not matter because `Execute` goes on, in that sequence of states, where the last segment ended.
* `FramesAlignedAlways` and `WsInOrderAlways`, for bytes of 256 values, from the invariant `WInv`: behind the upgrade there is a number i of frames (`AtFrame`) such that what is
  left of the buffer, and what is still to come, is the frames behind the first i (`Ends`), the messages of the first i were given to the user,
  and `mWSCacheFrame` and `mWSFrameType` are the payloads and the type of the message that is under way then (`CachedAs`). That the buffer begins where a frame does is needed to
  apply `HeadFound`, which says what the extractor sees; that the cache is right is needed for the message that the next final frame completes; and
  that no whole frame waits in an idle session (the last part of `AtFrame`) is what makes the user have all of them.

`ConnectorBuilderProofs` proves for any number of attempts:

* `SecondAnswerAlways` and `TerminatedByCallbackAlways`: who answers, how often, and who may end the process. The invariant counts
  what the timer and the connect of an attempt can still answer, as armed, as a queued handler, or not started.
* `BuilderConnects`: the connector inside the builder behaves as `TcpConnector` says (`BuilderSpec => Spec`), so that
  its theorems hold there too, and
* `SessionsPairedAlways`, on top of them: sessions and handlers of different attempts are mixed only by a call that threw, and then an establish handler
  is left over once: `SessionInv` says that the handlers which builder and attempts still hold are of calls without a session, each held once.

`WaitGroupProofs` proves `StuckOnlyIfMissed` for any number of threads. `HttpSessionProofs` also proves, for bytes of 256
values, that the extractor finds what the builder wrote, for every length (`HeadFound`), and that unmasking undoes masking (`MaskedTwice`).

`BroadCastProofs` proves for every modulus of `size_t`: a reader that asked `enough` moves
exactly and stays in its buffer; a move stays there in any case, and goes backwards only by a
wrapped sum; a length field below its own size makes the reader wait and never move; and a writer
never writes behind its buffer. On these facts it builds the proof of the broadcast programs, for any number of clients, any
sizes of fields, packets and buffers, whether or not the packets fit, and any cuts, if what is in memory can be counted in a `size_t` (`MemoryAssumption`):

* `PacketIsWhole`: the five writes of the establish handler give the packet, however often the writer grows.
* `ServerReadIsGood`, `ClientReadIsGood`: what a data handler does with any beginning of a stream of whole packets (`Packed`). After
  each turn the saved position is between two packets (`AtStart`), and what was taken are the packets of the client that
  start before it (`GoodReading`); in particular no sum or difference wraps, no packet is taken twice, and nothing throws. The loop ends
  because a turn that finds a packet moves on.
* `BroadCastInvariant`, the inductive invariant. `Listed`: a session's addition waits in the main loop's queue, or the session is in the list once,
  until its removal has run, and additions come before removals and broadcasts of the same session (`Before`). `Framed`: what is
  on its way up is one packet or nothing, what is on its way down is whole packets. `Circulates`: the packet's occurrences, on the way up, in
  the main loop's queue and on the way down, add up to 1. The three need each other: a broadcast reaches its own session because of `Listed`,
  a segment is read rightly because of `Framed`, and no handler finds two packets of one client because of `Circulates`.
* `WholePacketsAlways`, `OnePacketCirculatesAlways`, `NoClosedMemberAlways`, from it.

Induction. The library's induction theorems take an operator as a parameter, which the installed provers cannot
instantiate. `NatSetInduction` is induction over a *set* of numbers, from the well-foundedness of `<`; with it the
proofs show that the recursive functions of the model (`Sums`, `Reach`, the run of `Execute`, the data handlers' loops) exist and satisfy
their definitions, and what they compute. `FlattenSeq` and `At`, which put parts of messages together, are recursive functions as well, of which the proofs
establish what one more element adds (`FlattenAppend`, `AtStep`) and where each part is in the whole (`Placed`).

One definition was wrong in a way that no run shows: `HeadersEnd`, `BodyStarts` and `ExecuteEof` were `CASE`s with arms that overlap. TLC takes the first
arm, as the code does; TLA+ takes any. The proofs could not tell what they yield, and they are exclusive now, in the order of the code.

Model-checked only:

* liveness, since fairness and ENABLED are out of TLAPS's reach: `StreamFairSpec`, `CloseReported`, `CallsReturn`,
  `PostedRuns`, `LoopsEnd`, `Answered`, `TimedWaitEnds`, `PacketReturns`. Every other property that a run finds to hold
  is proved.

## 5. Not modelled

* The timer that `TcpSession::runAfter` returns and its cancellation, and the lifetime of what
  handlers capture. A callback that closes its own session destroys what it runs in: `HttpSession` has the states
  (`crashed`), but no doc says that a callback may not do it, nor that it may.
* The receive loop's properties and `NoDataAfterClose` are for one io thread; with two the receive flag can go
  stale (`mRecvPosted` is set after `async_receive`), which no doc rules out.
* Of HTTP: the grammar of start lines, headers and URLs, the limit on the headers' size, the
  handshake response, and user callbacks that are null. `HttpFormat.hpp` builds strings and has no state.
* The acceptor builders: their `start` is `startAccept` with an establish callback; and the values of the setters.
* The typed reads and writes of packets, which differ in size, and byte order.
* SHA1 and Base64: pure functions, used once each, for the handshake's key.
* The echo and HTTP examples: handlers that send back what they are given.
* asio and the grammar of http_parser: vendored, and by far the most lines of the tree (asio is 1067 of
  its 1113 files). What the modules need of asio (post, dispatch, the run loop, composed writes, the streambuf, timers, the
  condition of an acceptor) is modelled where it is used, and the rest is not this library's logic. A model of
  bsio covers most of `src/include/bsio` and a small share of the whole tree.

## 6. Disagreements between code and docs

* `two_io_close`: `causeClosed` tests `is_open` and then closes, calls and clears without a
  lock. With two threads on a context the closed handler runs twice,
  although the test is commented "already closed".
* `buffer_garbage`: `doShrinkReceiveBuffer` commits bytes that `sputn` has committed
  already, against the precondition that asio states for `commit`. With 1 to 127
  unread bytes the buffer then holds as many bytes again, or up to its end, that nobody sent.
* `http_gives_up`: `makeHttpHandlers` takes bytes that http_parser leaves unused for an error ("that
  indicate cause error in parser"). http_parser also stops, without an error, behind an upgrade. A
  server's first frame in the segment of its 101 response closes the client's session.

## 7. Plan

Done so far: the core and its proofs; the receive loop's proofs; WebSocket bytes and `HttpSession` on top of
them; packets and the programs that use them; WaitGroup; the connector builders; the refinement proof; the pool, the
acceptor, the queue's size, the buffer's growth, the upgrade to WebSocket and the broadcast programs proved; the rules that a
peer keeps to stated, and from them what an HTTP session reports, and that it follows the frames, proved.
What is left, in this order:

1. An abstract specification of a stream of messages that the WebSocket side of `HttpSession` implements: `WsInOrder`, as a refinement.
2. A connection that carries several HTTP messages: what is reported when the second one comes in the segment of the first.
3. Timers of `runAfter` and the lifetime of handlers in `TcpSession`.
4. Broadcast with several threads per context.
