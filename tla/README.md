# A verification project for exp_httpsclient

The repository is a fork of Boost.Beast that runs on standalone Asio, with an
HTTPS client among its examples.  Its own logic is in `src/beast/boost/beast/`
(`core`, `http`, `websocket`, `ssl`, `zlib`); `src/beast/asio` and the other
directories of `src/beast/boost` are vendored.  The tests in `src/tests` cover
only `core`: the WebSocket and HTTP operations, which have the hardest control of
the library, have none here.  This directory models them in TLA+, checks them with
TLC and proves the central invariants with TLAPS.

All handlers of one stream run on one executor (a strand, or a single thread): two
of them never run at the same time.  The models of the streams rest on that, and it
is not taken for granted: `Strand` and `Scheduler` model the vendored strand and
`io_context` with their threads, locks and signals, and it is proved there for any
number of threads that a strand is a serial executor.  What makes the rest hard is
the order in which handlers run.  An operation is a stackless coroutine that gives up control at
each I/O and each post, and any other operation of the stream, the timer or the
application may run before it resumes.

## 1. Inventory

| component | source (under `src/beast/boost/beast/`) | state | operations |
|---|---|---|---|
| websocket stream, message operations | `websocket/impl/{read,write,ping,close}.hpp` | position of each coroutine, `rd_*`, `wr_*`, `cont` of each operation | `async_read`, `async_read_some`, `async_write`, `async_write_some`, `async_ping`, `async_pong`, `async_close`; the idle ping |
| websocket stream, shared state | `websocket/impl/stream_impl.hpp` | `status_`, `timed_out`, `ec_delivered`, the timer, `idle_counter`, six saved handlers, two soft mutexes | `check_stop_now`, `update_timer`, `timeout_handler`, `time_out`, `parse_fh`, `open`, `reset`, `close` |
| soft mutex and saved handlers | `websocket/detail/soft_mutex.hpp`, `core/saved_handler.hpp` | the id of the owner; one parked handler | `try_lock`, `lock`, `unlock`, `try_unlock`; `emplace`, `maybe_invoke` |
| basic_stream | `core/impl/basic_stream.hpp`, `core/detail/stream_base.hpp` | for each direction `pending`, `tick`, `timeout`, a timer; the socket | `async_read_some`, `async_write_some`, `async_connect`, `expires_*`, `cancel`, `close`, `timeout_handler` |
| rate policies | `core/rate_policy.hpp` | bytes left to read and write in the slice, `waiting`, the rate timer | `available_*`, `transfer_*`, `on_timer` |
| teardown | `websocket/impl/teardown.hpp` | its own coroutine | `teardown_tcp_op` |
| websocket handshake, accept, permessage-deflate | `websocket/impl/{handshake,accept}.hpp`, `websocket/detail/{hybi13,pmd_extension}.hpp` | upgrade request and response, negotiated options | `async_handshake`, `async_accept` |
| frame codec, masking, UTF-8 | `websocket/detail/{frame,mask,utf8_checker}.*` | partial header, key rotation, partial code point | pure algorithms |
| websocket service | `websocket/detail/service.*` | list of live streams | `shutdown` |
| HTTP parser | `http/impl/basic_parser.ipp` | `state_`, flags, lengths left | `put`, `put_eof` and the parse functions |
| HTTP serializer, message, fields | `http/impl/{serializer,message,fields}.hpp` | `s_`, the views | `next`, `consume` |
| HTTP read and write operations | `http/impl/{read,write}.hpp` | coroutine over parser or serializer | `async_read*`, `async_write*` |
| buffers | `core/impl/{flat,multi,static}_buffer.hpp` and others | in, out, last, capacity | `prepare`, `commit`, `consume` |
| composed-operation helpers | `core/async_base.hpp`, `core/bind_handler.hpp` | the handler and its storage | `complete`, `complete_now` |
| stream adapters | `core/{flat_stream,buffered_read_stream,detect_ssl}.hpp`, `ssl/` | small buffers | forwards |
| strand and scheduler (vendored) | `../../asio/asio/include/asio/detail/impl/{strand_executor_service,scheduler}.{hpp,ipp}` | the queues of a strand and its lock; `op_queue_`, the reactor task, the work count, the wakeup event | `dispatch`, `post`, the invoker; `run`, `post_immediate_completion`, `wake_one_thread_and_unlock` |
| zlib port | `zlib/` | window, trees, mode | `write`, `reset` |
| files, base64, sha1, varint, strings | `core/` | - | I/O and pure functions |

How they interact.  The application calls a websocket stream, which calls its
next layer (an SSL stream or a `basic_stream`), which calls Asio's socket and
timers.  Every completion comes back as a call of `operator()` of the operation.
Operations of one websocket stream share `impl_type`: they take `rd_block` and
`wr_block`, park themselves in a saved handler when a block is taken, and wake
each other with `maybe_invoke`.  The timer of the stream shares the same object,
and calls `time_out`, which closes the socket under all of them.  The two
directions of a `basic_stream` share its socket and the rate timer.

What is hard, and what makes each part correct:

- **blocks**: each operation works under the block it needs on every path,
  releases it on every path, and nobody is left parked on a free block, for
  every interleaving (`BlocksHeld`, `BlocksReleased`, `NobodyStranded`,
  `OneWriter`, `OneReader`, and the lock with hand-off as abstract specification);
- **the closing handshake**: `close_op` and the read want both blocks, in opposite
  orders, and either may see the peer's close frame (`SuspendedReadStops`,
  `CloseFrameIsLast`, `EndsUnlessForsaken`);
- **error delivery**: one cause ends several operations, one of them is told
  (`OneReport`, `TimeoutReported`, `DeadIsFinal`, and `CauseTold` over sessions);
- **messages**: control frames between the fragments of a message share
  `rd_fh` with it (`EndOfMessage`);
- **sessions**: what one session leaves behind must not reach the next, and what
  arrives behind the upgrade response belongs to the session (`FramesInOrder`,
  `OpenedForReal`, `HandshakeTerminates`);
- **bytes of frames**: headers, mask and code points are cut anywhere
  (`PayloadIntact`, `TextJudged`);
- **timers**: the handler of a timer that has already expired cannot be taken
  back (`ClosedForCause`, `TimeoutFlagOwned`, `TimeoutTold`, `DeadlineEnds`);
- **rate limit**: waiters share one timer, the last one renews the budget
  (`RateWaitersCounted`, `BudgetRenewedUncut`);
- **HTTP**: what one side serializes, in any mode and framing, the other parses,
  in any mode, from pieces of any size, within its limits, also when the stream
  ends anywhere (`ImplementsPipe`, `BytesAgree`, `NothingToWaitFor`,
  `HeaderAlone`, `EveryMessageRead`);
- **the executor**: no two handlers at once, no lost wakeup, `run()` ends when and
  only when nothing is left (`ImplementsSerial`, `NoLostWakeup`, `RunsOut`,
  `EveryHandlerRuns`).

`PROJECT.json` lists every component with its status, and every hazard at its line.

## 2. Modules

| module | what it is |
|---|---|
| `HandOff` | abstract specification: a lock whose holder hands it to one of those parked on it |
| `WsStream` | one open websocket stream: five operations, two blocks, the timer, error delivery, the peer and the network |
| `WsSession` | the sessions of one stream: handshake or accept, the time limit, reading, and opening it again |
| `FrameReader`, `Utf8Checker` | the bytes of frames: header, mask, text, limits, in pieces of any size |
| `BasicStream` | one `basic_stream`: two directions, connect, deadlines, rate policy |
| `HttpPipe` | abstract specification: a pipe of HTTP messages |
| `HttpWire` | what a message is on the wire |
| `HttpSerializer`, `HttpParser` | the two ends: serializer and write operations, parser and read operations |
| `HttpExchange` | both, with the stream between them |
| `SerialExecutor` | abstract specification: handlers run one at a time, in order |
| `Strand` | a strand over an executor that runs its invoker on some thread |
| `Scheduler` | that executor: the threads in `io_context::run()`, extends `Strand` |
| `HandOffProofs`, `WsStreamProofs`, `WsSessionProofs`, `FrameReaderProofs`, `BasicStreamProofs`, `HttpProofs`, `HttpDeliveryProofs`, `SchedulerProofs` | the proofs |
| `MCWsStream`, `MCBasicStream`, `MCHttp`, `MCFrameReader` | the instances TLC checks (`WsSession` and `Scheduler` need no module of their own) |

`WsStream` refines `HandOff` twice, `HttpExchange` refines `HttpPipe`, `Scheduler`
refines `Strand`, which refines `SerialExecutor`.

### `WsStream` and the code

An operation `o` in `{"rd", "wr", "ping", "idle_ping", "close"}` is at a label of
its code or at a yield: `pc[o]`.  What resumes it is `io[o]`: `"pending"` is an I/O
in flight, `"ok"` and `"err"` a handler that is ready to run, `"none"` an
operation that is parked or running.  While `cur` names an operation, it is
running and no other step is possible, except those of the outside world (the
peer sends, a timer expires).  An action is the code between two labels or
yields; where the code takes a `goto` the model sets `cur` and continues with
the label's action.

| code | model |
|---|---|
| `ASIO_CORO_YIELD` with an I/O, a post, an `emplace` | `StartIo`, `Post`, `Park` |
| `check_stop_now` | `Stop(o, e)` and `GoOn(e)`: each resumption takes one of the two |
| `unlock` and the chain of `maybe_invoke` | `NextWriter(o, n)`, `WakeOrder`, `PcWoken`, `IoWoken`: the handler that is invoked locks the block and posts within the same call, so hand-over is one step |
| `op_r_close.maybe_invoke` | `CloseParked` |
| `update_timer`, `timeout_handler` | `UpdateTimer`, `timeout_handler`; `fired` counts expired waits whose handlers are queued |
| `read_op`, `read_some_op` | `AsyncRead`, `AsyncReadSome`, `ReadNext` ... `ReadUpcall` |
| `write_some_op` | `AsyncWrite`, `SimpleBegin("wr")`, `SimplePosted("wr")`, `FrameSent`, `SimpleUpcall("wr")` |
| `ping_op`, `idle_ping_op` | `SimpleBegin`, `SimplePosted`, `PingSent`, `SimpleUpcall` of `"ping"` and `"idle_ping"` |
| `close_op` | `AsyncClose`, `CloseBegin` ... `CloseUpcall` |
| teardown | `TornDown(o)`, one I/O that ends when the peer closes or data arrives |
| the `BOOST_ASSERT`s on the blocks, the closing flags and the error of a suspended read, and those of `soft_mutex` (not those on data, such as `read.hpp:498`, on `idle_pinging`, `ping.hpp:229`, and of `saved_handler::emplace`) | `Assert(name, cond)`, which records a failure in `asserts` |
| `dynamic_buffer_prepare` of `read_op`, which fails when the caller's buffer is full (`read.hpp:769`) | the second way of `ReadNext` to stop, with `FullBuffers` |

Wire data is a sequence of items, a frame header (`kind`, `fin`, whether it has a
payload) or a payload; headers and payloads arrive in any grouping, and a frame
`"bad"` is one whose header breaks the protocol.  The payload, masks, UTF-8 and
compression are abstracted to the outcomes that the control flow tells apart: the
read goes on, fails the connection, or stops with an error; a compressed message
may need a further call to be done; a compressed write may have nothing to send
yet.  `told`, `cut`, `expired` and `asserts` are history variables: what the
application was told, whom the timeout cut off, and which assertions failed.  `told` keeps
apart what `check_stop_now` lets an operation tell (`StopCauses`) and how a teardown, which
does not ask it, ended (`TeardownCauses`).

The application keeps to the documented contract: one read, one write, one ping
or pong, one close at a time, and after a close only reads.

### `WsSession` and the code

A step is a call of the application, a handler, or something the peer or the network
does.  `op` is where `handshake_op`, `accept_op` or `response_op` waits; `rd` is the
read of the open stream, which stands for all its operations (`WsStream` has them).
`status`, `timed_out`, `ec_delivered`, `idle_counter`, the timer and `rd_buf` are those of
`impl_type`; `open()` and `reset()` set exactly what they set in the code, so that
what they do not set is carried into the next session.  `fb` is the buffer of the
handshake whose rest is copied to `rd_buf`, or of `accept` and its `buffers`
argument.  An HTTP message is a number of pieces, the last of which completes it; the
fields of the upgrade are one choice of the peer, to agree or not.

### `FrameReader` and the code

Two sequences, `body` and `wire`, are what is still to be read, and `arrived` says how
much of both is in `rd_buf`.  `parse_fh` is run again from the first byte of a header
each time more has arrived, and writes into `rd_fh` before it knows whether the
header is complete, as in the code.  A byte of a payload carries the position in
the key with which it was masked; unmasking it makes it `clear` only when `rd_key`
is rotated to the same position.  `Utf8Checker` translates `write` and `finish`:
code points of real bytes, with what is left of the last one kept in `cp_`.  The
text is judged a second time, by the definition of the encoding, one byte at a time
(`rest`, `proper`); `TextJudged` says that the two agree.  The payload
lengths 126 and 65536 where a header grows are scaled down to `Ext`; a header is
at most three fields, each of which arrives as a whole.  A read that has failed is not resumed, so what it had put in
the buffer just before is not kept.

### `BasicStream` and the code

A step is one handler or one call.  `waits[d]` and `expired[d]` hold the ticks with
which handlers wait on, or have been queued by, the timer of direction `d`;
`timeout_handler` compares them with `tick[d]` as the code does.  The rate policy
is `avail`, `waiting`, the waits `rate` and the timer `ratePast`.  A connect is
pending in both directions and uses the deadline of writes.

### HTTP and the code

The wire is a sequence of symbols (`HttpWire`).  A symbol is a run of octets that no
operation takes apart for a reason of its own: the text of a start line, of a field,
of a chunk size; CR, LF and each octet of a body are symbols of their own, since a
read may end between any two of them.

`HttpSerializer` has the states of `serializer::next` and `consume` in both split
modes (the `_c` states of a chunked message are those of a plain one, with the
framing of the message), the body writers of `string_body`, `empty_body`,
`file_body` and `buffer_body`, and chunks that the application encodes itself;
`write_some_op`, `write_op` and `write_msg_op` loop over it.  `HttpParser` has `put` and
`put_eof` over the states of `basic_parser`: start line, fields, `finish_header`, the
bodies by length and to the end of the stream, chunk header and chunk body, with
`skip_` (the offset where a search goes on), `header_limit` and `body_limit`; the
bodies `string_body` and `buffer_body`; and `read_some_op` and `read_op` with
`parse_until` over a dynamic buffer of bounded size.  `HttpExchange` delivers what
one has written to the other in pieces of any size, lets a write fail, and ends the
stream where the sender closed it.  `keep_alive` is taken to be what the message
says when it needs the end of the stream.

### `Strand` and `Scheduler`, and the code

A step of `Strand` is what happens between two takings of the strand's mutex:
`enqueue` puts a handler in `waiting_queue_` when the strand is locked, and otherwise
locks it; the handler then goes to `ready_queue_` *behind* the unlock (`entering`).
The invoker runs `ready_queue_`, then appends `waiting_queue_` to it under the mutex,
and unlocks or schedules itself again.  A handler that throws leaves through the same
code, and out of `run()`: the application is taken to call `run()` again on that thread,
as Asio documents.  In `Scheduler` a thread's `pc` is its place in `do_run_one`: taking an operation,
waiting on the event, running the reactor, completing an operation,
`task_cleanup` and `work_cleanup`.  Operations come from the reactor, from handlers that post
or start further operations, and from the thread that made the `io_context`.  Work
is counted privately on a thread and merged later, as in the code.  A thread that
takes the mutex again where the code holds it through is one more interleaving than
the code has; the descriptors of the reactor are treated like its timers.

### `HandOff`

`Enter` is a successful `try_lock`, `ParkOn` a failed one followed by `emplace`,
`Leave` is `unlock` followed by the handler that `maybe_invoke` runs, and
`StepAside` is what a write does between two frames.  `WsStream` implements it
twice, with the refinement mappings `WriteBlock` and `ReadBlock`.

## 3. Runs

A run takes the few rounds of a loop in which its property could fail: the
operations loop only over calls, frames, messages and pieces, and the state they
keep from one round to the next is in the model.

| run | what it shows | bounds, and why they are enough |
|---|---|---|
| `WsStructure` | types; blocks held, released and never orphaned; a read that lent its block stops; a read ends at the end of a message | two reads, a close and idle pings: four places where somebody parks; both limits and a control callback; two frames of every kind, bad ones included, as the post for the callback needs a frame already buffered |
| `WsFailures` | one reader, one writer, close frame last, assertions hold, dead is final, both blocks implement `HandOff` | every operation once with any I/O failing, any frame bad and any buffer full, and a message of two frames so that the write steps aside; no time limits and no callback (see findings) |
| `WsLive` | a timeout is not lost; one report of each kind; a read, a write and a close complete, or the stream ends in one of two known ways | one of each, where any I/O may fail, any frame be bad, any buffer be full and the peer stay silent, resumed in every order; both limits on.  `EndsUnlessForsaken` also holds with two frames to write, and with two reads of two peer frames and no write, over 1.2 million states |
| `WsSession` | frames of a session in order; opened for real; a cause told; handshakes end | two sessions, as client or server in any order, with time limits, failures, and a peer that sends two frames at once behind a response of up to three pieces, of which the buffer holds two |
| `Frames` | payload unmasked once and within the limit; text judged right | messages of up to three frames of up to two bytes, with control frames and refused headers between them; ASCII, a continuation and a lead of three make every way of cutting a code point; caller's buffers below and above the read buffer |
| `BsDeadlines` | assertions, owner of the flag, cause of a close, who is told of a timeout | two transfers each way, a connect, two `expires` calls, one `cancel` or `close`: an old handler can meet a new operation |
| `BsRate` | count of waiters, renewal, an operation with a deadline ends | two transfers each way against a budget of one byte, one `expires` call, one `cancel` or `close` |
| `HttpRequests` | the exchange implements the pipe; octets agree; assertions hold | six scripts: every framing, body writer and body limit, pipelined messages; written whole or header first, read whole, header first or in pieces; limits of buffer, header and body that are exactly met and that are exceeded; a write may fail, or the sender close, at any time |
| `HttpResponses` | the parser never waits for what it has; header alone; every message is read | five scripts: no body, to the end of the stream, chunks with and without a trailer, a folded field |
| `Executor` | the strand is a serial executor; no lost wakeup; `run()` ends only when nothing is left; every ready handler runs | two threads and three operations that wait, post, continue and are canceled: one thread in the reactor or asleep while the other works, a strand that is locked with handlers in both of its queues.  With three threads the same properties hold over 1.46 million states, which is too long for a routine run |

`CHECK_DEADLOCK FALSE` is set where the system stops when the calls of the
application are used up and all operations have completed.  That an operation
should not stop early is what the liveness properties say.  `Executor` checks
deadlock: its last thread leaves `run()` and stays out.

The checker of text is also compared with the encoding alone, for all texts of up to
four bytes out of one byte on each side of every limit that the code tests, cut at
every place (`CheckerAgrees`, which TLC evaluates before it runs `Frames`).

### Fairness

All assumptions are weak fairness of steps that stay enabled until taken.

- `WsStream`: the executor runs every handler that is ready, a timer that is set
  expires, and an I/O that is due completes: bytes in the socket are delivered, the
  end of the stream is seen, a write is taken by the network.  Nothing is assumed of
  the peer, of the application, or of failures.
- `BasicStream`: handlers and timers, and nothing at all of an I/O with data.
- `WsSession`: handlers and timers only; `HandshakeTerminates` holds against a peer
  and a network that do nothing.
- `HttpExchange`: handlers, the stream, and the two applications, which call the next
  operation.
- `Scheduler`: every thread takes its steps, except that it need not leave the reactor
  without an interrupt; a signal that was decided is sent, and the thread that
  made the context posts and ends its work.  That handlers run at all, which the
  models of the streams assume, is what `EveryHandlerRuns` shows of this one.

### Findings

Two runs expect a violation; `PROJECT.json` quotes the lines.

| run | what happens |
|---|---|
| `WsBadFrameDuringClose` | a frame that breaks the protocol arrives while `async_close` waits for the read block: read and close wait for each other, and the timer cannot help as no I/O is in flight |
| `FramesEmptyEnd` | a text that stops inside a code point and is ended by an empty final frame is accepted, since the check runs only for a payload that is not empty (`read.hpp:404`) |

The passing runs leave out what a finding needs: `WsLive` has no callback and no idle
pings, has both limits, and its `EndsUnlessForsaken` names the two ways of not ending;
`WsFailures` has no timer and no callback; `Frames` has no empty end of a text;
`BsDeadlines` has no rate policy.

Other disagreements were met that have no run of their own.  The first group shows
with the modules as they are, when the named constant is changed; TLC then violates
the named property.

- `WsStream`, `KeepAlive` and `TimeoutReported`: the idle ping takes `error::timeout` and
  has nobody to tell (`ping.hpp:212`).  It takes the error of a failed write likewise, and then
  `EndsUnlessForsaken` fails too: its `Forsaken` asks that an error was told.
- `WsStream`, both limits and `AssertionsHold`: the assertion at `read.hpp:124` fails when a
  read that is suspended is the first to see the timeout.
- `WsStream`, `CtrlCb` with `NetErrors` and `DeadIsFinal`: after its post for the callback the read does
  not call `check_stop_now` and revives a failed stream (`read.hpp:356`).
- `WsStream`, `CtrlCb` with two peer frames and `CloseTerminates`: the deadlock of
  `WsBadFrameDuringClose` through that post (`read.hpp:344-364` against `close.hpp:129`).
- `WsStream`, `IdleTimeout = FALSE` and `CloseTerminates`: a read that answers a close
  frame sets `closing` without starting the handshake timer (`read.hpp:642-681`), so an
  `async_close` that waits behind its teardown has no limit.
- `WsStream`, `FullBuffers` in place of `PeerErrors` in `WsBadFrameDuringClose`, and
  `CloseTerminates`: an `async_read` that finds its buffer full fails the stream
  (`read.hpp:769-773`) while `close_op` drains; the handler of the handshake limit does
  nothing on a failed stream (`stream_impl.hpp:598`), and the close waits for a silent
  peer for ever.  `Forsaken` is this, and the same behind an I/O that fails.
- `WsStream`, and `Len(told) <= 1` in place of `OneReport`: it does not hold, since a teardown is
  told without a look at `ec_delivered` or `timed_out`.  A timeout that strikes during the
  teardown of `close_op` fails it, and the next operation is told `error::timeout`: two
  reports of one cause.  With `FullBuffers`, an `async_read` that is outside of the blocks is told
  `buffer_overflow` while `close_op` is in a teardown that then fails.  `OneReport`
  says what is left: one report of each of the two kinds.
- `WsStream`, `CtrlCb` with two reads and two peer frames, and `EndsUnlessForsaken`: the read
  that revives a failed stream behind its post tears it down with no timer set, and
  waits for the peer.
- `WsStream`, `CtrlCb` with `IdleTimeout`, three peer frames and two reads, and `WholeMessage`:
  a timeout that strikes during the post for the callback is told, the read then revives
  the stream by reading a bad header, which leaves `rd_fin` up, and a later read reports
  the end of a message in the middle of it.  `EndOfMessage` speaks of a stream on which no
  error was told or delivered: an idle ping takes an error too, and tells nobody.
- `WsStream`, `CtrlCb` with `KeepAlive`, `NetErrors`, three reads, four peer frames and
  `LenderFindsItDead` (forty steps deep): an idle ping fails during the post, the read revives the stream, and
  `close_op`, which drains it, is ended by an error that is not the first: it aborts without
  a change of the status, and a read that lent it the block gets it back on a live stream.
  `SuspendedReadStops` speaks of a stream on which no error was delivered.
- `BasicStream`, `Limited` with two `expires` and a `cancel`, and `AssertionsHold`: a canceled
  wait for budget leaves the wait on its deadline behind (`basic_stream.hpp:363-376`),
  which `expires_after` excludes (`:792`).
- `BasicStream`: a canceled wait for budget also stays counted in `waiting`, and no slice
  is renewed any more.  `BudgetRenewedUncut` says what is left: renewal as long as
  nothing was cut off.
- `WsSession`, `CauseToldAgain`: `ec_delivered` is not cleared when a stream is used again,
  so the first error of the new session is told as `operation_aborted`.
- `WsSession`, `KeepAlive` and `AssertionsHold`: `reset()` leaves `idle_counter`, and a second
  session may begin with the count that the assertion at `stream_impl.hpp:413` excludes.
- `HttpExchange`: the one assertion that `AssertionsHold` lets fail is `n >= 5` at
  `basic_parser.ipp:690`, when the last chunk's `0` and its CR LF arrive with one more CR.

The second group was found while reading for the models, which leave it out:

- an empty buffer of a body that is not the last makes an empty chunk, which ends the
  body for the reader (`chunk_encode.hpp:125` asks for a size above zero); the scripts
  have no empty buffers in a chunked message.
- `body_limit` is counted twice in `parse_body_to_eof` when a `buffer_body` takes only a part.
- `header_limit` applies to what is left of a header at each call, not to the header.
- `split(true)` with `write_some` and then `write` completes a message without its body.
- `put_eof` in the state before a body to the end of the stream calls `on_finish_impl`
  without `on_body_init_impl`.
- `accept_op` begins with `(*this)(ec)`, so a `buffers` argument that is too large
  completes the operation inside the initiating function (`accept.hpp:280`).
- a time limit that strikes while no read is outstanding is told to the next read as
  `operation_aborted`.

## 4. Proofs

The theorems hold for every value of the constants: any number of calls, frames,
peer frames, threads and handlers, and any setting of the switches.  The assumptions
are the `ASSUME`s of the modules (numbers are natural, switches Boolean, `None` is no
handler, scripts are sequences of messages), which TLC evaluates on each run; `HandOffNoBarging` has the hypothesis that
`Nobody` is not an operation, the theorems on deadlines that there is no rate policy, and
those on closing handshakes and on the delivery of HTTP messages the hypotheses named below.

**The blocks** (`WsStreamProofs`).  `BlocksHeld` alone is not inductive: that a step
out of a parked state ends inside the block depends on who owned it before, and on
nobody else believing so.  The inductive invariant `LockInv` says, for every
operation, what its label says of both blocks: `Placed(o)`, in both directions
(inside a section implies owner; owner implies inside, or about to unlock) plus:
whoever is parked waits for a block that another operation owns.  It also has the
types of `pc` and the blocks, and that an idle ping is under way only while
`idle_pinging` is set, or the timer would start a second one over the first.

The proof does not go over pairs of an action and an operation.  Each
action is first shown to be of one of three shapes: `Lone(o)`, operation `o` moves,
may take a free block and wakes nobody; `Steps(o, n, q)`, `o` moves and hands the
write block to the parked `n` and the read block to the parked `q`; or `Quiet`.
Then each shape is shown to keep `LockInv`.  From it follow `LocksInvariant`,
`BlocksAreHeld`, `BlocksAreReleased`, `NobodyIsStranded` and `AtMostOneWriter`.  The
same three shapes are mapped to steps of `HandOff` in `WriteBlockHandsOff` and
`ReadBlockHandsOff`.  `NextWriterIs` is where the tables of `maybe_invoke` chains
matter: each chain names all the operations but its own.

**Types** (`WsStreamProofs`).  `TypeCorrect` needs `LockInv` and two facts about data.
`BufOK`: while the read dispatches a control frame, the frame is in the buffer,
although the read yields to call the control callback; only `close_op` could
consume it, and the read block keeps it out.  `LeftOK`: a write that is sending has
a frame left to send, so the count never falls below zero.

**The flags of the closing handshake** (`WsStreamProofs`), with the hypothesis `~CtrlCb`.
Between a look at the status and the use of what it said lie yields, other operations
and the timer.  `CloseInv` has three parts.  `AliveInv`: the labels where the read
dispatches what it received, and where `close_op` drains, are reached only in the run of
the executor in which `check_stop_now` let the operation go on, so the stream is alive
there; a timeout or an error that is still to be delivered means a dead stream; `close_op`
completes on a dead one only.  `SentInv`: the status and `wr_close` agree, and while the
stream lives the write block stays with whoever sent the close frame.  `ReceivedInv`:
once `rd_close` is set, the read is on its way to the teardown or `close_op` is tearing
down with the read block.  One lemma says who is woken (`WokenAt`, `Steps` of
`WsStreamProofs`), one that whoever stops leaves a dead stream (`StopIsDead`); the rest goes
operation by operation.  From `CloseInv` follow `DeadStaysDead`, `NothingAfterClose`,
`LendersFindItDead` and `AtMostOneReader`.  With a callback the read yields between the
look and the use, and `AliveInv`, `DeadIsFinal` and `OneReader` are false, which is why the
hypothesis is there.  `NoAssertionFails` has also the hypothesis that no time limit is set:
with one, a timeout can stop the suspended read (see findings).

**One report** (`WsStreamProofs`), with the hypothesis `~CtrlCb`.  An operation that tells a
cause learned of it in the same run of the executor: `check_stop_now` gave it the error that
ended a live stream, or the timeout that was not taken yet, or its teardown ended.  So it is
enough that nobody has told a cause of the same kind by then.  `ToldInv` has three parts.
`ToldOnce`: a live stream has told nothing, no cause of `check_stop_now` was told while
`timed_out` is up, and nobody has told of a teardown while one is going on.  `Carriers`: the
same of an operation at its upcall with a cause to tell.  `ErrorFree`: where an operation
stands that has met no error.  The lemma `Alone`, which needs only the blocks, says that
there is one teardown at a time.  Each step is shown to tell nothing yet (`Tells(o)`) or to
be a completion.  That there may be one report of each kind is in the code (see findings).

**With a callback** (`WsStreamProofs`).  A read that yielded to its callback does not ask
`check_stop_now` again and can revive a dead stream.  `OnlyClosingRevives`: no other step can,
nor does any other leave a timeout pending on a live stream or take back `ec_delivered`.
`ReviveInv` says what is then left of `AliveInv`: a timeout is pending on a live stream only
while a read that revived it is in its closing part; and until an error has been delivered
`close_op`, if it used the read block, completes on a dead stream.  `SuspendedReadsStop`
follows, for a stream with a callback or without, and needs no hypothesis.

**Whole messages** (`WsStreamProofs`), with a callback or without.  `read_op` ends when
`rd_done` says so, a look at `rd_fin`, `rd_cont` and `rd_remain`, which control frames
overwrite and which `close_op` changes as well when it drains.  `EndInv`: `rd_fin` is up only
between two messages, unless nobody will take it for the end of one (`NotForReading`):
the read is in its closing part, `close_op` drains, the stream is dead and the read outside
its block, or it has an error to tell.  A read that closes has an error to tell too.  All
this is kept without a callback always, and with one (through `ReviveInv`) until an
operation has been ended by an error (`Steady`).  `EndOfMessageRead` has no hypothesis;
`WholeMessagesRead`, for a stream that has failed as well, has `~CtrlCb`.

**The timeout** (`WsStreamProofs`), with the hypotheses `~CtrlCb` and `~KeepAlive`.
`PlaceInv` says where operations may stand when the timer fires.  `TimeInv`: until
somebody stops with the timeout, `timed_out` is up and every operation that was cut off is
still to stop; from then on it is told, or the one that took it is about to tell it in the
same run of the executor.  `TimeoutIsTold` follows: the timeout is not lost between the
operation that takes it and the others, which are told `operation_aborted`.

**The sessions** (`WsSessionProofs`).  `CauseInv`: while a session is opened or open, the
stream is dead only with `timed_out` set, and `ec_delivered` is what it was before the
session; so an abort is told only when the cause was told, or will be (`CauseIsTold`).
`OrderInv` follows the bytes: once the stream is open, `got`, `rd_buf` and `wire` in
sequence are the frames that the peer has sent; while the HTTP message is read, the buffer
it is read into and `wire` are the message followed by the frames, and the frames alone
when the message is complete.  The message may end in the middle of what one read
delivered, and the buffer is `rd_buf`, `fb`, or first the one and after an overflow the
other.  `FramesAreInOrder` and `OpenMeansOpen` follow, `SessionTypes` is the type
invariant.

**The payload** (`FrameReaderProofs`).  `Masking`: of the rest of a payload, what is in
the read buffer is clear, and byte `i` behind it waits for the key at the position that it
has when `rd_key` is rotated by `i`.  Each way of reading (from the buffer, or directly
into the buffer of the caller, which unmasks only what arrived) keeps it, and
`rd_size + rd_remain` stays within the limit from the check of the header on.
`PayloadIsIntact` follows, for any frames, sizes and pieces.

**The text** (`FrameReaderProofs`), with the hypothesis `~EmptyEnds`.  `WriteFollowsEncoding`
compares the checker, which reads a code point at a time, with the encoding, which is
given byte by byte, on every piece and for everything that may be left of the piece before
(`Partial`).  On one code point they agree since the tests of `valid` and `fail_fast`
accept exactly the beginnings of the rows of `Forms` (`Judgement`, which has the limits of
all the tests in it); on a piece they agree by induction from its end (`ScanGoesOn`).
Both recursions are shown to be functions first (`AdderIs`, `ScannerIs`).  The induction
theorems of the library take a predicate, which the provers cannot instantiate, so
`Induction` takes a set; it rests on the library's theorem that the subsets of a finite
set are well-founded.  `TextInv` carries the agreement over pieces, frames and messages:
the flags say where a message ends, and there nothing is left over.  `TextIsJudged`
follows.  A message that ends with an empty frame is not judged (see findings), which is
why the hypothesis is there.

**The two ends of HTTP** (`HttpProofs`), for all scripts of messages, also with headers that
do not fit their bodies, all modes and limits, and any failure.  `SenderInv` follows the
serializer: what it shows are whole parts of a message, what it has shown is gone before it
goes on, and between `async_write_header` and its end the octets written and those still
shown are the header, whatever was called before.  `HeaderIsAlone` follows.

`AssertionsAreTrue` needs to know what the parser finds.  A symbol for the text of a line has
CR LF behind it wherever the program writes one; sequences of that form are the `Blocks`, and
`StreamInv` says that the buffer of the reader, the wire and the view of the serializer are
together such a sequence, so the buffer is one that was cut somewhere.  The searches
(`find_eol`, `find_eom`) are recursive functions; lemmas by induction from the end of the
buffer say that they return the first end there is and miss none (`FindEolIs`,
`FindEomIs`), and that in front of it each field ends within the header (`FieldEndsLine`).
`Parses` is the invariant of the parser: `skip_` is zero in the states of a body and 2 in a chunk
(the CR LF behind its data), in a chunk header nothing that the search is for ends in front
of it (`Searches`), and `flagFinalChunk` and `flagExpectCRLF` are down until the first chunk
header.  `Reads` is
that of the operation: it never calls `put` on a complete message, and a line of the trailer
has just ended where the next one is parsed.  Each step of `put` is taken on its own; steps
that only bring more symbols keep what is known of the ones before (`MoreSymbols`).  The
theorem leaves out `n >= 5` as the property does (see findings); the conditions of the next
lines (`basic_parser.ipp:692`, `694`, `696`) are not recorded by the model.

**What is sent** (`HttpProofs`), with the hypothesis `FitScripts`: the header of every message
tells what its body is (`Fits`: the length is the sum of the buffers, a chunk is not empty, a
message that admits no body has none), and no message is written with `split(true)` first
and whole then, which loses its body (see findings).  A message is given by its symbols,
`SymbolOf(m, i)`, and a script by where its messages end, `MessageEnd(k)`; both rest on sums
(`Before`), which is a recursive function, and on lemmas that say where each part of a
message stands (`HeaderSymbol`, `PieceSymbol`, `TailSymbol`, `LineIn`).  `SendInv` says how far the
serializer has come: what it shows is a stretch of the message that begins where the
octets written end and ends where its state says (`ShownTo`), with as many buffers behind
it as the body writer has handed out.  `WhatIsSent` is that invariant.

**What is read** (`HttpDeliveryProofs`), with the same hypothesis.  `ReadInv` relates the two
ends.  `WireInv`: the symbols behind the parser, in the buffer and on the wire are as many as
the sender has written, and each is the one that the script has at that position.
`UnderstoodInv` says, for each state of the parser, where in which message it stands and what
it knows of it (`ParserAt`: which fields it has seen, what is left of the length, which chunk it
is in, what is left of `body_limit`), that a parser that waits has less in its buffer than it
needs (`Needs`), and that a body that goes on to the end of the stream is complete only when
that has come.  `BodyInv`: the body is a prefix of the octets of the message.
`RefusalInv`: a message is refused only for a limit that it exceeds, and cut only when the
stream has ended in it.  `skip_` needs a part of its own (`InHeader`): the search for the end
of the header must go on in front of it, whatever was in the buffer when it stopped.  That a
stream that ends in front of a complete message ended in the one that was being sent needs
`Started`: while the parser is in `start_line`, some of that line is in the buffer.  The lemmas go state by state, with
one for what is found in the buffer, one for what `put` does with it and one for what is waited
for afterwards.  From `ReadInv` follow `BytesAreAgreed` and `NothingIsWaitedFor`.

**The pipe** (`HttpDeliveryProofs`).  `ExchangeImplementsPipe` has also the hypothesis
`RoomyScripts`: headers, chunk headers and the part behind the last chunk fit the limits of the
reader, since `HttpPipe` knows no error for what does not fit, and a body that goes on
to the end of the stream is read by a reader that takes all it is shown, since otherwise
`body_limit` counts octets twice (see findings).  `TellInv` adds that an `end_of_stream` comes between two
messages.  A step of the exchange is a step of the pipe where a message is begun, the
stream is closed or the application is told; then `AheadOf` says that the message told of has
been begun, as the parser has seen something of it.  The constants of `HttpRequests` satisfy both
hypotheses.

**The lock with hand-off** (`HandOffProofs`): `NoBarging` for any set of operations.

**The deadlines** (`BasicStreamProofs`).  A handler of a deadline acts on whatever
operation it finds; what makes that right is the tick.  `Deadlines` says, of each
direction: there is at most one wait, it has the current tick and belongs to an I/O
that is outstanding under a deadline; of the handlers that have expired at most one
has the current tick, and then the I/O is outstanding, its deadline is past, nothing
else waits and the flag is down; the flag is up only under such an I/O.  `PhaseOK`
(an operation is pending, a connect in both directions) and `NoPolicy` (there is
always budget) complete `DeadlineInv`.  A lemma says what each kind of step does to
one direction: `Arms`, `Passes`, `Handled`, `Finished`, `StaysUnarmed`, `Same`.  From it
follow that no assertion fails, who owns the flag, why the socket is closed and who
is told of a timeout.  With a policy the invariant is false (see findings), so these
theorems have the hypothesis `~Limited`.

**The waiters** (`BasicStreamProofs`), with any policy.  `RateInv`: whoever waits on the
rate timer is in the phase `"rate"`; the count is never below the number of them
(`Sum`), and equal until one is cut off, when none of them is `"aborted"`.  The step that
matters is `on_timer`: who finds no others is the only one, as the count is not below
the number of waiters, so the slice starts when nobody waits.  `StreamTypes` is the type
invariant, part by part.

**The strand** (`SchedulerProofs`).  Who locks the strand hands it on: to `entering`, to the
scheduled invoker, to the invoker on a thread.  The invariant says that there is
exactly one holder while the strand is locked (`OneHolder`), that an unlocked strand
is empty (`Unlocked`), and that a handler runs only in the invoker (`InStrand`).
`StrandOneAtATime`, `StrandNobodyForgotten` and `StrandLockedWhileHeld` follow, and with the two queues as one
sequence (`entering` between them) the refinement `StrandImplementsSerial`.

**The scheduler** (`SchedulerProofs`).  `SchedulerInv` says where the reactor task is (in
the queue exactly once, or with one thread), where the invoker of the strand is
(exactly where `scheduled` says), that a thread in a blocking reactor can be
interrupted while `task_interrupted_` is down, and `WakesUp`: an operation in the
queue means a thread on its way, a reactor that is interrupted, or a signal that
is owed or given.  From it `SchedulerNoLostWakeup`.  Every step is a step or a stutter of
`Strand` (`SchedulerRunsStrand`), so `SchedulerImplementsSerial` is the two refinements
in sequence: handlers of a strand run one at a time and in order on any number
of threads.

**The end of `run()`** (`SchedulerProofs`).  `outstanding_work_` is shared, and every
thread adds its part later than the work appears.  `WorkInv` says what it counts:
`Works`, the operations that wait in the reactor, in a queue or on a thread and are in the
shared count; `Busy`, the threads between the start of a handler and `work_cleanup`; and
the work of the thread that made the context.  `OnePlace` keeps every operation at one
place, so that moving it leaves the number alone, and `PrivateWork` says that a
thread in a handler counts exactly what it will hand over.  `SchedulerStopsWhenDone`: the
context is stopped exactly when the three are used up.  With `Held` (the strand is locked
while somebody holds it, and a holder is work) `SchedulerRunsOut` follows.

Only model-checked: every liveness property (`EndsUnlessForsaken`, `DeadlineEnds`,
`BudgetRenewedUncut`, `EveryMessageRead`, `HandshakeTerminates`,
`EveryHandlerRuns`), since TLAPS does not reason about fairness and `ENABLED`.

## 5. Not modelled

* Destruction of a stream and `service::shutdown`; moving a `basic_stream`.
* The synchronous functions: they have the control flow of the asynchronous ones
  without the interleaving.
* `teardown_tcp_op` is one step of `WsStream`; its loop is not modelled.
* Of websockets: permessage-deflate, the writing of frames and pongs, the payload of close
  frames, the wide loop of `mask_inplace` and the ASCII fast path of the text
  checker, the fields and the key of the upgrade.
* Of HTTP: the grammar inside a line (which decides only between symbols and an
  error), lazy and skip modes, chunk extensions, decorators and callbacks, `fields`.
* Of the executor: `stop()` by the application, `run_one`, `poll`, `shutdown`, the
  descriptors of the reactor; tracked work of the invoker is counted with its operation.
* Buffers, stream adapters and composed-operation helpers: sequential, and tested in
  `src/tests` or decided by types.
* `zlib`, files, strings, the rest of the vendored code, and the examples.

The repository is mostly vendored: Asio, and the parts of Boost that Beast uses, are
four fifths of its lines.  Of them only the strand and the scheduler are modelled,
since the rest is containers, metaprogramming and wrappers of system calls.

## 6. Plan

1. `Teardown`: the loop of `teardown_tcp_op` over a non-blocking socket, with the
   count that is not the result of `read_some` (`teardown.hpp:108`).
2. The negotiation of permessage-deflate between the two sides, and the read path
   with compression.
3. `Buffers`: `flat_buffer`, `multi_buffer`, `static_buffer` implement one abstract
   dynamic buffer.
4. `Varint`, `DetectSsl`, `BufferedReadStream`.
