# A TLA+ model of rnhttp

rnhttp carries HTTP/1.1 over Reticulum (RNS) links. Its own logic is small and
concurrent: the transport calls back in its thread, each request is handled in
a thread of its own, and the two meet in objects that share fields and
`threading.Event`s without a lock. This directory models that logic in TLA+,
checks it with TLC, and proves with TLAPS every safety property that TLC
checks, for all values of the constants.

    tlc -workers 2 -config PipeIO_threads.cfg MCPipeIO    # a run
    tlapm PipeIO_proofs.tla                               # proofs

`PROJECT.json` lists the runs, which lines of the source each definition
stands for, the hazards of the code with the properties that watch them, and
the theorems.

## The system

| Part | State | Operations | Met by |
|---|---|---|---|
| `PipeIO` (`_pipe.py`) | ring, two positions, `_available`, two events, `_eof`, `_length` | `write`, `flush`, `read`, `close`, `len` | one writing and one reading thread; anybody closes |
| `Callbacks`, `CallbacksIO`, `RequestIO`, `ResponseIO` (`_http.py`) | seven events, url, status, headers, size, the hooks, a `PipeIO` | the parser's callbacks, `drain`, `read*`, `wait*`, `headers`, `url`, `status`, `close` | the transport's thread feeds the parser, application threads read and wait |
| `HttpSendTo`, `Request`, `Response` (`_http.py`) | headers, body | `body = ...`, headers, `sendto` | the thread that sends; a body may be a `PipeIO` filled by another one |
| `HttpServer` (`server.py`) | per link: `RequestIO`, a handler thread; routing table | `on_link_established`, `on_reader_ready`, `handle_request`, `route`, `add_handler`, `get_handler` | RNS callbacks start a thread and feed its request |
| `HttpClient` (`client.py`) | the link | `connect`, `request`, `send_request`, `close` | RNS callbacks feed a `ResponseIO` |
| SOCKS proxy (`examples/socks_proxy.py`) | per client: two tasks, a thread, a `RequestIO`, a `PipeIO`, a link | `handle_client`, `pipe_tcp_to_request_io`, `pipe_response_to_tcp` | all clients share one event loop |
| HTTP proxy, basic server (`examples/`) | | handlers of `HttpServer` | |
| External | | RNS (links, channels, buffers), httptools (the parser) | |

What is hard about it: every event is cleared by somebody as well as set, and
each set, clear and test is a step of its own; `drain()` pulls the callbacks
out from under the feeder; `body_event` is used for back-pressure by `read()`
and `on_body` from two sides; the link may end anywhere; and how the end of a
body is announced depends on the body's type and on headers set in any order.
On the client's side a link may come up just when `connect()` has given up, and
the SOCKS proxy waits for threads on the event loop that its other tasks need.

What makes each part correct:

- **PipeIO**: bytes arrive once each and in order, no thread is parked for
  nothing, the end comes last, a write of any size returns while somebody reads.
- **CallbacksIO**: the body is a gapless beginning of what was sent, whole
  before `b""`; size and headers are right until somebody closes; a reader that
  reads on comes to the end; the end of the link releases everybody.
- **HttpServer**: one response per request, written when the request is closed;
  no refusal without a reason; handlers see the body; the thread of every request
  ends; the transport's thread does not stay in a request that is over.
- **Routes**: the answer is what the patterns mean, whatever the order of
  registration; a route affects only the requests that its pattern stands for, and
  keeps its place when it is registered again.
- **HttpSendTo**: the receiver finds the whole body and its end, not earlier.
- **HttpClient**: no link is left behind, whenever it comes up; after a failure
  the next request connects anew; a request is answered, whatever its body, and
  the server's thread of a link ends.
- **SOCKS proxy**: a client that stays gets its whole response; no link, task or
  thread outlives its connection; no call keeps the loop for ever.

## The modules

| Module | What it is |
|---|---|
| `ByteStream` | the abstract pipe: a bounded stream with Put, Take, Close and End |
| `PipeIO` | the ring buffer, one access to the shared fields per step; refines `ByteStream` |
| `PipeIO_proofs` | the theorems about `PipeIO` |
| `CallbacksIO` | one message on its way in; its pipe is the bounded stream that `PipeIO` is proved to be |
| `CallbacksIO_proofs` | the theorems about `CallbacksIO` |
| `MessageStream` | `CallbacksIO` with the history of its pipe, which refines `ByteStream` |
| `MessageStream_proofs` | the refinement |
| `HttpServer` | extends `CallbacksIO` with the thread of `handle_request` |
| `HttpServer_proofs` | the theorems about `HttpServer` |
| `Routes` | the routing table and the lookup |
| `Routes_proofs` | the theorems about `Routes` |
| `SendTo` | the sending side and what the receiver finds |
| `HttpClient` | extends `SendTo` with the client's links and the server's thread at their other end |
| `HttpClient_proofs` | the theorems about `HttpClient` and the messages it sends |
| `SocksProxy` | the event loop of the SOCKS proxy, with the tasks and the thread of each client |
| `SocksProxy_proofs` | the theorems about `SocksProxy` |
| `FoldTheorems` | induction over the natural numbers, and what folding a sequence from the left gives |
| `MC...` | small instances for TLC |

In every module, an operator commented as a *slip* is a mistake that the
definition after it could contain. Nothing uses it; it is there to be put in
the place of that definition, which must break the property that
`PROJECT.json` names.

### PipeIO

The variables have the names of the fields and locals. `wpc`, `rpc` and `cpc`
say where the writing, the reading and the closing thread are: one label per
access to a shared field, named after what it does. The bytes are their
positions in the stream, so the order and the identity of bytes are visible
and their content is not. `received`, `ended` and `sealed` are history.

The class has no lock, and whether that is right depends on the interpreter.
CPython with a GIL, which the project's CI runs on, hands the GIL over at
calls and at the ends of loop iterations. Between the load and the store of `+=` there is
neither, nor between the test of `_available` in line 42 and its use in line
46, nor between the tests of `_available` and `_eof` in line 81 and 82. Those
steps carry the labels in `UnbrokenW` and `UnbrokenR`, and no other thread
runs while a thread is there. Everything else interleaves. Of a free-threaded
interpreter (`GIL = FALSE`) nothing is claimed: there the load and the store
may be separated, and a reader between lines 81 and 82 may miss bytes.

`Event.wait` is a guard on the event. With one writer and one reader only one
thread waits for each event and only that thread clears it, so being woken and
seeing the event set are the same.

### CallbacksIO and HttpServer

There are many short methods here, each a sequence of accesses to events, hooks
and the pipe. `Callback` and `Operation` give each method as the sequence of
its accesses; `todo[t]` is what thread `t` has still to do of the methods it is
in, and there is one action per kind of access. Here an event can be cleared
between a waiter's being woken and its running (`read()` clears `body_event`,
which the feeder waits for), so waiting has two steps: `asleep` holds the event
a thread is parked on, and setting the event releases the thread for good, as
`threading.Event` does.

The *feeder* is the thread in which RNS calls `on_reader_ready`. It passes data
to the parser, which is represented by the callbacks it makes for a message:
the constant `Message`. How the bytes are cut into packets does not matter,
since the feeder may stop for any time between two callbacks. `FeedEnd` is the call with
`ready == 0`. In the server it is also the path on which the parser raises, which closes and
drops the same things (`server.py` 311-314); the client (`client.py` 148-157) does not
catch that exception and leaves its response open, which is not modelled. The pipe is a bounded sequence with
the blocking behaviour of `PipeIO`. That its steps may be taken for single ones
is what `PipeIsAStream` and `WakeupsArrive` prove. `MessageStream` adds one
history variable, `sealed`, and says that what the application reads is again such a
stream.

`Message` is assumed to be what httptools reports of one message
(`ParserAssumption`): only parts of the body have a size, the request line comes
before a Host header, the headers end before the message does, and nothing
follows its end. `RequestAssumption` of `HttpServer` adds that `on_message_begin`
comes first and only once, and that a request has a request line: the parser of a
request calls `on_url` before `on_header`, and `on_header` asserts the url.
A second message on the same parser is outside of both.

In `HttpServer` the one application thread is that of `handle_request`; `stage`
is where it is, and its calls on the request go through `todo` like any others.
The route lookup is a choice among `Outcomes`; `Routes` is the lookup itself.
A function handler, and a generator once it runs, may look at `.headers` first.
The timeout of `wait_url` may fire whenever the thread is parked in it, and
`late` remembers that it fired while the feeder still had something to do.
Sending is two steps, the status line (`SendHead`) and the rest (`SendBody`). With
`SendFails` the `sendto` of a response may raise before either step, e.g. from a head
that is not ASCII or a link that is gone, and a 500 follows (`Raises`, which is also a handler
that raises or, being a generator function, does not take its parameters). The `sendto` of a refusal
or of that 500 is outside of the `try`: when it raises, the thread is over and
`failed` (`RefusalFails`). The pipe
of a generator's response is a count: nobody reads it before the generator has
ended, since the coroutine of `asyncio.to_thread` does not start by itself, and a
generator in a `write()` for which there is no room (`Overfull`) takes no further step.

### Routes and SendTo

A path is the sequence that `split("/")` makes of it; the reading of a segment
`{name:type}` (`NameOf`, `TypeOf`) and what a type constructor takes
(`Accepts`) are tables, filled in by `MCRoutes` as the code would, including the name that
is not stripped, the unknown type, empty segments and a pattern requested
literally. `Language` is the reference: the set of paths a pattern stands for.
The only thing assumed of patterns and paths is that they are sequences of texts
(`PathsAssumption`).

`SendTo` counts the body in units and the wire in parts. `Found` and `Complete`
are what the receiver's parser reports: it is told the framing by the head and
believes it.

### HttpClient

One client, the links it makes and, per link, the thread that
`on_link_established` starts in the server. `links[l]` is all there is of a link:
its `fate`, what has been `sent` over it, how much of that the server has
`seen`, where the server's thread is, and what is on its way `back`. `Establish`
is one step for both ends; it does not ask whether `connect()` still waits, so it
also comes between `WaitEnds` (the timeout) and `GiveUp` (the teardown).

A request is made and sent by the actions of `SendTo`, each of whose parts also
goes onto the link (`SendPiece`); `Return` closes the writer, which the server
sees as the end of the stream. What the server finds is `SendTo`'s `Found`
and `Complete` of what it has seen. The threads and events inside of its
`RequestIO` are not repeated here: `HttpServer` says what `HandlerReturns`, `Answer`
and `End` stand for, and that a body waits until the request is read or closed. The
calls of the application do not overlap, since none of them suspends itself.

### SocksProxy

A task of asyncio runs from one `await` to the next, and where it blocks in
between it keeps the loop. `main[c]` and `pump[c]` are the places where a task
is suspended or blocks, `Blocked` says which of them keep the loop, and a
suspended task goes on only if the loop is `Free`. The calls that block are
`client.connect()`, `send_request()`, `.status`, `pipe.read()` and
`join()` in `handle_client`, and `request_io.write()` in the pump: it waits in
`on_body`, for which there is no way on in this model because everybody who would read
the body is a task of the loop. That `on_body` waits at all is
`CallbacksIO`. Responses are counted in units; what clients send are packets by
their meaning for the parser. The thread of the response ends with a closed pipe
(`SenderEnds`), or with an exception and an open one (`SenderRaises`): the length of a
response that states none is not known before its end, and `sendto` asks for it behind the
status line. What a client has sent by the time its connection is closed (`Finally`)
the pump still reads, and then the end. `LoopHeld` lists the calls
that keep the loop for ever.

## The runs

| Run | Asks | Bounds | Result |
|---|---|---|---|
| `pipe_threads` | order, wakeups, end, refinement, inductive invariant; writes return, data and end arrive, close releases | ring of 2, writes of 1 and 3, reads of -1 and 2, 3 bytes | holds |
| `message_safety` | order, end, size, headers, refinement of `ByteStream` | body 3 + 1 through a pipe of 2, two threads that read, wait and close, link may close | holds |
| `message_liveness` | reading gets to the end; the end of the link releases | chunked body 1 + 2 through a pipe of 2 | holds |
| `message_starved` | every method returns | a request, body 3 + 1, pipe of 4; one thread reads, one waits for message, headers or url | **violated** |
| `server_link` | one answer, closed first, no false refusal, body seen, threads end, transport freed | body 1 + 2, all outcomes, failures and a link that may close, a response of up to 2 units through a pipe of 1 | holds |
| `server_lost_body` | generators see the body too | generator only, link stays | **violated** |
| `routes_table` | the lookup is right | 3 routes of 5 patterns and 2 methods, 8 paths | holds |
| `send_endless` | what is sent has an end | bodies of 0, 1 and 3, up to 4 units in a pipe, reads of 2 | **violated** |
| `client_links` | arrives whole, never complete early; no stray link, usable link, answered, threads end | 2 links, 1 request, bodies of 0 and 3, 2 units in a pipe, reads of 2, all failures | holds |
| `client_second` | every request is answered | 1 link that stays, 2 requests | **violated** |
| `socks_clients` | whole response, everything released or the loop held | 2 clients, responses of 3 and 2 through a pipe of 1, any client may leave, all failures, requests with a body and without | holds |
| `socks_post` | no call on the loop waits for the loop | 2 clients, with bodies | **violated** |

Why the bounds are enough. A ring of 2 has a state between empty and full, and
a write of 3 is larger than the ring and makes a position go around it. What depends on the capacity beyond that is arithmetic, and it
is proved for every capacity. A message with a body larger than the pipe, cut
in two, makes the feeder block in `write()` and in `body_event.wait()` in every
order. Three routes are one to be found, one before it and one after it. The
units of a body in `SendTo` let a read be full, partial and empty. Two links are
one that fails and the one after it; a second request per client does not add
states of a kind the first has not, as `client_second` shows what becomes of it.
Two clients of the SOCKS proxy are the one that keeps the loop and the one that
waits for it.

The runs of the messages, of `SendTo` and of `HttpClient` switch the deadlock check off:
the program stops there when a message is over, and whether it stops too early
is what the liveness properties ask. `HttpServer` ends when the request is
answered and `SocksProxy` when its clients are served, so they do too. `PipeIO` and `Routes` never stop.

### What the violations show

- `message_starved`: `wait()` sets `body_event` "until the message is done";
  a `read()` in another thread clears it, and both feeder and `wait()` hang.
- `server_lost_body`: the request is closed when the handler returns, which a
  generator function does before it has run; the HTTP proxy example
  reads the body in its generator.
- `send_endless`: a message without a body is declared chunked and gets no last
  chunk, so that its receiver never sees the end of it.
- `client_second`: `send_request()` closes its writer, and with it the link's one
  stream to the server, whose thread answers once; `_link` stays set, so a
  second `get()` goes to the same link and waits for ever.
- `socks_post`: `request_io.write()` waits on the event loop for a reader that is
  a task of that loop: one POST stops the proxy for all its clients.

Two disagreements were met that no run has as its subject. `tests/test_pipeio.py:51`
says that a read larger than what is available blocks until EOF; `read(size)`
returns what it has once the ring is empty, and so does `readall()` of a message
that is still arriving. And a request with a body but no Host header is refused after
five seconds as if it had been corrupted, as nothing else sets `url_event`
before the body; `NoFalseRefusal` is about messages with that header.

Several properties hold with an exception that is there because the code needs it.
Each exception is part of the formula, was seen to be necessary, and is something the
code does that the property confines and does not catch:

- `WritesFinish` and `DataArrives`: after `close()` the consumer is given `b""` and stops
  reading. A `write()` that comes then and fills the ring stays for ever, and
  what was counted after the `close()` may never be read.
- `Answered`: a generator whose response does not fit its pipe (`Overfull`) waits for a reader that
  waits for the generator. A response larger than the pipe is nothing unusual for
  `examples/proxy_server.py`.
- `ClientsReleased`: five calls keep the event loop of the SOCKS proxy for ever (`LoopHeld`).
  `.status`, after a server has refused a request that came too late; `pipe.read()`, after the thread has
  raised; `join()`, after a client with more to come than the pipe holds has left;
  `request_io.write()` with a piece of a body; and `send_request()` for a body that has still to come.
  The run reaches each of them and no sixth.
- `NoFalseRefusal` is about messages whose Host header is before the body (`HostFirst`).
- `TransportFreed` excludes generators and requests that begin after the timeout: in both,
  something clears `body_event` behind the `drain()`, and the feeder stays in `on_body` for ever.
- `ArrivesWhole` and `NeverEarly` exclude a content-length left over from an earlier body
  (`stale`) and the length of a pipe that is still being filled (`live`).
- `NoStrayLink` excludes a link that a second `connect()` has `replaced`: nobody has it any more.
- `FirstAnswered` asks that the server still waits, since after its five seconds the 400 comes
  before the request and goes to nobody; `ServerThreadsEnd` leaves out links that are gone.
- `SizeAgrees` and `WholeUntilClosed` end with the first `close()`: behind a `drain()` in the
  middle of a message the length is wrong and `.headers` incomplete.

### Fairness

- **Threads.** A thread that can go on does: weak fairness per thread in
  `CallbacksIO` and `HttpServer`. In `PipeIO` it is strong fairness, because a
  thread can not run while the other one is between two unbroken steps and so is enabled
  again and again instead of continuously.
- **The event loop.** In `SocksProxy` strong fairness per task: asyncio takes
  tasks that are ready in turn, but another one may keep the loop in between, so that
  a task is enabled again and again instead of continuously. Threads and the link have weak fairness;
  clients need not send anything, except that `wait_headers` runs out of time.
- **Calls.** In `HttpClient` a call that has begun goes on to its end, and a pipe
  given as a body is closed in the end (`CloseBody`); that a call is made at all is not
  assumed. The handler at the other end returns once its request is over (`ThreadRuns`).
- **The application.** Nothing is assumed of it except where a property is
  about one that keeps reading: `ConsumedSpec` and the premise of
  `ReadsToTheEnd`, for the loop `while True: chunk = ....read(4096)` that
  `client.py`, `HttpSendTo` and the examples have. These loops break at `b""`, and so
  both are fair to a next `read()` only while it has not been returned (`~ended`);
  `HandleOn` says the same of a handler.
  That anything raises is never assumed (`Raises`, `RefusalFails`, `SenderRaises`).
- **The link.** It delivers what was sent unless it closes
  (`WF(FeedData)`, `ServerFed`, `ClientFed`); it need never close, come up or be
  lost, and `FeedEnd`, `Establish` and `LinkLost` have no fairness.

## What is proved

### PipeIO

`PipeIO_proofs` proves for every capacity, every set of sizes and every length
of the stream, from the named assumptions on the constants and from `GIL`:

- `Invariance`: `Spec => []IInv`, through `InitInv` and `NextInv`;
- `TypeCorrect`, `ReadsInOrder`, `WakeupsArrive`, `EndAfterData`: the four
  safety properties of the run, which follow from it;
- `PipeIsAStream`: the pipe implements `ByteStream`.

None of the properties is inductive. `InOrder` says nothing about the bytes
that are still in the ring, nor about `_available` while a thread has copied but not
yet counted. `IInv` adds exactly that:

- `RingHolds`: the slots between the two positions hold the next bytes of the
  stream, and the write position is where the last of them ends. It is stated
  with `Held`, the number of bytes in the ring by the history, and not with `_available`;
- `CountLags`: `_available` is `Held`, less a chunk that the writer has copied
  and not counted, plus one that the reader has taken and not counted. So it
  is always on the safe side for the other thread: the writer sees no more
  room, and the reader no more bytes, than there are;
- `WriterKnows` and `ReaderKnows`: what a thread has tested stays true while
  the other one runs, e.g. room seen by the writer only grows;
- `OneAtATime`: the two are never both between unbroken steps, hence `wtmp` and
  `rtmp` are the current `_available`;
- `EndKnown`: a read about to return `b""` has seen all that was there at `close()`.

The step of the proof has one lemma per action that changes the ring
(`WCopyInv`, `RCopyInv`, ...) and one per thread for the rest. The arithmetic of
the positions is in `Wrap`, `AdvancedIsSlot`, `SlotsAdd` and `SlotIndex`, free of state.
The refinement maps WStore to Put, RCopy to Take, BeginClose to Close and a
return of `b""` to End.

One thing the proof showed: `WakeupsArrive` does not need the second signal
of lines 119 and 120; the order of tests and clears is enough for it.

### CallbacksIO

`CallbacksIO_proofs` proves for every message that fulfils `ParserAssumption`,
every cut of its body, every capacity and every set of threads with their methods:

- `IOInvariance`: `Spec => []IOInv`, through `IOInitInv` and `IONextInv`;
- `IOTypes`, `BodyStaysInOrder`, `EndMeansComplete`, `SizeIsBodyLength` and
  `HeadersAreWhole`: the five safety properties of the run;
- `MessageIsAStream` (in `MessageStream_proofs`): the body as it is read implements
  `ByteStream`.

Except for the types, none of the properties is inductive: each relates what
one thread is told to what another one has done, and in between lies the rest of a
method. So the invariant is about the texts in `todo`:

- `InputInv`: what the parser has still to find is the rest of the message;
- `FeedingInv`: where `on_body` is in its three accesses, and that what it has passed
  on and counted is what the parser has found (`Found`) but for what its text still holds;
- `StreamInv`: the units read and those in the pipe are the body from its first unit
  on, and all that has arrived unless the callbacks are gone;
- `PromiseInv`: an access that tells other threads something (`Set("header")`,
  `Set("url")`, `Set("message")`, `Finish`, `Shut`) stands in a text only if what it
  tells is true already, or an earlier access of the same text makes it true: a
  `Store`, a `Wait`, or the `Unhook` after which nothing is promised any more. `Promise`
  is preserved when the first access of a text is done (`PromisePops`) and when
  another thread adds facts (`PromiseGrows`), so no pair of methods has to be looked at;
- `FactsInv`: what follows from it for events, `eof` and the history variables;
- `StoredInv`: what the parser has found is stored or about to be.

`Promise` of every callback and method is in `CallbackTexts` and `OperationTexts`.
The body's length is a fold over the message; `Before` is the same as a function on
the natural numbers, and `FoldTheorems` connects them.

The refinement maps DoPut to Put, DoTake to Take, DoFinish and DoShut to Close and a
DoReturn with nothing in its hands to End. `sealed` can not be had from the other
variables, since a write goes on after a close.

### HttpServer

`HttpServer_proofs` proves for any message, any route, any handler, any timeout
and any end of the link, from the named assumptions on the constants:

- `ClosedBeforeAnswer`: `AnswersWhenClosed`; `AnswersOnce`: `OneAnswer`;
- both follow from `ServerInvariance`: `ServerSpec => []HandleInv`.

`AnswersWhenClosed` is not inductive, since between the call of `close()` and
its effect there are steps of other threads. `HandleInv` says where the thread's
promise to close is: from the first `close()` on, `hooked` is false or a
`drain()` is still in the text of the thread (`ClosedFirst`), and that text
ends before `handle_request` goes on (`BackFromClose`). `Texts` says what such
a text is made of; in particular nothing in it hangs up the callbacks again,
so the steps of the other threads (`StepInv`) need not be told apart.
`AnswersSoFar` gives the answers for every place of the thread, and that the last of them is
whole when the thread is done.

The thread of `handle_request` uses the request only by its methods, and so keeps
its invariant: `LinkInvariance` is `HandleInv`, `IOInv` and the ranges of the server's
fields together, and gives

- `ServerTypes`: `ServerTypeOK`;
- `FunctionsSeeAll`: `FunctionsSeeTheRequest`. `OpenMeanwhile` says that while the link
  delivers nobody has an `Unhook` to do before the handler has returned, so that
  what `IOInv` says of an open request holds there; `SeenInv`, that from then on a
  function's request is only closed and not read any more;
- `NoRefusalInTime`: `NoFalseRefusal`, whose premise `HostFirst`, that a
  part of the body comes behind a Host header, is needed: without it the code does refuse
  (see above). `UrlInv` says that a thread never sleeps on an event that is set
  (`Sleepers`), that the feeder waits nowhere but in `on_body`, by which time both events
  of `wait_url` have been announced (`Announced`) and nothing clears them any more
  (`Cleared`); so the thread and the feeder never both wait while the link delivers. And
  `url_event` means that there is a request line (`UrlFirst`), so `wait_url` comes back without
  one only from a `close()`.

### Routes

`Routes_proofs` proves for any patterns, paths, methods, handlers and types of parameters:

- `TableIsADict`: `RoutesTypeOK`; `ExactRoutesFirst`: `Precedence`;
- `NotFoundOnlyWithoutRoute`: `NotFoundIsRight`; `HandlersGetTheirParams`: `ParamsFit`;
- `RegistrationIsLocal`: `RegistersLocally`; that no request goes over from one old route to
  another is `PlacedKeeps`, about the place that a route gets in the table.

`RoutesInv` adds to the types that no key is in the table twice and that each route has the
parameters of its own pattern. The rest is about one table: that `match_pattern` and
`Language` agree, and that what `extract_params` finds in a path that matches are the
parameters that `parse_route_spec` has found in the pattern (`CalledWithItsOwn`; `OnlyKeeps`
says that what is left of a pattern is all of its braced segments and nothing else).

### HttpClient and its messages

`HttpClient_proofs` proves for any number of links and requests and bodies of
any size:

- `ClientTypeCorrect`: types, and one framing per message;
- `NoLinkIsLeft`: `NoStrayLink`; `LinksAreUsable`: `LinkIsUsable`;
- `BodiesArriveWhole`: `ArrivesWhole`; `NoEarlyEnd`: `NeverEarly`.

The invariant is `SendInv /\ LinksInv`. Of the two link properties each needs
what `CallOK` adds: while `connect()` waits or gives up, the link it asked for is
the client's, and no link that the client has was closed by it. With `LinkOK`,
`server # "none"` means that the link has come up, which is what `WaitEnds`
tests. The callback that comes late, between `WaitEnds` and `GiveUp`, is just
another `Establish`. The parts of a message reach the link through `SendPieceInv`.

For the two properties of what the receiver finds `WireInv` (`WireInvariance`) says what is on
the wire: a head with the framing, then data that adds up to what has been taken from the
body, and a last part only when all of a closed body has been taken. `Found` is a fold, and
what it becomes when a part is appended is a theorem of `FoldTheorems`.

### SocksProxy

`SocksProxy_proofs` proves for any number of clients, anything they send, and
responses and pipes of any size:

- `SocksTypeCorrect`: `SocksTypeOK`, with the bound of the pipe and at most one
  call that keeps the loop;
- `ResponsesAreWhole`: `WholeResponse`.

`SocksInv` adds to the property what makes `pipe.read()` reach the end:
`Counted` (the units with the client and in the pipe are those the thread has
put, which are among those that have arrived), `EndsInOrder` (the thread has closed the pipe
only when nothing more comes and all is put; `join` is reached only behind that and with an empty
pipe, unless the client has left) and `EndKnown`. `OneBlocks` is inductive by itself: only a
task that runs can block, and none runs while one blocks.

### Assumptions

`PipeIO` is proved for an interpreter with a GIL. Of the runs' bounds only `MaxRoutes`,
`MaxLinks` and their like are constants of the theorems too, and any number will do.
The assumptions named in the modules are all that the proofs use.

### Only model-checked

Liveness: properties under fairness, and ENABLED, are beyond the provers. That is
`WritesFinish`, `DataArrives`, `EndArrives`, `CloseReleasesReader`, `ReadsToTheEnd`,
`LinkEndReleases`, `Answered`, `TransportFreed`, `FirstAnswered`, `ServerThreadsEnd` and
`ClientsReleased`. Every invariant and action property of the runs has its theorem.

The induction theorems of the library take an operator and can not be used by these provers;
`FoldTheorems` proves induction for a set of natural numbers instead, which is enough for
sums and for sequences that are looked at from the left.

## What is not modelled

- The URL class, identities, announcing, command lines, `_compat`, the build: no
  state, or calls of RNS that are made once.
- RNS and httptools, except as they are used: links that come up, end or are lost;
  callbacks in order from one thread, data or an end; callbacks of the parser in
  the order of a message. `is_connected` stays true after a link is lost, as the
  client asks for no such callback.
- Several threads writing one `PipeIO`, which the class does not support
  (if RNS ran the reader's callbacks in parallel, that would happen).
- A second message on one `RequestIO` (on a link of `HttpClient` it never
  arrives), `wait_chunk`, timeouts of waits other than the server's and the SOCKS proxy's.
- Asynchronous generators, which take the path of generators.
- Routes that are changed while they are being looked up.
- What the HTTP proxy example does with the server it forwards to.
- An exception of the parser in the client, which nobody catches.
- A path of `None`, which gives a 404.
- In `HttpSendTo`, header names in other than lower case, which it does not
  recognise, and a `content-length` header set by hand.

## Plan

1. An abstract message (headers, body and end become known once and stay) that
   `CallbacksIO` refines until it is closed.
2. A second message on one `CallbacksIO`, and the readers that never come back
   (the excluded cases of `TransportFreed`) as properties of their own.
3. An abstract client and server that exchange one request and one response, refined by
   `HttpClient`.
