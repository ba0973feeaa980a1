# TLA+ specifications of the video, chat, web and WebSocket servers

This directory specifies the concurrent core of the programs of this repository, checks it with
TLC on small instances and proves part of it with TLAPS for every instance.

## The system

| Component | Code | State | Operations | Hard behaviour |
|---|---|---|---|---|
| Threaded task | `process/` | flag `mRunning`, a thread | `start`, `stop`, `threadLoop` | the flag is shared by owner and thread without a lock |
| TCP server library | `tcp/src/internal/TcpServerInternal.cpp` and the listeners | vector of clients, `mReady`, `mRunning`, per client a socket, `mError`, a listener task | `Reserve`, `Start`, `Update`, `Send`, `Stop`, `Release`, `addClient`; `Send`, `Receive` of a client | one thread per client, one accepting, one in main; no lock at all |
| Applications of it | `tcp/tests/chat-server.cpp`, `src/video-server.cpp` | names, frames | `OnConnect`, `OnReceive`, `OnDisconnect`, the loop of main or of the capture thread | callbacks run in three kinds of threads |
| TCP client library | `tcp/src/internal/TcpClientInternal.cpp`, `TcpServerListener.cpp` | `mSocket`, `mConnected`, a listener task | `Connect`, `Disconnect`, `Send`, `Receive`, `disconnected` | main and listener share everything without a lock; the listener can stop and delete its own task |
| Video clients | `src/video-client*.cpp` | a frame and two plain flags | main loop, `OnReceive` | busy-waiting on unsynchronised flags |
| Scope runner | `web/utility.h:311-354` | an atomic counter | `continue_lock`, `~SharedLock`, `stop` | weak compare-and-exchange, closing while handlers enter |
| WebSocket server and client | `ws/` | connections, send queue, `closed`, timers | send, send_close, read, timeouts, stop | asynchronous handlers on several threads |
| HTTP server | `http/server.h` | set of plain pointers to connections; per connection a socket, a timer, a request's buffer | accept, read, find_resource, upgrade, write, stop | handlers of expired timers, silent peers, `stop()` and the destructor against handlers |
| HTTP client | `http/client.h` | connection pool | request, reconnect, prune, stop | shared `io_service`, retry once |
| Parsers, crypto, status codes | `web/` | none | conversions | none: sequential text |
| Manager | `manager/` | none of its own | creates the web and WebSocket servers | none of its own |

How they interact: an application derives from `TcpServer`; the library calls it back from the
accept thread (`OnConnect`), from a client's listener thread (`OnReceive`) and from the thread
that calls `Update` (`OnDisconnect`). The accept thread and every listener are threaded tasks. The
video server runs, in the thread of one more task, two servers per resolution: one answers
requests (`VideoServer`), the other is sent every frame by the capture thread
(`VideoBcastServer`). The HTTP and WebSocket libraries run handlers on the threads of an
`io_service`; each handler holds a lock of the scope runner around its body, and destructors
close it.

What makes each of them correct: tasks - one thread per task, none left when the task is deleted,
`stop()` returns. Server - no use of a deleted client, frames whole and in order on every
connection, nothing left after `Release`, `Stop` and `Release` return. Client - a connected
client receives, a disconnection is announced once, the listener survives its own end. Scope
runner - no handler after `stop()`. WebSocket - messages go out in order, no more close frames than
threads, one of `on_close` and `on_error`. HTTP - one answer per request, the set of connections is exact, a
retry at most once, the pool neither leaks nor shares.

## The modules

`ThreadedProcess` - the protocol of a task. `mRunning` is the code's flag, `pc` the position of
the thread in `threadLoop`, `call` the position of the owner (inside `start()` after
`pthread_create`, inside `stop()` in `pthread_join`, or between calls). Every access to the flag
is a step. Operations outside the code (the derived class's three functions) are reduced to their
return. `ThreadedProcess_proofs` holds its theorems; `MCThreads` has its instance, side by side with
that of `ScopeRunner`.

`TcpServer` - the server library with its three applications; the constant `Apps` says which a run
looks at, the variable `App` which of them it is. It
composes one `ThreadedProcess` per listener and one for the accept thread: `TP == INSTANCE
ThreadedProcess` shares `mRunning`, `pc` and `call`, and the tasks' steps are conjoined with the
server's. The correspondence of the rest:

| Variable | Code |
|---|---|
| `mReady`, `running`, `vec` | `TcpServerInternal::mReady`, `mRunning`, `mRegisteredClients` |
| `listening` | `listen()` has succeeded on the socket |
| `changing` | the thread that is inside `push_back` or `erase` |
| `mem`, `fd`, `mError` | a client object and its listener's view: constructed, deleted; its descriptor (`"bad"` is -1); `mError` |
| `peer`, `sent`, `got` | the other end of the connection, the parts (length or body) it sent, those the server has read |
| `last` | the last part the kernel took for a client: which thread sent it, length or body, which message |
| `at`, `writing`, `newcomer`, `idx`, `doomed` | each thread's position, the message it is in the middle of sending, `addClient`'s client, `Update`'s index and `toRemove` |
| `fate` | `"up"`, or how the process ended |

A send of a message is two steps per client, as in the code; a broadcast reads the vector and its
size again for every client. The first undefined behaviour ends the run: `"dangling"` (a deleted
client or task is used), `"garbage"` (`mListenerTask` is used before it was written), `"torn"`
(the vector is used while another thread changes it; a reader may also get away with the old
value). A send to a peer that has reset the connection fails unnoticed or kills the process
(`SIGPIPE`). `accept`, `listen`, `bind` and `pthread_create` may fail. A message of a peer
arrives whole, or half before the peer leaves: an interleaving in which the body is late is one
in which the reader is slow. `delete` of a listener task, `close` and `delete` of the client are
one step of `DeleteClient`.

Not in it: the branch of `addClient` for a refused client and the reuse of a released server
(no application does either), memory never freed, the text of chat messages and the map of names
(a second unlocked container with the same accesses as the vector), the pixels of a frame.

`ScopeRunner` - every access to the counter is a step, and a weak exchange may fail for no
reason. `ScopeGuard` is the promise, in three actions; `GuardSpec` is the refinement, with the
handlers in their bodies as `active`. A handler that destroys its own owner waits for itself; the
model keeps handlers and callers of `stop()` apart.

`WebSocket` - both ends of one connection, `ws/server.h` and `ws/client.h`, which are one design
with few differences: parameters `e \in Ends` and a test of `e` where they differ. An
asynchronous operation completes in one step (`Succeeds`, `Fails`, `Written`, `WriteBreaks`: asio
and the kernel) and its handler runs in another.

| Variable | Code |
|---|---|
| `next`, `cur` | the outstanding operation of the chain accept or connect - handshake - `read_message` - `read_message_content`, and its result; the frame whose header has been read |
| `posted`, `starts`, `send_queue`, `wr` | lambdas of `send()` and of `send_from_queue()` on the strand, `send_queue`, the `async_write` of its first element |
| `timer`, `fired` | `Connection::timer`; handlers of expired timers, which `cancel()` no longer stops |
| `closed`, `fragmented` | `Connection::closed`, `fragmented_message` |
| `socket`, `link`, `wire` | the sockets; the TCP connection and the parts of frames on their way |
| `opened`, `delivered`, `ended`, `conns` | calls of `on_open`, `on_message`, `on_error` and `on_close`; `Endpoint::connections` |
| `at` | who has passed `if(closed)` in `send_close()` and not yet set it: reader, timer or application |
| `stop` | how far `stop()` and the end of `start()` are |

A handler is one step, but for `send_close()`, cut between its test and its assignment.
`CanRun` lets a handler start when one of the `Pool[e]` threads (`config.thread_pool_size` at the
server) is free. A frame is its kind and
its number; a message has the size of its fragments, which is all that `max_message_size` sees.
`WsLifecycle` is the promise to the callbacks; `LifecycleSpec` states that both ends implement
it. Not in it: the counts of bytes that the client carries from the handshake's response into
the first frames (`WsReader`), TLS, `upgrade()`, more connections than one, and objects destroyed
while handlers are pending, for which the scope runner is responsible.

`HttpClient` - a client of `http/client.h`, its pool and the requests made through it, as an
application makes them: synchronously, where the threads inside `request()` run the `io_service`,
or asynchronously with an `io_service` that is always run. An operation completes in one step
(`OpensOrWrites`, `Reads`: asio and the kernel) and its handler runs in another; a handler is one
step, since it touches what it shares with others once, under `connections_mutex`.

| Variable | Code |
|---|---|
| `phase`, `stopped` | how far a thread is in `request()`; whether the `io_service` has run out of work. `Counted` is `concurrent_synchronous_requests` |
| `called` | the callback, with or without an error |
| `conn`, `op` | `Session::connection`; the outstanding operation of the chain resolve - connect - write - header - content, rest, or chunks - and its result |
| `got`, `taken` | the parts put in `Response::streambuf`, how many have been taken out |
| `connections`, `in_use`, `attempt_reconnect` | the pool, `Connection::in_use`, `attempt_reconnect` |
| `socket`, `timer`, `fired` | the socket (`"gone"` with the last pointer to its connection), an armed timer, the handler of an expired one that `cancel()` no longer stops |
| `link`, `requests`, `answers` | the TCP connection, what is under way in both directions |
| `handled`, `late` | how often the server has handled a request; handlers queued for requests it had read when their connection was lost |
| `stop_called`, `alive` | `stop()`, the destructor |
| `style`, `kind`, `thread`, `faults` | how requests are made, how each is answered, which thread makes it; the faults that may still come |

A Content-Length that is no number makes `stoull` throw out of the handler (`HeaderThrows`, `client.h:489`):
nobody is called back, the connection stays in the pool and in use, and the thread that ran the handler
leaves `request()` without counting itself down or resetting the `io_service`.

The server is `http/server.h` as the client sees it: it answers the requests of a connection in
turn (`Serves`) and may close it, or lose it, at any time with a part of what was on its way
(`Closes`). What it had read of such a connection it may handle later (`ServesLate`): a close does not
withdraw a completed read whose handler is queued. An answer is the parts of its kind, each tagged with its request, so that one request's
bytes in another's response show; the kinds are the branches of `read()`. The text of requests and
headers, the proxy and TLS are left out. `HttpCall` is what a caller relies on: one callback,
success only after a server has handled the request, none handles it a third time. It allows a server to
handle the first attempt late, after the second has succeeded. `CallSpec` is the refinement.

`WsReader` - what the client's `read_message` does with bytes that have come along with the
response to the handshake. `held` is the size of `Message::streambuf`, `additional` the argument
`num_additional_bytes`, `frame` and `at` which read is outstanding. Since the buffer holds
consecutive bytes of the stream its size is enough: a read that takes less or more than it
wants is `"lost"`, after which the code reads anything for a header. The opcodes, masks and limits
are those of `WebSocket`, which has no bytes.

`HttpServer` - the server after `start()`, its connections, and the requests made on each. An
operation completes in one step (`Receives`, `Written`, `Fails`: asio and the kernel), and its
handler is another, for the same reason as in `HttpClient`; only the handler of `async_accept`
is two, because it re-arms the acceptor (`AcceptHandler`) and then reads (`FirstRead`), with
`stop()` between them.

| Variable | Code |
|---|---|
| `acceptor`, `accepting` | `acceptor` is open; the outstanding `async_accept` and what has become of it |
| `connections` | `ServerBase::connections`; `"waiting"` is the object that `async_accept` has |
| `phase`, `done` | who has each connection: the accept handler (`"accept"`, `"session"`), a read or write and its result, the application (`"app"`), the handler of an expired timer (`"dropped"`), `on_upgrade`, nobody |
| `got`, `taken` | the parts put in `Request::streambuf`, how many of them were taken out |
| `socket`, `timer`, `due` | the socket (`"late"` while asio has it and the connection not), an armed timer, the handler of an expired one that `cancel()` no longer stops |
| `sends` | how often the application has called `Response::send` |
| `peer`, `req`, `sent` | the other end, its last request, the parts of it that it has sent |
| `handled`, `answered`, `refused` | the last request given to a resource, the last answered, whether with the server's own 413 |
| `stopping`, `runner` | how far `stop()` is; the scope runner |
| `fate` | the run ends when the handler of an expired timer uses the socket that `on_upgrade` has moved |

A request is its kind and its parts: the header; a content; or two chunks, each a size and data,
of which the second is the empty one. The kinds are the branches of `read()`, of
`read_chunked_transfer_encoded()` and of `find_resource()`. A peer makes the next request when the
last is answered, as `http/client.h` does; a peer that pipelines loses what came along with its
request, because the next session has a new buffer, and is left out. `HttpTurns` is what a client
of a kept connection counts on: requests are handled and answered in turn, once. `TurnsSpec` is the
refinement. Not in it: a second `start()`, the text of requests and responses.

`TcpClient` - the TCP client in the three programs built on it: `chat-client.cpp`, and
`video-client.cpp` and `video-client-bcast.cpp` with their loops. It composes one `ThreadedProcess`
(`TP`), the listener's task. Main and Listener are threads, one step is one access to what they share.

| Variable | Code |
|---|---|
| `mSocket`, `mConnected`, `open` | `TcpClientInternal::mSocket` has been assigned, `mConnected`; the descriptor is open |
| `up`, `down` | `OnConnected`, `OnDisconnected` have been called |
| `peer`, `wire`, `asked`, `cast` | the server, the parts of messages on their way, a request not answered yet, the frames broadcast |
| `at`, `back` | each thread's position, and where `disconnected()` or `Disconnect()` returns to |
| `message`, `canvas`, `frame`, `shown` | the message the listener has; `mCurrentFrame`: its memory, the frame in it, the frame last shown |
| `dataReceived`, `processingData` | the two flags of `video-client-bcast.cpp` |
| `fate` | the process is killed by SIGPIPE, ended by an exception of `imshow`, or uses deleted (`"dangling"`) or unwritten (`"garbage"`) memory |

`TcpLink` is what an application may count on: connection and loss are told at most once each
and after they have happened. It allows the loss to be told first, because the listener is started
before `mConnected` is set. The pixels, the windows and the channels that `video-client-bcast.cpp`
shows are left out; a frame is its number, `Torn` while it is copied.

The operators described as a *mutated form* are not part of the specifications: each is the
definition that follows it with a plausible mistake, and shows that the property it is listed
with in `PROJECT.json` fails when the code has that mistake.

## The runs

| Run | Shows |
|---|---|
| `threads` | The two protocols that the threads of the programs follow; they share nothing, and a behaviour is one of either. Two tasks, all interleavings of start, stop, restart, failure and delete: the flag always tells whether there is a thread to join (`FlagTellsThread`), so none is left after delete, none doubled (`OneThread`), and `stop()` returns (`JoinReturns`). Three handlers, two callers of `ScopeRunner::stop()`: exact counter, exclusion, refinement of `ScopeGuard`, `stop()` returns once handlers cease to come. |
| `video` | `VideoServer` and `VideoBcastServer`. Two connections; one peer leaves in any way at any point, the other connects and may break its connection; one request, or two broadcasts. Whole frames, the size first although the capture thread sends to all during accepts, the task protocol kept between the thread that starts a listener and the one that stops it, everything released, `Stop` and `Release` return. `VideoServer` has no undefined behaviour; `VideoBcastServer` races for the vector and uses no deleted object. |
| `chat` | Two connections, both send a name and the first one message; the first leaves. Up to the first undefined behaviour, no client is lost between the vector and `toRemove`, none deleted while in the vector, messages read in step. |
| `chat_dead_object` (violation) | `Update` finds a client that failed in `OnConnect` and stops it before `addClient` has started it. |
| `ws_messages` | The client sends a message in two fragments with a ping between them; the client closes and the server's idle timer expires whenever they like; two threads run the server's handlers, one the client's. One write at a time, frames whole, the message in order, no more close frames than threads (`CloseBounded`), both read chains end once a close is sent, no frame stays in a queue. |
| `ws_ends` | Many ways to an end, but for the idle timeout, which `ws_messages` has: handshake timeouts, `stop()` at either end, a broken network, another implementation that refuses the handshake or sends wrongly masked frames, a message too big. The callbacks see one life of a connection; the server's set is exact. |
| `ws_close_twice` (violation) | A server of two threads: the application in one and the idle timer's handler in the other both find `closed` FALSE (`ws/server.h:307`), and two close frames are sent, against "Send close only once" (`:306`). |
| `ws_early_frames` (violation) | The header of a frame of one byte comes along with the response: the byte is never read as the content, and taken for a header. |
| `http_client` | Two synchronous requests of one thread or of two, or two asynchronous ones, with answers by length, in chunks, to the end of the connection, without content, too big, malformed, or with a length at which the handler throws, and one or two faults: expired timers, lost connections, failed operations, `stop()`, the destructor. A connection serves one request at a time (`NotShared`), at most one is idle, an answer is the request's own and whole, a request is sent again at most once and handled at most twice (`CallSpec`), a synchronous request returns without an answer only if another thread was in `request()` or an exception has left it (`AnswerUnlessDisturbed`), and every other request is called back (`AllSettled`). |
| `http_retry` (violation) | A connection lost inside a header: what was read of it stays in front of the second attempt's answer. |
| `http_server` | Every kind of request - with content or in chunks, on a kept connection, too big, not understood, without a resource, upgraded - from peers that stop, leave or say nothing, while timers expire late, accepts fail, `stop()` and the destructor run. The set of plain pointers is exact (`SetIsExact`), a request reaches the application whole (`WholeRequest`) and in turn (`TurnsSpec`), every connection comes to an end (`Drains`). |
| `tcp_client` | Each of the three programs, with a server that sends, stops in mid-message, leaves or resets at any moment. Connection and loss are told once and after the fact (`LinkSpec`), the deleted listener is used only where it has deleted itself (`NoUndefinedBehaviour`), main comes to an end (`MainEnds`), the last frame is shown (`FrameShown`). |

`FramesIntact`, which `video` checks, does not hold of the chat server: it sends to a client from
the accept thread, from every listener and from main, and `TcpRegisteredClientInternal.cpp:28` sends length and body apart.

Bounds. Two connections let one be accepted, served or removed while another is; all the
races of the server are between two threads or three (acceptor, main, one listener), and a third
connection repeats them. `MaxFrames` and `Departures` bound what each peer does: in `video` and
`chat` the second peer is passive, which keeps its thread, its place in the vector and the
broadcasts to it. Two broadcasts let one begin before and one after a client is registered. In
`threads` three handlers let two move the counter away from and back to the value a third has
loaded. In the WebSocket runs a script of at most three frames contains every kind of frame that
changes `fragmented_message` or the queue, and a pong and a close are queued at the server at
once; the sizes 0 and 2 are a limit that the message exceeds and one that it does not. Two threads let two
handlers of the server be in `send_close` at once; the client has the thread of `start()`. `ws_ends` keeps to one
thread and arms no idle timer, which would be too many states; `LifecycleImplementation` and
`ConnectionsAreExact` hold with both.
In the HTTP runs two requests let the second take the connection that the first gave back, or be
under way with it; four connections are one each and one retry each. `Cases` pairs every
kind of answer with another; they are independent but for what a connection carries over. Each case
says how many faults may come, two at most: one starts a retry, the second ends it, or a late timer meets the
request after. Two threads are in the case of the shortest answers: what one does to the other, it does
through `run()` and the pool, whatever the answers are.
`HeadersTear` keeps `http_client` to connections lost between parts of an answer, because a header
torn in two breaks `RightAnswer` as `http_retry` shows. At most one handler of an expired timer
waits per connection.
In `http_server`, `Singles` puts each kind of request on one connection, two of them on a kept one,
where `FirstRead` and the second `Read` differ; `Pairs` has a second connection beside one that is taken
over, so that the accept chain, the set and `stop()` deal with two. The services of both kinds
(`internal`) occur. One call of `send` by the application (`MaxSends`) is one more than none.
In `tcp_client` three frames let one be copied while another is shown and a third waits; two messages on the
wire keep the listener busy. In `ws_early_frames` the contents lie at the limits of each form of the
length, and `MaxEarly` covers a whole frame of the middle form.

Fairness. Threads are scheduled (weak fairness on each thread's steps); nothing obliges main to
quit, an owner to call, a peer to send. `StopCompletes` exempts a `mute` peer, one that neither
reads, writes nor leaves: the code blocks for ever in `recv` or `send` on it. In `ThreadedProcess`
weak fairness of the thread assumes that an inner function returns; `TcpServer` shows when it does. In `ScopeRunner` an exchange
that could succeed for ever is assumed to succeed, and a body to return; entering is not fair.
In `WebSocket` the handlers, timers and the kernel of both ends go on (weak fairness of the
disjunction of their steps: every behaviour has finitely many, so that this is fairness of each);
nobody must send, close, stop or break anything.
In `HttpClient` the same holds of `Progress`: a thread in `request()` goes on, the `io_service`
runs, a read ends once there is something to read or the connection is lost, and the server answers
what it has received. No timer, `stop()` or loss is counted on; in particular a timer whose handler
runs between two reads of one `async_read` finds nothing to cancel, so that the timeout is no
guarantee and `AllSettled` does not use it. Nor is a late handler of a server that may be about to end
(`ServesLate`). `AllSettled` exempts what the code leaves unsettled: the request whose length throws, those that
return without an answer because the `io_service` was disturbed, and those of a destroyed client.

In `HttpServer`, `Progress` contains the handlers, the expiry of timers, the failure of operations on
a dead connection and the application's `Release`: nobody must send, read, leave, or call
`stop()`. `Drains` therefore rests on the timers alone; with `Timed = FALSE` it would be false.
In `TcpClient` both threads are scheduled and a reset that was sent arrives; the server and the user
need do nothing. `MainEnds` exempts a listener that waits for ever in `recv` (`ListenerWaits`), which
`Disconnect` joins.

Deadlock is checked everywhere but in `HttpClient`, which stops when nobody makes another request
(`AllSettled` says what must hold then); `Terminated`, `AllDeleted` and `Quiet` say where the other
systems may stop.

## The proofs

`ThreadedProcess_proofs`: for any set of tasks, `QuietWhenDeleted` and `OneThread`. Neither is
inductive: after `stop()` has returned early one must know that a FALSE flag means no thread.
`FlagTellsThread` says what the flag means at each position of the owner; with the types it is
inductive, because the thread never writes the flag (the mutant in which it does breaks it).

`ScopeRunner_proofs`: for any finite set of handlers (`ThreadsAssumption`), the counter equals
the number of holders or is -1, no handler is in its body after `stop()`, and every step is a step
of `ScopeGuard` or a stutter. The invariant is `CountsHolders` with the types and
`StoppedIsClosed`; the work is in the cardinality of the holders when one enters or leaves.

`TcpServer_proofs`: for any number of clients, of messages and of ways of leaving. Under the three
programs `IInv` gives the types, `NoLostClient`, `VectorLive` and `InStep`: who may be calling on each
task (`TasksOK`), which of addClient, the vector and `toRemove` holds a client (`ListsOK`), and that
what was read of a connection ends with a whole message but for the one thread between two parts
(`Aligned`). Under the two video servers (`NotChat`), which never call `Update()`, `VInv` adds who sends to
whom (`Orderly`) and the life of each listener's task along its client's (`Lives`); with them
`NoUndefinedBehaviour` becomes inductive, `AllReleased` follows at the end of `Release()`, and every step
is one of `ThreadedProcess` for the accept task and each listener's (`TaskProtocol`). `FInv` adds that
two threads never write to the same client (`Framed`), from which a length and its body stay
together (`FramesIntact`) and the size comes first (`SizeFirst`). Of the chat server neither
`NoUndefinedBehaviour` (`chat_dead_object`) nor `FramesIntact` is true.

`WebSocket_proofs`: for any scripts, limits, timeouts and numbers of threads. Each invariant is the
one before with what the next property needs:
`SendInv` (types of the queue) makes `OneWriter` inductive: an idle writer is one without a result, so
that `WriteFailed` is known to end a write. `Typed` gives `TypeOK`. `ToldInv` relates what was told to the
places of the chain of reads (`Life`); it gives `SetIsExact` and the refinement of `WsLifecycle`. `NetInv`
says that an end in its handshake has sent nothing (`Silent`), and when the TCP connection can be there
(`Fresh`); `FramesInv` that the frames under way are those of the other's script, by their number, or
pongs and closes. `WholeInv` says that on the wire each part fits the one before it, the one read
last included, and that the last is a header exactly when the other end is between its two writes,
unless what that one writes reaches nobody any more (`Dead`): this is `FramesWhole`. `OrderInv` splits the
frames a sender has numbered at an `m`: those up to it were heard, are about to be, or are on the wire
(`Behind`), those after it are in the queue or posted, in this order (`Ahead`): this gives `InOrder`.
`CloseInv` counts: the close frames an end has posted and the actors that have passed the test of `closed` and not
set it are never more than its threads (`CanRun`), and none is posted while `closed` is FALSE. This gives
`CloseBounded`, one close frame a thread; `ws_close_twice` shows that with two threads there may be two.
One hypothesis: `InOrder` is proved when no script has a whole
message between the fragments of another (`MessagesApart`): the reader drops the fragments it has when a
whole message comes, which RFC 6455 forbids the sender, and TLC shows the message lost.

`HttpClient_proofs`: for any requests, threads, connections, kinds of answers and faults.
`NotShared` is not inductive: a new connection is nobody's because
whoever holds one holds one that was created (`Created`), and a request that has begun no operation
has none outstanding (`Posted`), so that a callback or a retry cannot run inside `request()`
(`IInv`; it gives `OneIdle` too). Each
action is shown either to leave pool and owners alone (`PoolUntouched`) or to be one of the three
that move a connection: `GetConnection`, `Retry`, `Callback`. `TypeInv` adds the types and that the part
a handler reads has come (`ReadsPart`), the first header being found with the least-number principle
(`WFMin`). `SentInv` says where the request of a session can be, operation by operation (`Session`), on the
way, with the server or answered; that a request on a connection is that of its session or of one that
gave up (`LeftOK`); that a free connection has no header under way (`CleanOK`); and how often each was
handled, and will be by a late server (`CalledOK`): the refinement of `HttpCall`. `AnswerInv` says that what a session has read
and what is under way to it begin its answer (`Wire`), and that nothing is under way on a
free connection (`EmptyOK`): `RightAnswer`.
`CallsOK` follows the synchronous requests: as long as nobody disturbed a request (`Disturbed`), it finds the
`io_service` not stopped, and its `run()` returns only when it has been called back: `AnswerUnlessDisturbed`.
Two hypotheses. `RightAnswer` is proved if no
connection is lost inside a header (`NoTornHeader`: `http_retry` shows what happens then) and every header
tells where its answer ends (`EndsTold`): without a length, chunks or HTTP/1.0 the client calls back
at the header, and gives the connection back with the content still to come.

`HttpServer_proofs`: for any number of connections, any requests and any limits, the types,
`WholeRequest`, `SetIsExact` and `TurnsSpec`. The invariant has a part per connection (`ConnOK`),
which says at each place of the chain what has been read, handled and answered: `WholeRequest` needs
it because `got >= Parts` is tested and equality claimed, which holds since nothing is left in
the buffer of the request before. A step on one connection leaves the others alone (`ElseConn`), the four
handlers that read go on in one of six ways (`Went`). `SetIsExact` becomes inductive with `StopOK`:
outside the destructor `stop()` finds the acceptor open, and each step keeps a connection, loses
it, accepts it or re-arms the accept (`StepSet`).

`TcpClient_proofs`: for any number of frames and messages, the types, the refinement of `TcpLink`
and `NoUndefinedBehaviour`. `TaskOK` says who owns the listener's task at each position of Main and
`Clean` that the listener has not ended the connection itself; `PlaceOK` and `FlowOK` relate the
part a reader waits for to the first part on the wire, and `SizeOK` puts the size before any frame.

`WsReader_proofs`: for any frames, `ReadInStep` when the response came alone or with exactly one frame
that has not one byte (`GreetingIsRead`); `ws_early_frames` shows that not all cases are such. The invariant
says what `additional` really counts: the buffer before the last part was taken out.

Only model-checked: all liveness (`JoinReturns`, `StopReturns`, `StopCompletes`, `CloseEnds`, `QueueDrains`, `AllSettled`, `Drains`,
`MainEnds`, `FrameShown`; fairness and `ENABLED` are out of the prover's reach). Every safety
property of a passing run has a theorem. `AnswerBeforeReturn` is in no run: it says that the synchronous
`request()` always returns after its callback, which two threads or a malformed length refute;
`AnswerUnlessDisturbed` is what remains of it.

## Met while modelling

Behaviour that is in the models and that no run reports. No document of the repository says otherwise, but
where one is quoted.

- A task's thread may look at `mRunning` before `start()` sets it, and leave; `start()` has returned success
  (`ThreadedProcess.cpp:17`).
- The TCP client's listener may run before `mSocket` is assigned: it calls `select` on -1, and is deaf for the
  whole connection, or tells the loss before the connection was told (`TcpClientInternal.cpp:61`).
- A listener that finds the connection ended deletes its own task and returns into it (`:120`).
- `video-client-bcast.cpp` receives in two threads at once (`:92`), may show a frame that is being
  overwritten, and waits for ever at `:104` if the server leaves while it waits.
- Two threads in the synchronous `request()` of one client: the second returns a null response
  (`http/client.h:178`), although the counter of concurrent requests is there for two. Its own callback, which
  the other thread runs later, writes to the variables of a call that has returned (`:168`): the model follows
  the request, not that write.
- A Content-Length that is no number makes `stoull` throw through `run()` and `request()` (`:489`). The callback is
  never called, the connection never leaves the pool, and since `concurrent_synchronous_requests` stays
  counted, the `io_service` is not reset: each later synchronous request may return a null response at once.
- A server may handle the first attempt of a request after the second has been answered: `close()` does not
  withdraw a read that has completed (`http/server.h:239-258`).
- The handler of an expired timer of the HTTP server uses the socket of its connection after `on_upgrade` has
  moved it (`http/server.h:255`).
- After `stop()` of the HTTP server a completed accept re-arms on the closed acceptor, and each failure calls
  `accept()` again (`:704`). A connection whose socket asio assigns after `stop()` has walked the set stays open
  and is served, where the comment of `stop()` says "Stop accepting new requests, and close current
  connections" (`:379`). After `stop()` `SetIsExact` asks only that the set holds no deleted connection, so it
  allows this one; whether asio assigns a socket so late is for its version to say, not for `src/`.
- The manager's `main` stops the web server and returns without joining the thread that runs it, which ends the
  process by `std::terminate`; a `quit` typed before that thread has made the acceptor stops nothing
  (`manager/main.cpp:40`). No module contains it: the manager has no state of its own.
- The HTTP server drops what a peer that pipelines sends behind its request (`:454`).

## Not modelled

The texts that the parsers read, status codes and OpenSSL calls (`web/`): sequential conversions.
The manager, which only creates the servers. Bytes within a part of a TCP message
(`Socket::Receive` returns what it has when the connection ends inside one). The pixels of a frame, which
the capture thread rewrites while they are sent. TLS, proxies, `http/client.h`'s host names. Liveness of the chat server, whose accept
thread waits in `recv` for a silent client, and `Stop` with it.

## The plan

1. The chat server: what remains true of `TcpServer` when clients are removed while others send.
2. `HttpClient` without `NoTornHeader`: which requests are answered rightly after a retry.
3. The bytes inside a part: `Socket`'s loops with the end of the connection in mid-part.
4. The pixels of a frame between `resize`, the senders and `OnReceive`.
