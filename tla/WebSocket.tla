------------------------------ MODULE WebSocket ------------------------------
(***************************************************************************)
(* ws/server.h and ws/client.h: one WebSocket connection, the server's end  *)
(* and the client's end over one TCP connection.  At each end               *)
(*   - a chain of asynchronous operations (handshake, then header and       *)
(*     content of one frame after the other) of which one is outstanding;   *)
(*   - a queue of frames to send, served by the handlers of a strand;       *)
(*   - one timer, for the handshake or for idleness;                        *)
(*   - the application, which sends and closes from its callbacks.          *)
(* The completion of an operation and the handler that is told are two      *)
(* steps: in between a timer may be cancelled, too late, or a socket closed.*)
(* Handlers run on Pool[e] threads; each is one step, except send_close,    *)
(* which tests closed in one and sets it in the next.                       *)
(*                                                                         *)
(* A frame is its opcode and its number among the frames its application    *)
(* sends; on the wire it is a header and a body.  Locks of the handler      *)
(* runner are always granted: neither end is destroyed with work pending.   *)
(***************************************************************************)
EXTENDS Integers, Sequences, FiniteSets, SequencesExt

CONSTANTS
  Pool,            \* threads that run the handlers of each end
  Script,          \* bound: the opcodes each application sends, in order
  MaxSize,         \* max_message_size of each end, in fragments
  RequestTimeout,  \* ends whose handshake is timed
  IdleTimeout,     \* ends that time idleness
  Closers,         \* bound: ends whose application calls send_close
  Stoppers,        \* bound: ends that are stopped
  Foreign,         \* bound: ends that may be another implementation of the protocol
  NetworkFails     \* bound: the connection may break

Ends == {"server", "client"}
Other(e) == IF e = "server" THEN "client" ELSE "server"
Actors == {"reader", "timer", "app"}

Ops == {"text", "first", "last", "ping", "pong", "close", "bad"}
Frame(op, n) == [op |-> op, n |-> n]
NoFrame == Frame("none", 0)

ASSUME ConstantsAssumption ==
  /\ Pool \in [Ends -> Nat \ {0}] /\ MaxSize \in [Ends -> Nat]
  /\ Script \in [Ends -> Seq({"text", "first", "last", "ping"})]
  /\ RequestTimeout \subseteq Ends /\ IdleTimeout \subseteq Ends
  /\ Closers \subseteq Ends /\ Stoppers \subseteq Ends /\ Foreign \subseteq Ends
  /\ NetworkFails \in BOOLEAN

VARIABLES
  \* the outstanding operation of the read chain, whether it has completed, the
  \* frame whose header it has read
  next, cur,
  \* sends posted to the strand, send_from_queue posted to it, send_queue, and the
  \* write in progress
  posted, starts, send_queue, wr,
  \* the parts on their way to an end; the TCP connection; the sockets
  wire, link, socket,
  \* the armed timer and the expired timers whose handler has not run
  timer, fired,
  \* Connection::closed, fragmented_message
  closed, fragmented,
  \* on_open called, messages given to on_message, on_error and on_close called, in
  \* Endpoint::connections
  opened, delivered, ended, conns,
  \* where an actor is in send_close, how far stop() is
  at, stop,
  \* frames the application has sent, close frames posted
  count, closes

reading == <<next, cur>>
sending == <<posted, starts, send_queue, wr>>
network == <<wire, link, socket>>
timers  == <<timer, fired>>
message == <<closed, fragmented>>
told    == <<opened, delivered, ended, conns>>
control == <<at, stop>>
history == <<count, closes>>
vars    == <<reading, sending, network, timers, message, told, control, history>>

ReadOps == {"resolve", "connect", "write_request", "read_response", "accept",
            "read_request", "write_response", "header", "content", "none"}

IdleWrite == [op |-> "idle", frame |-> NoFrame, res |-> "-"]

\* Every location has its type.
TypeOK ==
  /\ next \in [Ends -> [op : ReadOps, res : {"wait", "ok", "err", "-"}]]
  /\ \A e \in Ends : cur[e].op \in Ops \cup {"none"} /\ cur[e].n \in Nat
  /\ posted \in [Ends -> Seq([op : Ops, n : Nat])]
  /\ send_queue \in [Ends -> Seq([op : Ops, n : Nat])]
  /\ starts \in [Ends -> Nat]
  /\ wr \in [Ends -> [op : {"idle", "header", "message"}, res : {"wait", "ok", "err", "-"},
                      frame : [op : Ops, n : Nat] \cup {NoFrame}]]
  /\ link \in {"none", "up", "broken"}
  /\ socket \in [Ends -> {"none", "open", "closed", "gone"}]
  /\ \A e \in Ends : timer[e] \in {"off"} \cup (IF e \in RequestTimeout THEN {"request"} ELSE {})
                                     \cup (IF e \in IdleTimeout THEN {"idle"} ELSE {})
  /\ fired \in [Ends -> SUBSET {"request", "idle"}]
  /\ closed \in [Ends -> BOOLEAN] /\ opened \in [Ends -> BOOLEAN] /\ conns \in BOOLEAN
  /\ at \in [Ends -> [Actors -> {"-", "set"}]]
  /\ stop \in [Ends -> {"no", "closing", "stopped", "exited"}]
  /\ count \in [Ends -> Nat] /\ closes \in [Ends -> Nat]

Each(x) == [e \in Ends |-> x]
Waiting(op) == [op |-> op, res |-> "wait"]

Init ==
  /\ next = [e \in Ends |-> Waiting(IF e = "server" THEN "accept" ELSE "resolve")]
  /\ cur = Each(NoFrame)
  /\ posted = Each(<<>>) /\ starts = Each(0) /\ send_queue = Each(<<>>)
  /\ wr = Each(IdleWrite)
  /\ wire = Each(<<>>) /\ link = "none" /\ socket = Each("none")
  /\ timer = [e \in Ends |-> IF e = "client" /\ e \in RequestTimeout THEN "request" ELSE "off"]
  /\ fired = Each({})
  /\ closed = Each(FALSE) /\ fragmented = Each(<<>>)
  /\ opened = Each(FALSE) /\ delivered = Each(<<>>) /\ ended = Each(<<>>) /\ conns = FALSE
  /\ at = Each([a \in Actors |-> "-"]) /\ stop = Each("no")
  /\ count = Each(0) /\ closes = Each(0)

-----------------------------------------------------------------------------
(* Helpers of the handlers.                                                  *)

Busy(e) == {a \in Actors : at[e][a] # "-"}

\* A thread of end e is free to run a handler.
CanRun(e) == stop[e] \in {"no", "closing"} /\ Cardinality(Busy(e)) < Pool[e]

\* The handler of the outstanding operation runs, told res.
Handler(e, op, res) ==
  CanRun(e) /\ at[e]["reader"] = "-" /\ next[e] = [op |-> op, res |-> res]

Await(e, op) == next' = [next EXCEPT ![e] = Waiting(op)]
NoMore(e) == next' = [next EXCEPT ![e] = [op |-> "none", res |-> "-"]]

\* A mutated form: a timeout of 0 is a timeout too.
TimeRequestAlways(e) == timer' = [timer EXCEPT ![e] = "request"]

\* cancel_timeout(), and set_timeout() with the timeout of the request or for idleness.
Cancel(e) == timer' = [timer EXCEPT ![e] = "off"]
TimeRequest(e) == timer' = [timer EXCEPT ![e] = IF e \in RequestTimeout THEN "request" ELSE "off"]
Rearm(e) == timer' = [timer EXCEPT ![e] = IF e \in IdleTimeout THEN "idle" ELSE "off"]

\* Connection::close().
CloseSocket(e) ==
  socket' = [socket EXCEPT ![e] = IF @ = "open" THEN "closed" ELSE @]

\* Connection::send(): the timer, then the frame is posted to the strand.
Send(e, f) ==
  /\ Rearm(e)
  /\ posted' = [posted EXCEPT ![e] = Append(@, f)]

\* Endpoint::connections, which only the server keeps.
Unregister(e) == conns' = (conns /\ e # "server")

\* connection_close() or connection_error() as the last call of a handler.
End(e, calls) ==
  /\ ended' = [ended EXCEPT ![e] = @ \o calls]
  /\ Unregister(e) /\ NoMore(e) /\ Rearm(e)
  /\ UNCHANGED <<opened, delivered>>

\* A mutated form: a close frame is not answered, reading goes on.
CloseAndEndIgnores(e, before) ==
  /\ IF closed[e] THEN End(e, before \o <<"close">>) /\ UNCHANGED at
     ELSE Await(e, "header") /\ UNCHANGED <<timer, told, at>>

\* send_close() and connection_close() in a handler, after the calls in before.  If a
\* close frame was sent already the former does nothing.
CloseAndEnd(e, before) ==
  \/ /\ closed[e]
     /\ End(e, before \o <<"close">>)
     /\ UNCHANGED at
  \/ /\ ~closed[e]
     /\ at' = [at EXCEPT ![e]["reader"] = "set"]
     /\ ended' = [ended EXCEPT ![e] = @ \o before]
     /\ conns' = (conns /\ (e # "server" \/ before = <<>>))
     /\ Rearm(e)
     /\ UNCHANGED <<opened, delivered, next>>

\* A mutated form: the flag is not set.
SetClosedForgets(e, a) ==
  /\ at[e][a] = "set"
  /\ at' = [at EXCEPT ![e][a] = "-"]
  /\ closes' = [closes EXCEPT ![e] = @ + 1]
  /\ Send(e, Frame("close", 0))
  /\ IF a = "reader" THEN End(e, <<"close">>) ELSE UNCHANGED <<told, next>>
  /\ UNCHANGED <<cur, starts, send_queue, wr, network, fired, closed, fragmented, stop, count>>

\* The second half of send_close(), and for the reader connection_close().
SetClosed(e, a) ==
  /\ at[e][a] = "set"
  /\ at' = [at EXCEPT ![e][a] = "-"]
  /\ closed' = [closed EXCEPT ![e] = TRUE]
  /\ closes' = [closes EXCEPT ![e] = @ + 1]
  /\ Send(e, Frame("close", 0))
  /\ IF a = "reader" THEN End(e, <<"close">>) ELSE UNCHANGED <<told, next>>
  /\ UNCHANGED <<cur, starts, send_queue, wr, network, fired, fragmented, stop, count>>

-----------------------------------------------------------------------------
(* The handshake.                                                            *)

HandshakeOnly == <<cur, sending, wire, link, fired, message, told, control, history>>

\* accept(): a connection has come, read_handshake() starts.
AcceptHandler ==
  /\ Handler("server", "accept", "ok")
  /\ Await("server", "read_request") /\ TimeRequest("server")
  /\ UNCHANGED <<HandshakeOnly, socket>>

\* read_handshake(): the request is parsed and write_handshake() answers it, or no
\* endpoint matches its path and the connection is dropped.
RequestHandler ==
  /\ Handler("server", "read_request", "ok")
  /\ \/ Await("server", "write_response") /\ TimeRequest("server")
     \/ NoMore("server") /\ Cancel("server")
  /\ UNCHANGED <<HandshakeOnly, socket>>

\* The accept was aborted by stop(), or the request did not come: nobody is told.
HandshakeDropped ==
  /\ Handler("server", "accept", "err") \/ Handler("server", "read_request", "err")
  /\ NoMore("server") /\ Cancel("server")
  /\ UNCHANGED <<HandshakeOnly, socket>>

\* connect(): async_connect opens the socket.
ResolveHandler ==
  /\ Handler("client", "resolve", "ok")
  /\ Await("client", "connect") /\ TimeRequest("client")
  /\ socket' = [socket EXCEPT !["client"] = "open"]
  /\ UNCHANGED HandshakeOnly

ConnectHandler ==
  /\ Handler("client", "connect", "ok") /\ socket["client"] = "open"
  /\ Await("client", "write_request") /\ TimeRequest("client")
  /\ UNCHANGED <<HandshakeOnly, socket>>

\* The socket has been closed since: set_option() throws, out of start().
ConnectThrows ==
  /\ Handler("client", "connect", "ok") /\ socket["client"] # "open"
  /\ stop' = [stop EXCEPT !["client"] = "exited"]
  /\ socket' = [socket EXCEPT !["client"] = "gone"]
  /\ UNCHANGED <<reading, sending, wire, link, timers, message, told, at, history>>

\* handshake(): the request is written, its response awaited.
WriteRequestHandler ==
  /\ Handler("client", "write_request", "ok")
  /\ Await("client", "read_response") /\ TimeRequest("client")
  /\ UNCHANGED <<HandshakeOnly, socket>>

\* connection_open(), then the first read_message().
ConnectionOpen(e) ==
  /\ Handler(e, IF e = "server" THEN "write_response" ELSE "read_response", "ok")
  /\ opened' = [opened EXCEPT ![e] = TRUE]
  /\ conns' = (conns \/ e = "server")
  /\ Rearm(e) /\ Await(e, "header")
  /\ UNCHANGED <<cur, sending, network, fired, message, delivered, ended, control, history>>

-----------------------------------------------------------------------------
(* read_message(), read_message_content().                                   *)

Size(f) == IF f.op \in {"text", "first", "last", "close"} THEN 1 ELSE 0

\* A mutated form: after on_error the frame that is too big is read all the same.
ReadMessageGoesOn(e) ==
  /\ Handler(e, "header", "ok")
  /\ \/ cur[e].op = "bad" /\ CloseAndEnd(e, <<>>)
     \/ /\ cur[e].op # "bad"
        /\ IF Size(cur[e]) + Len(fragmented[e]) > MaxSize[e]
           THEN ended' = [ended EXCEPT ![e] = Append(@, "error")] ELSE UNCHANGED ended
        /\ Await(e, "content")
        /\ UNCHANGED <<timer, opened, delivered, conns, at>>
  /\ UNCHANGED <<cur, sending, network, fired, message, stop, history>>

\* The header of a frame has been read: its content is, unless the frame is wrongly
\* masked or its message too big.
ReadMessage(e) ==
  /\ Handler(e, "header", "ok")
  /\ \/ /\ cur[e].op = "bad"
        /\ CloseAndEnd(e, <<>>)
     \/ /\ cur[e].op # "bad" /\ Size(cur[e]) + Len(fragmented[e]) > MaxSize[e]
        /\ CloseAndEnd(e, <<"error">>)
     \/ /\ cur[e].op # "bad" /\ Size(cur[e]) + Len(fragmented[e]) <= MaxSize[e]
        /\ Await(e, "content")
        /\ UNCHANGED <<timer, told, at>>
  /\ UNCHANGED <<cur, sending, network, fired, message, stop, history>>

\* A mutated form: the fragments read before are forgotten.
AssembledForgets(e) == <<cur[e].n>>

\* The message a final data frame completes.  The server continues a fragmented message
\* with continuation frames, the client with any data frame.
Assembled(e) ==
  IF fragmented[e] # <<>> /\ (e = "client" \/ cur[e].op = "last")
  THEN Append(fragmented[e], cur[e].n) ELSE <<cur[e].n>>

\* The content of a frame has been read.
ContentHandler(e) ==
  /\ Handler(e, "content", "ok")
  /\ \/ /\ cur[e].op = "close"
        /\ CloseAndEnd(e, <<>>)
        /\ UNCHANGED <<posted, fragmented>>
     \/ /\ cur[e].op = "ping"
        /\ Send(e, Frame("pong", 0))
        /\ Await(e, "header")
        /\ UNCHANGED <<fragmented, told, at>>
     \/ /\ cur[e].op = "pong"
        /\ Rearm(e) /\ Await(e, "header")
        /\ UNCHANGED <<posted, fragmented, told, at>>
     \/ /\ cur[e].op = "first"
        /\ fragmented' = [fragmented EXCEPT ![e] = Append(@, cur[e].n)]
        /\ Await(e, "header")
        /\ UNCHANGED <<posted, timer, told, at>>
     \/ /\ cur[e].op \in {"text", "last"}
        /\ delivered' = [delivered EXCEPT ![e] = Append(@, Assembled(e))]
        /\ fragmented' = [fragmented EXCEPT ![e] = <<>>]
        /\ Rearm(e) /\ Await(e, "header")
        /\ UNCHANGED <<posted, opened, ended, conns, at>>
  /\ UNCHANGED <<cur, starts, send_queue, wr, network, fired, closed, stop, history>>

\* An operation has failed of whose failure the application is told, or the response is
\* not the one the protocol asks for.
ReadFailed(e) ==
  \/ e = "client" /\ "server" \in Foreign /\ Handler(e, "read_response", "ok")
  \/ \E op \in {"header", "content"} \cup
           (IF e = "server" THEN {"write_response"}
            ELSE {"resolve", "connect", "write_request", "read_response"}) : Handler(e, op, "err")

\* A mutated form: the connection stays in the set.
ConnectionErrorKeeps(e) ==
  /\ ReadFailed(e)
  /\ ended' = [ended EXCEPT ![e] = Append(@, "error")]
  /\ NoMore(e) /\ Rearm(e)
  /\ UNCHANGED <<cur, sending, network, fired, message, control, history, opened, delivered,
                 conns>>

\* connection_error().
ConnectionError(e) ==
  /\ ReadFailed(e)
  /\ End(e, <<"error">>)
  /\ UNCHANGED <<cur, sending, network, fired, message, control, history>>

-----------------------------------------------------------------------------
(* send_from_queue() and the strand.  The strand runs one handler at a time. *)

QueueOnly == <<reading, network, timers, message, told, control, history>>

\* A mutated form: every send starts the queue.
EnqueueStarts(e) ==
  /\ CanRun(e) /\ posted[e] # <<>>
  /\ posted' = [posted EXCEPT ![e] = Tail(@)]
  /\ send_queue' = [send_queue EXCEPT ![e] = Append(@, Head(posted[e]))]
  /\ starts' = [starts EXCEPT ![e] = @ + 1]
  /\ UNCHANGED <<wr, QueueOnly>>

\* The handler posted by send().
Enqueue(e) ==
  /\ CanRun(e) /\ posted[e] # <<>>
  /\ posted' = [posted EXCEPT ![e] = Tail(@)]
  /\ send_queue' = [send_queue EXCEPT ![e] = Append(@, Head(posted[e]))]
  /\ starts' = [starts EXCEPT ![e] = @ + (IF send_queue[e] = <<>> THEN 1 ELSE 0)]
  /\ UNCHANGED <<wr, QueueOnly>>

\* The handler posted by send_from_queue(): the server writes header and message
\* separately, the client in one.
StartWrite(e) ==
  /\ CanRun(e) /\ starts[e] > 0
  /\ starts' = [starts EXCEPT ![e] = @ - 1]
  /\ wr' = [wr EXCEPT ![e] = [op |-> IF e = "server" THEN "header" ELSE "message",
                              frame |-> Head(send_queue[e]), res |-> "wait"]]
  /\ UNCHANGED <<posted, send_queue, QueueOnly>>

\* A mutated form: the message of the last frame of the queue is written.
HeaderWrittenLast ==
  /\ CanRun("server") /\ wr["server"].op = "header" /\ wr["server"].res = "ok"
  /\ wr' = [wr EXCEPT !["server"] = [op |-> "message", frame |-> Last(send_queue["server"]),
                                     res |-> "wait"]]
  /\ UNCHANGED <<posted, starts, send_queue, QueueOnly>>

\* The header of the server's frame is written: then its message.
HeaderWritten ==
  /\ CanRun("server") /\ wr["server"].op = "header" /\ wr["server"].res = "ok"
  /\ wr' = [wr EXCEPT !["server"] = [op |-> "message", frame |-> Head(send_queue["server"]),
                                     res |-> "wait"]]
  /\ UNCHANGED <<posted, starts, send_queue, QueueOnly>>

\* A mutated form: one frame is left behind.
MessageWrittenStops(e) ==
  /\ CanRun(e) /\ wr[e].op = "message" /\ wr[e].res = "ok"
  /\ send_queue' = [send_queue EXCEPT ![e] = Tail(@)]
  /\ starts' = [starts EXCEPT ![e] = @ + (IF Len(send_queue[e]) > 2 THEN 1 ELSE 0)]
  /\ wr' = [wr EXCEPT ![e] = IdleWrite]
  /\ UNCHANGED <<posted, QueueOnly>>

\* The message is written: it leaves the queue, the next one is started.
MessageWritten(e) ==
  /\ CanRun(e) /\ wr[e].op = "message" /\ wr[e].res = "ok"
  /\ send_queue' = [send_queue EXCEPT ![e] = Tail(@)]
  /\ starts' = [starts EXCEPT ![e] = @ + (IF Len(send_queue[e]) > 1 THEN 1 ELSE 0)]
  /\ wr' = [wr EXCEPT ![e] = IdleWrite]
  /\ UNCHANGED <<posted, QueueOnly>>

\* A write has failed: everything queued is dropped.
WriteFailed(e) ==
  /\ CanRun(e) /\ wr[e].res = "err"
  /\ send_queue' = [send_queue EXCEPT ![e] = <<>>]
  /\ wr' = [wr EXCEPT ![e] = IdleWrite]
  /\ UNCHANGED <<posted, starts, QueueOnly>>

-----------------------------------------------------------------------------
(* The timer, the application, stop().                                       *)

\* The timer expires and its handler is queued; cancel_timeout() comes too late for it.
TimerExpires(e) ==
  /\ timer[e] # "off" /\ timer[e] \notin fired[e] /\ stop[e] \in {"no", "closing"}
  /\ fired' = [fired EXCEPT ![e] = @ \cup {timer[e]}]
  /\ Cancel(e)
  /\ UNCHANGED <<reading, sending, network, message, told, control, history>>

\* The handler of set_timeout(): close the socket, or begin send_close().
TimerHandler(e, kind) ==
  /\ CanRun(e) /\ at[e]["timer"] = "-" /\ kind \in fired[e]
  /\ fired' = [fired EXCEPT ![e] = @ \ {kind}]
  /\ \/ kind = "request" /\ CloseSocket(e) /\ UNCHANGED at
     \/ kind = "idle" /\ closed[e] /\ UNCHANGED <<socket, at>>
     \/ /\ kind = "idle" /\ ~closed[e]
        /\ at' = [at EXCEPT ![e]["timer"] = "set"]
        /\ UNCHANGED socket
  /\ UNCHANGED <<reading, sending, wire, link, timer, message, told, stop, history>>

\* The application of an open connection sends the next frame of its script.
AppSends(e) ==
  /\ opened[e] /\ CanRun(e) /\ socket[e] # "gone" /\ count[e] < Len(Script[e])
  /\ count' = [count EXCEPT ![e] = @ + 1]
  /\ Send(e, Frame(Script[e][count[e] + 1], count[e] + 1))
  /\ UNCHANGED <<reading, starts, send_queue, wr, network, fired, message, told, control, closes>>

\* It calls send_close(), which goes on because closed is not set.
AppCloses(e) ==
  /\ e \in Closers /\ opened[e] /\ CanRun(e) /\ socket[e] # "gone"
  /\ at[e]["app"] = "-" /\ ~closed[e]
  /\ at' = [at EXCEPT ![e]["app"] = "set"]
  /\ UNCHANGED <<reading, sending, network, timers, message, told, stop, history>>

\* stop(): the server's acceptor and the connections of the set are closed, the client's
\* connection is.
Stop(e) ==
  /\ e \in Stoppers /\ stop[e] = "no"
  /\ stop' = [stop EXCEPT ![e] = "closing"]
  /\ IF e = "client" \/ conns THEN CloseSocket(e) ELSE UNCHANGED socket
  /\ Unregister(e)
  /\ next' = IF next[e] = Waiting("accept") THEN [next EXCEPT ![e].res = "err"] ELSE next
  /\ UNCHANGED <<cur, sending, wire, link, timers, message, opened, delivered, ended, at, history>>

\* io_service->stop(): no handler starts any more.
StopService(e) ==
  /\ stop[e] = "closing"
  /\ stop' = [stop EXCEPT ![e] = "stopped"]
  /\ UNCHANGED <<reading, sending, network, timers, message, told, at, history>>

NoWork(e) ==
  /\ next[e].op = "none" /\ posted[e] = <<>> /\ starts[e] = 0 /\ wr[e] = IdleWrite
  /\ timer[e] = "off" /\ fired[e] = {} /\ Busy(e) = {}

\* start() returns, because of stop() or, at the client, because nothing is left to do;
\* the program ends.
Exit(e) ==
  /\ \/ stop[e] = "stopped" /\ Busy(e) = {}
     \/ e = "client" /\ stop[e] = "no" /\ NoWork(e)
  /\ stop' = [stop EXCEPT ![e] = "exited"]
  /\ socket' = [socket EXCEPT ![e] = "gone"]
  /\ UNCHANGED <<reading, sending, wire, link, timers, message, told, at, history>>

\* Nothing refers to the server's connection any more: its destructor closes the socket;
\* the timer's handler finds its weak pointer empty.
Destroyed ==
  /\ socket["server"] \in {"open", "closed"} /\ stop["server"] \in {"no", "closing"}
  /\ next["server"].op = "none" /\ ~conns /\ Busy("server") = {}
  /\ posted["server"] = <<>> /\ starts["server"] = 0 /\ wr["server"] = IdleWrite
  /\ socket' = [socket EXCEPT !["server"] = "gone"]
  /\ timer' = [timer EXCEPT !["server"] = "off"] /\ fired' = [fired EXCEPT !["server"] = {}]
  /\ UNCHANGED <<reading, sending, wire, link, message, told, control, history>>

-----------------------------------------------------------------------------
(* The network: not part of the code.                                        *)

Up(e) == link = "up" /\ socket[e] = "open"
Left(e) == socket[e] \in {"closed", "gone"}

Part(p, f) == [part |-> p, frame |-> f]
\* Parts that reach the other end, unless it has left.
Put(e, parts) ==
  wire' = IF Left(Other(e)) THEN wire ELSE [wire EXCEPT ![Other(e)] = @ \o parts]
\* The next part to read is p.
Take(e, p) ==
  /\ wire[e] # <<>> /\ Head(wire[e]).part = p
  /\ wire' = [wire EXCEPT ![e] = Tail(@)]

\* The outstanding operation of end e completes.
Succeeds(e) ==
  /\ next[e].res = "wait" /\ stop[e] # "exited"
  /\ next' = [next EXCEPT ![e].res = "ok"]
  /\ \/ /\ next[e].op = "resolve"
        /\ UNCHANGED <<network, cur>>
     \/ /\ next[e].op = "connect" /\ stop["server"] = "no" /\ socket[e] = "open"
        /\ link' = "up"
        /\ UNCHANGED <<wire, socket, cur>>
     \/ /\ next[e].op = "accept" /\ link # "none"
        /\ socket' = [socket EXCEPT ![e] = "open"]
        /\ UNCHANGED <<wire, link, cur>>
     \/ /\ next[e].op = "write_request" /\ Up(e)
        /\ Put(e, <<Part("request", NoFrame)>>) /\ UNCHANGED <<link, socket, cur>>
     \/ /\ next[e].op = "read_request" /\ Up(e)
        /\ Take(e, "request") /\ UNCHANGED <<link, socket, cur>>
     \/ /\ next[e].op = "write_response" /\ Up(e)
        /\ Put(e, <<Part("response", NoFrame)>>) /\ UNCHANGED <<link, socket, cur>>
     \/ /\ next[e].op = "read_response" /\ Up(e)
        /\ Take(e, "response") /\ UNCHANGED <<link, socket, cur>>
     \/ /\ next[e].op = "header" /\ Up(e)
        /\ Take(e, "header")
        /\ cur' = [cur EXCEPT ![e] = Head(wire[e]).frame]
        /\ UNCHANGED <<link, socket>>
     \/ /\ next[e].op = "content" /\ Up(e)
        /\ Take(e, "body") /\ UNCHANGED <<link, socket, cur>>
  /\ UNCHANGED <<sending, timers, message, told, control, history>>

\* It fails: the host is unknown or does not answer, the socket has been closed at this
\* end or at the other, the connection is broken.
Fails(e) ==
  /\ next[e].res = "wait" /\ stop[e] # "exited"
  /\ \/ next[e].op \in {"resolve", "connect"}
     \/ next[e].op # "accept" /\ (~Up(e) \/ Left(Other(e)))
  /\ next' = [next EXCEPT ![e].res = "err"]
  /\ UNCHANGED <<cur, sending, network, timers, message, told, control, history>>

\* A write completes.
Written(e) ==
  /\ wr[e].res = "wait" /\ Up(e) /\ stop[e] # "exited"
  /\ wr' = [wr EXCEPT ![e].res = "ok"]
  /\ Put(e, IF e = "client" THEN <<Part("header", wr[e].frame), Part("body", wr[e].frame)>>
            ELSE <<Part(IF wr[e].op = "header" THEN "header" ELSE "body", wr[e].frame)>>)
  /\ UNCHANGED <<reading, posted, starts, send_queue, link, socket, timers, message, told,
                 control, history>>

WriteBreaks(e) ==
  /\ wr[e].res = "wait" /\ (~Up(e) \/ Left(Other(e))) /\ stop[e] # "exited"
  /\ wr' = [wr EXCEPT ![e].res = "err"]
  /\ UNCHANGED <<reading, posted, starts, send_queue, network, timers, message, told, control,
                 history>>

\* Another implementation at end e sends a frame the other must refuse.
SendsUnmasked(e) ==
  /\ e \in Foreign /\ Up(e) /\ opened[e] /\ count[e] = 0 /\ wr[e] = IdleWrite
  /\ count' = [count EXCEPT ![e] = Len(Script[e]) + 1]
  /\ Put(e, <<Part("header", Frame("bad", 0)), Part("body", Frame("bad", 0))>>)
  /\ UNCHANGED <<reading, sending, link, socket, timers, message, told, control, closes>>

Breaks ==
  /\ NetworkFails /\ link = "up"
  /\ link' = "broken"
  /\ UNCHANGED <<reading, sending, wire, socket, timers, message, told, control, history>>

-----------------------------------------------------------------------------
(* The specification.                                                        *)

ReadChain(e) ==
  \/ ConnectionOpen(e) \/ ReadMessage(e) \/ ContentHandler(e) \/ ConnectionError(e)
  \/ e = "server" /\ (AcceptHandler \/ RequestHandler \/ HandshakeDropped)
  \/ e = "client" /\ (ResolveHandler \/ ConnectHandler \/ ConnectThrows \/ WriteRequestHandler)

Strand(e) ==
  \/ Enqueue(e) \/ StartWrite(e) \/ MessageWritten(e) \/ WriteFailed(e)
  \/ e = "server" /\ HeaderWritten

Timers(e) == TimerExpires(e) \/ (\E kind \in {"request", "idle"} : TimerHandler(e, kind))

Closing(e) == StopService(e) \/ Exit(e) \/ (e = "server" /\ Destroyed)

Network(e) == Succeeds(e) \/ Fails(e) \/ Written(e) \/ WriteBreaks(e)

\* Nothing is left to do at either end: the connection is open and quiet, or over.
Quiet ==
  \A e \in Ends :
    \/ stop[e] = "exited"
    \/ /\ next[e].res \in {"wait", "-"} /\ posted[e] = <<>> /\ starts[e] = 0
       /\ wr[e] = IdleWrite /\ timer[e] = "off" /\ fired[e] = {} /\ Busy(e) = {}
       /\ wire[e] = <<>> \/ socket[e] = "gone"

\* What goes on by itself at end e: its threads, its timers, the kernel.
Runs(e) ==
  \/ ReadChain(e) \/ Strand(e) \/ Timers(e) \/ Closing(e) \/ Network(e)
  \/ \E a \in Actors : SetClosed(e, a)

\* What the application, the operator and the other implementation decide.
Chooses(e) == AppSends(e) \/ AppCloses(e) \/ Stop(e) \/ SendsUnmasked(e)

Next ==
  \/ \E e \in Ends : Runs(e) \/ Chooses(e)
  \/ Breaks
  \/ Quiet /\ UNCHANGED vars

\* Threads are scheduled, timers expire, the kernel delivers.  A behaviour has finitely
\* many such steps, so that fairness of their disjunction is fairness of each.
Fairness == WF_vars(\E e \in Ends : Runs(e))

Spec == Init /\ [][Next]_vars /\ Fairness

-----------------------------------------------------------------------------
(* Properties.                                                               *)

\* There is a write in progress, or one about to start, exactly when the queue is not
\* empty, and only one: begin() of an empty list is never read, no two frames are
\* written at once and none is forgotten, errors in the middle of the queue included.
OneWriter ==
  \A e \in Ends :
    starts[e] + (IF wr[e].op = "idle" THEN 0 ELSE 1) = (IF send_queue[e] = <<>> THEN 0 ELSE 1)

\* What end e has read last, if its content is still to be read.
LastRead(e) ==
  IF next[e] = [op |-> "header", res |-> "ok"] \/ (next[e].op = "content" /\ next[e].res # "ok")
  THEN Part("header", cur[e]) ELSE Part("none", NoFrame)

Follows(q, p) ==
  /\ p.part = "header" <=> q.part = "body"
  /\ q.part = "body" => q.frame = p.frame

\* On the wire every header is followed by the body of the same frame, also when the
\* application, the reader and the timer of one end send at the same time.
FramesWhole ==
  \A e \in Ends : next[e].op # "none" =>
    \A i \in DOMAIN wire[e] :
      Follows(wire[e][i], IF i = 1 THEN LastRead(e) ELSE wire[e][i - 1])

\* k is the first data frame that e's application sends after its frame n.
NextData(e, n, k) ==
  /\ k \in DOMAIN Script[e] /\ n < k /\ Script[e][k] # "ping"
  /\ \A j \in (n + 1) .. (k - 1) : Script[e][j] = "ping"

\* m is data frames of e, one after the other, from the first after frame n on.
InTurn(e, n, m) ==
  \A j \in DOMAIN m : NextData(e, IF j = 1 THEN n ELSE m[j - 1], m[j])

\* The last frame of the first i messages given to e's application.
LastGiven(e, i) == IF i = 0 THEN 0 ELSE Last(delivered[e][i])

\* The messages e's application is given, and the fragments of the one that comes next, are
\* data frames of the other end in turn, and a message ends where that end ends it.
GivenInOrder(e) ==
  LET from == Other(e)
      Final(k) == Script[from][k] \in {"text", "last"}
  IN /\ \A i \in DOMAIN delivered[e] :
          LET m == delivered[e][i] IN
          /\ m # <<>> /\ InTurn(from, LastGiven(e, i - 1), m)
          /\ \A j \in DOMAIN m : j = Len(m) <=> Final(m[j])
     /\ InTurn(from, LastGiven(e, Len(delivered[e])), fragmented[e])
     /\ \A j \in DOMAIN fragmented[e] : ~Final(fragmented[e][j])

\* The messages one application is given are those the other has sent, in order, none
\* missing and each with its fragments, whatever control frames came in between.
InOrder == \A e \in Ends : GivenInOrder(e)

\* The set of connections holds the server's connection from on_open to on_close or
\* on_error, unless the server is being stopped.
SetIsExact ==
  stop["server"] = "no" =>
    (conns <=> opened["server"] /\ ended["server"] = <<>>)

\* However often an end decides to close (the application, the timer, the reader, with frames
\* of the other end in between), it posts a close frame for each of its threads at most: those
\* that have passed the test of closed before the first of them set it (ws/server.h:305-320).
CloseBounded == \A e \in Ends : closes[e] <= Pool[e]

\* ws/server.h:306, "Send close only once": an end posts at most one close frame.
CloseOnce == \A e \in Ends : closes[e] <= 1

ServerLife == INSTANCE WsLifecycle WITH
  opened <- opened["server"], received <- Len(delivered["server"]), ended <- ended["server"]
ClientLife == INSTANCE WsLifecycle WITH
  opened <- opened["client"], received <- Len(delivered["client"]), ended <- ended["client"]

\* What each application is told is one life of a connection (WsLifecycle).
LifecycleSpec == ServerLife!Spec /\ ClientLife!Spec

\* An end that has sent a close frame, or decided to, comes to the end of its read chain,
\* unless it is stopped: the other answers, leaves or breaks.
CloseEnds ==
  <>[](\A e \in Ends : closed[e] => next[e].op = "none" \/ stop[e] \in {"stopped", "exited"})

\* Every queue becomes empty, by writing or by failing, unless the end is stopped: no frame
\* is left in it for good.
QueueDrains ==
  <>[](\A e \in Ends : send_queue[e] = <<>> \/ stop[e] \in {"stopped", "exited"})
=============================================================================
