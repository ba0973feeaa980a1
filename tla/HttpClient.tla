------------------------------ MODULE HttpClient ------------------------------
(***************************************************************************)
(* http/client.h: a client, its pool of connections and the requests made   *)
(* through it.  A request is a session: a chain of asynchronous operations   *)
(* of which one is outstanding, on a connection taken from the pool and      *)
(* given back by the session's callback.  The operation completes in one     *)
(* step and its handler runs in a later one; in between a timer may be       *)
(* cancelled too late.  A handler is one step: what it shares with another   *)
(* it touches under connections_mutex, once.                                *)
(*                                                                         *)
(* Requests are synchronous, the thread that makes one running the           *)
(* io_service, or asynchronous with an io_service that is always run.  An     *)
(* exception of a handler leaves the run() that called it.                   *)
(* The server at the other end is http/server.h as the client sees it: it    *)
(* answers the requests of a connection in turn and may close it at any      *)
(* time.  An answer is a sequence of parts, each tagged with its request.    *)
(***************************************************************************)
EXTENDS Integers, Sequences, FiniteSets, SequencesExt

CONSTANTS
  Requests,     \* bound: the requests made
  Threads,      \* those that make them
  Connections,  \* bound: the connections ever created
  NoConnection, \* not one of them
  Cases,        \* bound: the ways requests are made and answered, by which thread, how many faults
  Timed,        \* whether config.timeout is set
  HeadersTear,  \* bound: a connection may be lost inside a header
  Stops,        \* bound: whether stop() may be called
  Ends          \* bound: whether the client may be destroyed

\* How a header tells the end of an answer: by its length, in chunks, with the connection,
\* or not at all.  The content of a big one fills the stream buffer, the chunks of a long
\* one that of the content; a bad one breaks the protocol.
ByLength   == {"length", "big"}
InChunks   == {"chunked", "bigchunk", "longchunks", "badchunk"}
ToTheEnd   == {"eof", "bigeof"}
AtHeader   == {"empty", "unstated"}
Kinds      == ByLength \cup InChunks \cup ToTheEnd \cup AtHeader \cup {"bad", "badlength"}

ASSUME ConstantsAssumption ==
  /\ NoConnection \notin Connections
  /\ Cases \subseteq [style : {"sync", "async"}, kind : [Requests -> Kinds],
                   thread : [Requests -> Threads], faults : Nat]
  /\ Timed \in BOOLEAN /\ HeadersTear \in BOOLEAN /\ Stops \in BOOLEAN /\ Ends \in BOOLEAN

VARIABLES
  style, kind, thread, \* whether requests are synchronous, how each is answered, who makes it
  phase,             \* how far the thread is in its call of request()
  called,            \* "ok" or "error" once the request's callback was called
  conn, op,          \* Session::connection, the outstanding operation and its result
  got, taken,        \* the parts put in Response::streambuf, those read out of it
  connections, in_use, attempt_reconnect,
  socket, timer, fired,  \* the socket, the armed timer, an expired timer's handler
  stopped,           \* the io_service has run out of work
  link, requests, answers,  \* the TCP connection and what is under way on it
  handled, late,     \* how often a server has handled a request, and will for a lost connection
  stop_called, alive,
  faults               \* how many may still come: expired timers, failures, losses, stops

calls   == <<phase, called>>
session == <<conn, op, got, taken>>
pool    == <<connections, in_use, attempt_reconnect>>
sockets == <<socket, timer, fired>>
network == <<link, requests, answers, handled, late>>
chosen  == <<style, kind, thread>>
bounded == <<stop_called, alive, faults>>
vars    == <<calls, session, pool, sockets, network, chosen, bounded, stopped>>

NoOp == [name |-> "none", res |-> "-"]
OpNames == {"resolve", "connect", "write", "header", "content", "eof", "size", "data"}
Part(q, p) == [of |-> q, part |-> p]

TypeOK ==
  /\ phase \in [Requests -> {"new", "calling", "posted", "counted", "running", "ran", "returned", "threw"}]
  /\ called \in [Requests -> {"no", "ok", "error"}]
  /\ conn \in [Requests -> Connections \cup {NoConnection}]
  /\ op \in [Requests -> [name : OpNames, res : {"wait", "ok", "err", "eof", "aborted"}] \cup {NoOp}]
  /\ taken \in [Requests -> Nat]
  /\ connections \subseteq Connections
  /\ in_use \in [Connections -> BOOLEAN] /\ attempt_reconnect \in [Connections -> BOOLEAN]
  /\ socket \in [Connections -> {"none", "closed", "open", "gone"}]
  /\ timer \in [Connections -> BOOLEAN] /\ fired \in [Connections -> BOOLEAN]
  /\ link \in [Connections -> {"none", "up", "closed", "reset", "gone"}]
  /\ stopped \in BOOLEAN /\ stop_called \in BOOLEAN /\ alive \in BOOLEAN
  /\ handled \in [Requests -> Nat] /\ late \in [Requests -> Nat] /\ faults \in Nat
  /\ \A q \in Requests : taken[q] <= Len(got[q])

Init ==
  /\ \E x \in Cases : style = x.style /\ kind = x.kind /\ thread = x.thread
                       /\ faults = x.faults
  /\ phase = [q \in Requests |-> "new"] /\ called = [q \in Requests |-> "no"]
  /\ conn = [q \in Requests |-> NoConnection] /\ op = [q \in Requests |-> NoOp]
  /\ got = [q \in Requests |-> <<>>] /\ taken = [q \in Requests |-> 0]
  /\ connections = {}
  /\ in_use = [c \in Connections |-> FALSE]
  /\ attempt_reconnect = [c \in Connections |-> TRUE]
  /\ socket = [c \in Connections |-> "none"]
  /\ timer = [c \in Connections |-> FALSE] /\ fired = [c \in Connections |-> FALSE]
  /\ stopped = FALSE
  /\ link = [c \in Connections |-> "none"]
  /\ requests = [c \in Connections |-> <<>>] /\ answers = [c \in Connections |-> <<>>]
  /\ handled = [q \in Requests |-> 0] /\ late = [q \in Requests |-> 0]
  /\ stop_called = FALSE /\ alive = TRUE

-----------------------------------------------------------------------------
(* The io_service and the calls of request().                                *)

\* There is a handler to run or an operation to wait for.
Work == (\E q \in Requests : op[q] # NoOp) \/ (\E c \in Connections : fired[c])

Running == {q \in Requests : phase[q] = "running"}

\* concurrent_synchronous_requests: an exception does not count down.
Counted == {q \in Requests : phase[q] \in {"counted", "running", "ran", "threw"}}

\* A thread runs the io_service.
CanRun == style = "async" \/ (~stopped /\ Running # {})

Goto(q, p) == phase' = [phase EXCEPT ![q] = p]

\* create_connection(): one not made before.
Fresh == {c \in Connections : socket[c] = "none"}
NewConnection == CHOOSE c \in Fresh : TRUE

Idle == {c \in connections : ~in_use[c]}

\* A mutated form: a connection in use may be taken.
GetConnectionAny(q) ==
  /\ phase[q] = "new" /\ alive
  /\ style = "sync" => \A p \in Requests :
       thread[p] = thread[q] => phase[p] \in {"new", "returned", "threw"}
  /\ Goto(q, "calling")
  /\ \E c \in connections \cup {NewConnection} :
       /\ conn' = [conn EXCEPT ![q] = c]
       /\ connections' = connections \cup {c}
       /\ in_use' = [in_use EXCEPT ![c] = TRUE]
       /\ attempt_reconnect' = [attempt_reconnect EXCEPT ![c] = TRUE]
       /\ socket' = [socket EXCEPT ![c] = IF @ = "none" THEN "closed" ELSE @]
  /\ UNCHANGED <<called, op, got, taken, timer, fired, stopped, network, chosen, bounded>>

\* get_connection(): an idle connection of the pool if there is one, else a new one.
GetConnection(q) ==
  /\ phase[q] = "new" /\ alive
  /\ style = "sync" => \A p \in Requests :
       thread[p] = thread[q] => phase[p] \in {"new", "returned", "threw"}
  /\ Goto(q, "calling")
  /\ Idle # {} \/ Fresh # {}
  /\ \E c \in IF Idle # {} THEN Idle ELSE {NewConnection} :
       /\ conn' = [conn EXCEPT ![q] = c]
       /\ connections' = connections \cup {c}
       /\ in_use' = [in_use EXCEPT ![c] = TRUE]
       /\ attempt_reconnect' = [attempt_reconnect EXCEPT ![c] = TRUE]
       /\ socket' = [socket EXCEPT ![c] = IF @ = "none" THEN "closed" ELSE @]
  /\ UNCHANGED <<called, op, got, taken, timer, fired, stopped, network, chosen, bounded>>

\* The operation is started and its timer set.
Start(q, c, name) ==
  /\ op' = [op EXCEPT ![q] = [name |-> name, res |-> "wait"]]
  /\ timer' = [timer EXCEPT ![c] = Timed]

\* connect(), the end of request().
Connect(q) ==
  /\ phase[q] = "calling"
  /\ Goto(q, "posted")
  /\ Start(q, conn[q], IF socket[conn[q]] = "open" THEN "write" ELSE "resolve")
  /\ UNCHANGED <<called, conn, got, taken, pool, socket, fired, stopped, network, chosen, bounded>>

\* The synchronous request() counts itself and runs the io_service.
Count(q) ==
  /\ style = "sync" /\ phase[q] = "posted"
  /\ Goto(q, "counted")
  /\ UNCHANGED <<called, session, pool, sockets, stopped, network, chosen, bounded>>

Run(q) ==
  /\ phase[q] = "counted"
  /\ Goto(q, "running")
  /\ UNCHANGED <<called, session, pool, sockets, stopped, network, chosen, bounded>>

\* The last handler has returned: every thread in run() is to return.
OutOfWork ==
  /\ Running # {} /\ ~stopped /\ ~Work
  /\ stopped' = TRUE
  /\ UNCHANGED <<calls, session, pool, sockets, network, chosen, bounded>>

RunReturns(q) ==
  /\ phase[q] = "running" /\ stopped
  /\ Goto(q, "ran")
  /\ UNCHANGED <<called, session, pool, sockets, stopped, network, chosen, bounded>>

\* A mutated form: the io_service is not reset.
ReturnsWithoutReset(q) ==
  /\ phase[q] = "ran"
  /\ Goto(q, "returned")
  /\ UNCHANGED <<called, session, pool, sockets, stopped, network, chosen, bounded>>

\* The last of the concurrent requests to return resets the io_service.
Returns(q) ==
  /\ phase[q] = "ran"
  /\ Goto(q, "returned")
  /\ stopped' = (stopped /\ Counted # {q})
  /\ UNCHANGED <<called, session, pool, sockets, network, chosen, bounded>>

-----------------------------------------------------------------------------
(* Handlers.                                                                 *)

\* The handler of the operation runs, told res.  It has cancelled the timer.
Handler(q, name, res) ==
  CanRun /\ alive /\ op[q] = [name |-> name, res |-> res]

CancelTimeout(q) == timer' = [timer EXCEPT ![conn[q]] = FALSE]

\* Nobody holds the connections of cs: their sockets are closed.
Drop(cs) ==
  /\ socket' = [c \in Connections |-> IF c \in cs THEN "gone" ELSE socket[c]]
  /\ link' = [c \in Connections |-> IF c \in cs THEN "gone" ELSE link[c]]
  /\ answers' = [c \in Connections |-> IF c \in cs THEN <<>> ELSE answers[c]]

\* A mutated form: a connection that failed stays in the pool.
CallbackKeeps(q, result) ==
  LET c == conn[q]
      unused == {d \in connections : d = c \/ ~in_use[d]}
  IN /\ in_use' = [in_use EXCEPT ![c] = FALSE]
     /\ \E kept \in IF unused = {} THEN {{}} ELSE {{d} : d \in unused} :
          connections' = (connections \ unused) \cup kept
     /\ called' = [called EXCEPT ![q] = result]
     /\ op' = [op EXCEPT ![q] = NoOp]
     /\ CancelTimeout(q)
     /\ Drop((connections \cup {c}) \ connections')
     /\ UNCHANGED <<phase, conn>>

\* A mutated form: no unused connection is removed.
CallbackKeepsAll(q, result) ==
  LET c == conn[q]
  IN /\ in_use' = [in_use EXCEPT ![c] = FALSE]
     /\ connections' = IF result = "error" THEN connections \ {c} ELSE connections
     /\ called' = [called EXCEPT ![q] = result]
     /\ op' = [op EXCEPT ![q] = NoOp]
     /\ CancelTimeout(q)
     /\ Drop((connections \cup {c}) \ connections')
     /\ UNCHANGED <<phase, conn>>

\* Session::callback: the connection is given back, or leaves the pool after an error;
\* of the unused connections the first that the iteration meets is kept.
Callback(q, result) ==
  LET c == conn[q]
      rest == IF result = "error" THEN connections \ {c} ELSE connections
      unused == {d \in rest : d = c \/ ~in_use[d]}
  IN /\ in_use' = [in_use EXCEPT ![c] = FALSE]
     /\ \E kept \in IF unused = {} THEN {{}} ELSE {{d} : d \in unused} :
          connections' = (rest \ unused) \cup kept
     /\ called' = [called EXCEPT ![q] = result]
     /\ op' = [op EXCEPT ![q] = NoOp]
     /\ CancelTimeout(q)
     /\ Drop((connections \cup {c}) \ connections')
     /\ UNCHANGED <<phase, conn>>

\* The handler starts the next operation.
Continue(q, name) ==
  /\ Start(q, conn[q], name)
  /\ UNCHANGED <<calls, conn, connections, in_use, socket, link, answers>>

Elsewhere == <<fired, stopped, requests, handled, late, chosen, bounded>>

\* async_connect opens the socket.
ResolveHandler(q) ==
  /\ Handler(q, "resolve", "ok")
  /\ Start(q, conn[q], "connect")
  /\ socket' = [socket EXCEPT ![conn[q]] = "open"]
  /\ UNCHANGED <<Elsewhere, calls, conn, got, taken, pool, link, answers>>

ConnectHandler(q) ==
  /\ Handler(q, "connect", "ok")
  /\ Continue(q, "write")
  /\ UNCHANGED <<Elsewhere, got, taken, attempt_reconnect>>

WriteHandler(q) ==
  /\ Handler(q, "write", "ok")
  /\ Continue(q, "header")
  /\ UNCHANGED <<Elsewhere, got, taken, attempt_reconnect>>

\* The operation failed and nothing but the callback follows.
Failed(q) ==
  /\ \E name \in OpNames \ {"header"}, res \in {"err", "eof", "aborted"} :
       Handler(q, name, res) /\ (name = "eof" => res # "eof")
  /\ Callback(q, "error")
  /\ UNCHANGED <<Elsewhere, got, taken, attempt_reconnect>>

\* A mutated form: the connection made anew may be given up for another.
RetryAgain(q) ==
  /\ Handler(q, "header", "err") \/ Handler(q, "header", "eof")
  /\ attempt_reconnect[conn[q]] /\ conn[q] \in connections /\ Fresh # {}
  /\ LET c == NewConnection
     IN /\ connections' = (connections \ {conn[q]}) \cup {c}
        /\ conn' = [conn EXCEPT ![q] = c]
        /\ in_use' = [in_use EXCEPT ![c] = TRUE]
        /\ attempt_reconnect' = [attempt_reconnect EXCEPT ![c] = TRUE]
        /\ socket' = [socket EXCEPT ![c] = "closed", ![conn[q]] = "gone"]
        /\ link' = [link EXCEPT ![conn[q]] = "gone"]
        /\ answers' = [answers EXCEPT ![conn[q]] = <<>>]
        /\ op' = [op EXCEPT ![q] = [name |-> "resolve", res |-> "wait"]]
        /\ timer' = [timer EXCEPT ![conn[q]] = FALSE, ![c] = Timed]
  /\ UNCHANGED <<Elsewhere, calls, got, taken>>

\* No answer came: a connection in the pool that may be is replaced by a new one, and
\* the request sent again.  What the response has read stays.
Retry(q) ==
  /\ Handler(q, "header", "err") \/ Handler(q, "header", "eof")
  /\ attempt_reconnect[conn[q]] /\ conn[q] \in connections /\ Fresh # {}
  /\ LET c == NewConnection
     IN /\ connections' = (connections \ {conn[q]}) \cup {c}
        /\ conn' = [conn EXCEPT ![q] = c]
        /\ in_use' = [in_use EXCEPT ![c] = TRUE]
        /\ attempt_reconnect' = [attempt_reconnect EXCEPT ![c] = FALSE]
        /\ socket' = [socket EXCEPT ![c] = "closed", ![conn[q]] = "gone"]
        /\ link' = [link EXCEPT ![conn[q]] = "gone"]
        /\ answers' = [answers EXCEPT ![conn[q]] = <<>>]
        /\ op' = [op EXCEPT ![q] = [name |-> "resolve", res |-> "wait"]]
        /\ timer' = [timer EXCEPT ![conn[q]] = FALSE, ![c] = Timed]
  /\ UNCHANGED <<Elsewhere, calls, got, taken>>

\* A mutated form: nobody is told that the operation was cancelled.
NoRetrySilent(q) ==
  /\ \E res \in {"err", "eof", "aborted"} : Handler(q, "header", res)
  /\ op[q].res = "aborted" \/ ~attempt_reconnect[conn[q]] \/ conn[q] \notin connections
  /\ op' = [op EXCEPT ![q] = NoOp]
  /\ CancelTimeout(q)
  /\ UNCHANGED <<Elsewhere, calls, conn, got, taken, pool, socket, link, answers>>

\* Cancelled, failed a second time, or no more in the pool: the callback.
NoRetry(q) ==
  /\ \/ Handler(q, "header", "aborted")
     \/ /\ Handler(q, "header", "err") \/ Handler(q, "header", "eof")
        /\ ~attempt_reconnect[conn[q]] \/ conn[q] \notin connections
  /\ Callback(q, "error")
  /\ UNCHANGED <<Elsewhere, got, taken, attempt_reconnect>>

IsHeader(x) == x.part \in {"header", "junk"}

\* The buffer has reached max_response_streambuf_size.
Full(q) == \E i \in DOMAIN got[q] : got[q][i].part = "huge"

\* The header has been read up to its end, and perhaps more.
HeaderEnd(q) == CHOOSE i \in DOMAIN got[q] :
  IsHeader(got[q][i]) /\ \A j \in 1..(i - 1) : ~IsHeader(got[q][j])

\* read(): the answer goes on as its header says.  If the buffer held something before
\* the header, it may or may not parse.
HeaderHandler(q) ==
  /\ Handler(q, "header", "ok") /\ ~Full(q)
  /\ attempt_reconnect' = [attempt_reconnect EXCEPT ![conn[q]] = TRUE]
  /\ LET h == got[q][HeaderEnd(q)]
         more == Len(got[q]) > HeaderEnd(q)
     IN \/ /\ h.part = "junk" \/ HeaderEnd(q) > 1
           /\ Callback(q, "error") /\ UNCHANGED taken
        \/ /\ h.part = "header"
           /\ taken' = [taken EXCEPT ![q] = HeaderEnd(q)]
           /\ \/ /\ kind[h.of] \in AtHeader \/ (kind[h.of] \in ByLength /\ more)
                 /\ Callback(q, "ok")
              \/ kind[h.of] \in ByLength /\ ~more /\ Continue(q, "content")
              \/ kind[h.of] \in InChunks /\ Continue(q, "size")
              \/ kind[h.of] \in ToTheEnd /\ Continue(q, "eof")
  /\ UNCHANGED <<Elsewhere, got>>

\* stoull() throws: nobody is called back, and the connection stays in the pool, in use.  The
\* thread that ran the handler leaves request(), and the io_service has run out of work if
\* not even a cancelled timer's handler is left; an io_service of the application's own is
\* run again.
HeaderThrows(q) ==
  /\ Handler(q, "header", "ok") /\ ~Full(q)
  /\ LET h == got[q][HeaderEnd(q)] IN h.part = "header" /\ kind[h.of] = "badlength"
  /\ UNCHANGED <<called, conn, got, taken, connections, in_use, fired, requests, handled, late,
                 chosen, bounded>>
  /\ attempt_reconnect' = [attempt_reconnect EXCEPT ![conn[q]] = TRUE]
  /\ op' = [op EXCEPT ![q] = NoOp]
  /\ CancelTimeout(q)
  /\ Drop({conn[q]} \ connections)
  /\ \/ /\ style = "sync"
        /\ \E p \in Running : Goto(p, "threw")
        /\ stopped' = ~(timer[conn[q]] \/ Work')
     \/ style = "async" /\ UNCHANGED <<phase, stopped>>

\* The content has been read, or the answer to its end; the buffer may be full.
ContentHandler(q) ==
  /\ \/ Handler(q, "content", "ok")
     \/ Handler(q, "eof", "eof")
  /\ Callback(q, IF Full(q) /\ op[q].name = "content" THEN "error" ELSE "ok")
  /\ UNCHANGED <<Elsewhere, got, taken, attempt_reconnect>>

\* The buffer is full before the header or the length of a chunk is complete, or the
\* answer at its end.
TooBig(q) ==
  /\ Handler(q, "header", "ok") \/ Handler(q, "eof", "ok") \/ Handler(q, "size", "ok")
  /\ Full(q)
  /\ Callback(q, "error")
  /\ UNCHANGED <<Elsewhere, got, taken, attempt_reconnect>>

\* A mutated form: the line break after a chunk is not among the bytes waited for.
ChunkSkips(q) ==
  /\ taken' = [taken EXCEPT ![q] = @ + 3]
  /\ \/ got[q][taken[q] + 1].part = "size" /\ Continue(q, "size")
     \/ got[q][taken[q] + 1].part = "fill" /\ Callback(q, "error")
     \/ got[q][taken[q] + 1].part = "zero" /\ Callback(q, "ok")

\* read_chunked_transfer_encoded_chunk(): a chunk has been read.  With one that fills the
\* content's buffer the answer is too big, after the last one, of length 0, complete.
Chunk(q) ==
  /\ taken' = [taken EXCEPT ![q] = @ + 2]
  /\ \/ got[q][taken[q] + 1].part = "size" /\ Continue(q, "size")
     \/ got[q][taken[q] + 1].part = "fill" /\ Callback(q, "error")
     \/ got[q][taken[q] + 1].part = "zero" /\ Callback(q, "ok")

\* read_chunked_transfer_encoded(): the length of a chunk has been read, and perhaps the
\* chunk.
SizeHandler(q) ==
  /\ Handler(q, "size", "ok") /\ ~Full(q)
  /\ \/ /\ got[q][taken[q] + 1].part \notin {"size", "fill", "zero"}
        /\ Callback(q, "error") /\ UNCHANGED taken
     \/ /\ got[q][taken[q] + 1].part \in {"size", "fill", "zero"}
        /\ IF Len(got[q]) > taken[q] + 1 THEN Chunk(q)
           ELSE Continue(q, "data") /\ UNCHANGED taken
  /\ UNCHANGED <<Elsewhere, got, attempt_reconnect>>

DataHandler(q) ==
  /\ Handler(q, "data", "ok")
  /\ IF Full(q) THEN Callback(q, "error") /\ UNCHANGED taken ELSE Chunk(q)
  /\ UNCHANGED <<Elsewhere, got, attempt_reconnect>>

\* The client was destroyed: a handler returns at once.
NoLock(q) ==
  /\ CanRun /\ ~alive /\ op[q].res \notin {"wait", "-"}
  /\ op' = [op EXCEPT ![q] = NoOp]
  /\ CancelTimeout(q)
  /\ Drop({conn[q]})
  /\ UNCHANGED <<calls, conn, got, taken, pool, Elsewhere>>

-----------------------------------------------------------------------------
(* Timers, stop() and the destructor.                                        *)

\* The operations outstanding on the sockets of cs end with operation_aborted, but for
\* resolving, which has no socket.
Cancelled(cs) ==
  [q \in Requests |-> IF conn[q] \in cs /\ op[q].res = "wait" /\ op[q].name # "resolve"
                      THEN [op[q] EXCEPT !.res = "aborted"] ELSE op[q]]

Fault == faults > 0 /\ faults' = faults - 1

\* Bound: one handler of an expired timer waits per connection.
TimerExpires(c) ==
  /\ timer[c] /\ ~fired[c] /\ Fault
  /\ timer' = [timer EXCEPT ![c] = FALSE] /\ fired' = [fired EXCEPT ![c] = TRUE]
  /\ UNCHANGED <<calls, session, pool, socket, stopped, network, chosen, stop_called, alive>>

\* The socket is cancelled, whatever its operation is by now.  Between two reads of one
\* operation there is nothing to cancel.
TimerHandler(c) ==
  /\ CanRun /\ fired[c]
  /\ fired' = [fired EXCEPT ![c] = FALSE]
  /\ \/ op' = Cancelled({c})
     \/ /\ \E q \in Requests : conn[q] = c /\ op[q].name \in {"write", "header", "content",
                                                              "eof", "size", "data"}
        /\ UNCHANGED op
  /\ UNCHANGED <<calls, conn, got, taken, pool, socket, timer, stopped, network, chosen, bounded>>

Stop ==
  /\ Stops /\ alive /\ ~stop_called /\ Fault
  /\ stop_called' = TRUE
  /\ op' = Cancelled(connections)
  /\ connections' = {}
  /\ Drop(Idle)
  /\ UNCHANGED <<calls, conn, got, taken, in_use, attempt_reconnect, timer, fired, stopped,
                 requests, handled, late, chosen, alive>>

\* The destructor, when no thread is in a function of the client.
Destroy ==
  /\ Ends /\ alive /\ Fault
  /\ \A q \in Requests :
       phase[q] \in (IF style = "sync" THEN {"new", "returned", "threw"} ELSE {"new", "posted"})
  /\ alive' = FALSE
  /\ op' = Cancelled(connections)
  /\ connections' = {}
  /\ Drop(Idle)
  /\ UNCHANGED <<calls, conn, got, taken, in_use, attempt_reconnect, timer, fired, stopped,
                 requests, handled, late, chosen, stop_called>>

-----------------------------------------------------------------------------
(* Operations complete; the server.                                          *)

AnswerParts ==
  [length |-> <<"header", "body">>, big |-> <<"header", "huge">>,
   chunked |-> <<"header", "size", "data", "zero", "crlf">>,
   bigchunk |-> <<"header", "size", "huge", "zero", "crlf">>,
   longchunks |-> <<"header", "size", "data", "fill", "data", "zero", "crlf">>,
   badchunk |-> <<"header", "junk">>, badlength |-> <<"header", "body">>,
   eof |-> <<"header", "body">>, bigeof |-> <<"header", "huge">>,
   empty |-> <<"header">>, unstated |-> <<"header", "body">>, bad |-> <<"junk">>]

\* What the server answers to q.
Answer(q) == [i \in DOMAIN AnswerParts[kind[q]] |-> Part(q, AnswerParts[kind[q]][i])]

Completes(q, res) == op' = [op EXCEPT ![q].res = res]
Succeeds(q) == Completes(q, "ok") /\ UNCHANGED faults
Fails(q) == Completes(q, "err") /\ Fault

\* The first n parts that have come are put in the buffer.
Receive(q, n) ==
  LET c == conn[q]
  IN /\ got' = [got EXCEPT ![q] = @ \o SubSeq(answers[c], 1, n)]
     /\ answers' = [answers EXCEPT ![c] = SubSeq(@, n + 1, Len(@))]

EndOf(c) == IF link[c] = "closed" THEN "eof" ELSE "err"

\* An operation before the first read ends.  What is written to a closed connection may
\* be lost without an error.
OpensOrWrites(q) ==
  LET c == conn[q]
  IN /\ op[q].res = "wait"
     /\ \/ /\ op[q].name = "resolve"
           /\ Succeeds(q) \/ Fails(q)
           /\ UNCHANGED <<link, requests>>
        \/ /\ op[q].name = "connect"
           /\ \/ Succeeds(q) /\ link' = [link EXCEPT ![c] = "up"]
              \/ Fails(q) /\ UNCHANGED link
           /\ UNCHANGED requests
        \/ /\ op[q].name = "write"
           /\ \/ /\ Succeeds(q)
                 /\ requests' = IF link[c] = "up" THEN [requests EXCEPT ![c] = Append(@, q)]
                                ELSE requests
              \/ link[c] # "up" /\ Fails(q) /\ UNCHANGED requests
           /\ UNCHANGED link
     /\ UNCHANGED <<calls, conn, got, taken, pool, sockets, stopped, answers, handled, late, chosen, stop_called, alive>>

\* A read ends: up to a delimiter, and perhaps further; or of an exact length; or with the
\* connection.
Reads(q) ==
  LET c == conn[q]
      n == Len(answers[c])
  IN /\ op[q].res = "wait"
     /\ \/ /\ op[q].name = "header"
           /\ \E i \in 1..n :
                /\ \E j \in 1..i : IsHeader(answers[c][j])
                /\ Receive(q, i)
           /\ Completes(q, "ok")
        \/ /\ op[q].name = "size"
           /\ \E i \in (IF Len(got[q]) > taken[q] THEN 0 ELSE 1)..n : Receive(q, i)
           /\ Completes(q, "ok")
        \/ /\ op[q].name \in {"content", "data"} /\ n > 0
           /\ Receive(q, 1) /\ Completes(q, "ok")
        \/ /\ op[q].name = "eof" /\ n > 0 /\ answers[c][n].part = "huge"
           /\ Receive(q, n) /\ Completes(q, "ok")
        \/ /\ link[c] # "up" /\ op[q].name \in {"header", "content", "size", "data", "eof"}
           /\ op[q].name = "header" => \A j \in 1..n : ~IsHeader(answers[c][j])
           /\ op[q].name = "size" => n = 0 /\ Len(got[q]) = taken[q]
           /\ op[q].name \in {"content", "data"} => n = 0
           /\ Receive(q, n)
           /\ Completes(q, EndOf(c))
     /\ UNCHANGED <<calls, conn, taken, pool, sockets, stopped, link, requests, handled, late, chosen, bounded>>

\* ServerBase::write(): the resource answers the first request of the connection, whether
\* the client still waits or not; the connection is closed if nothing else tells the end
\* of the answer.
Serves(c) ==
  /\ link[c] \in {"up", "gone"} /\ requests[c] # <<>>
  /\ LET q == Head(requests[c])
     IN /\ handled' = [handled EXCEPT ![q] = @ + 1]
        /\ \/ /\ link[c] = "up"
              /\ answers' = [answers EXCEPT ![c] = @ \o Answer(q)]
              /\ link' = [link EXCEPT ![c] = IF kind[q] \in ToTheEnd \cup {"unstated"} THEN "closed" ELSE @]
           \/ link[c] = "gone" /\ UNCHANGED <<answers, link>>
        /\ requests' = [requests EXCEPT ![c] = Tail(@)]
  /\ UNCHANGED <<calls, session, pool, sockets, stopped, late, chosen, bounded>>

\* The client has the connection still.
Held(c) == c \in connections \/ \E q \in Requests : op[q] # NoOp /\ conn[q] = c

\* The server closes the connection (a timeout, stop(), an error, its end), or it breaks:
\* a part of what was under way arrives, and what the server had to read is lost, or was read
\* and its handler is queued.
Closes(c) ==
  /\ link[c] = "up" /\ Held(c) /\ Fault
  /\ \E end \in {"closed", "reset"} : link' = [link EXCEPT ![c] = end]
  /\ \/ \E n \in 0..Len(answers[c]) : answers' = [answers EXCEPT ![c] = SubSeq(@, 1, n)]
     \/ /\ HeadersTear
        /\ \E n \in 0..Len(answers[c]) - 1 :
             /\ IsHeader(answers[c][n + 1])
             /\ answers' = [answers EXCEPT ![c] =
                              Append(SubSeq(@, 1, n), Part(@[n + 1].of, "half"))]
  /\ requests' = [requests EXCEPT ![c] = <<>>]
  /\ \/ UNCHANGED late
     \/ requests[c] # <<>> /\ late' = [late EXCEPT ![Head(requests[c])] = @ + 1]
  /\ UNCHANGED <<calls, session, pool, sockets, stopped, handled, chosen, stop_called, alive>>

\* The queued handler calls the resource, whatever became of the connection; the answer
\* cannot be sent.
ServesLate(q) ==
  /\ late[q] > 0
  /\ handled' = [handled EXCEPT ![q] = @ + 1]
  /\ late' = [late EXCEPT ![q] = @ - 1]
  /\ UNCHANGED <<calls, session, pool, sockets, stopped, link, requests, answers, chosen, bounded>>

-----------------------------------------------------------------------------

Caller(q) == GetConnection(q) \/ Connect(q) \/ Count(q) \/ Run(q) \/ RunReturns(q) \/ Returns(q)

Handles(q) ==
  \/ ResolveHandler(q) \/ ConnectHandler(q) \/ WriteHandler(q) \/ HeaderHandler(q)
  \/ HeaderThrows(q) \/ ContentHandler(q) \/ TooBig(q) \/ SizeHandler(q) \/ DataHandler(q)
  \/ Failed(q) \/ Retry(q) \/ NoRetry(q) \/ NoLock(q)

Next ==
  \/ \E q \in Requests : Caller(q) \/ Handles(q) \/ OpensOrWrites(q) \/ Reads(q) \/ ServesLate(q)
  \/ \E c \in Connections : TimerExpires(c) \/ TimerHandler(c) \/ Serves(c) \/ Closes(c)
  \/ OutOfWork \/ Stop \/ Destroy

Spec == Init /\ [][Next]_vars

\* What goes on by itself: threads in request() and the io_service, operations (a read once
\* there is something to read or the connection is lost), and the server with what it has
\* been sent.  A server that closes a connection may be about to end: nothing has to be
\* handled late.
Progress ==
  \/ \E q \in Requests :
       \/ Connect(q) \/ Count(q) \/ Run(q) \/ RunReturns(q) \/ Returns(q)
       \/ Handles(q) \/ OpensOrWrites(q) \/ Reads(q)
  \/ \E c \in Connections : TimerHandler(c) \/ Serves(c)
  \/ OutOfWork

\* Something of it goes on as long as something can: with finitely many requests no more is
\* needed.  Nobody has to call request(), and no timer, stop() or loss is counted on.
FairSpec == Spec /\ WF_vars(Progress)

-----------------------------------------------------------------------------
(* Properties.                                                               *)

\* The request holds its connection.
Active(q) == phase[q] = "calling" \/ op[q] # NoOp

\* A connection serves one request at a time, whatever stop(), retries and late timers do:
\* it is marked in_use and no other request holds it.
NotShared ==
  \A q \in Requests : Active(q) =>
    /\ in_use[conn[q]]
    /\ \A p \in Requests \ {q} : Active(p) => conn[p] # conn[q]

\* The pool keeps at most one connection that is not in use (client.h:234).
OneIdle == \A c, d \in Idle : c = d

\* A request that succeeds returns the answer the server gave to that request, the whole
\* of it and nothing else, although its connection served others before and may have been
\* replaced.  An answer that ends with the connection may be cut short by its loss.
RightAnswer ==
  \A q \in Requests : called[q] = "ok" =>
    IF kind[q] \in ToTheEnd THEN IsPrefix(got[q], Answer(q)) /\ got[q] # <<>>
    ELSE got[q] = Answer(q)

\* The synchronous request() returns after its callback has put the answer in its
\* variables, not before (client.h:162).
AnswerBeforeReturn ==
  \A q \in Requests : phase[q] \in {"ran", "returned"} => called[q] # "no"

\* The io_service may have been run by another thread too, or the count of its users is
\* wrong since one left by an exception.
Disturbed(q) ==
  \E p \in Requests :
    \/ phase[p] = "threw"
    \/ thread[p] # thread[q] /\ phase[p] \in {"counted", "running", "ran", "returned"}

\* The synchronous request() returns without an answer only if another thread ran the
\* io_service, or an exception left it: the requests of one thread leave it as they would
\* find it (client.h:174-184).
AnswerUnlessDisturbed ==
  \A q \in Requests : phase[q] \in {"ran", "returned"} /\ called[q] = "no" => Disturbed(q)

\* Every request is called back, every synchronous request() returns.  The exceptions are
\* those of the code: the client is destroyed, the io_service was disturbed, and a length
\* that is none, whose exception is all there is.
Settled(q) ==
  \/ phase[q] = "new"
  \/ /\ style = "sync"
     /\ \/ phase[q] = "threw"
        \/ phase[q] = "returned" /\ (called[q] # "no" \/ Disturbed(q))
  \/ /\ style = "async"
     /\ called[q] # "no" \/ (op[q] = NoOp /\ (~alive \/ kind[q] = "badlength"))

AllSettled == <>[](\A q \in Requests : Settled(q))

\* The client implements HttpCall: one callback, success only for a request that was
\* handled, and no handling beyond the second, neither before the callback nor after it.
Call == INSTANCE HttpCall WITH
  status <- [q \in Requests |->
               IF called[q] # "no" THEN called[q]
               ELSE IF phase[q] = "new" THEN "new" ELSE "pending"]

CallSpec == Call!Spec
=============================================================================
