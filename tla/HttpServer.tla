------------------------------ MODULE HttpServer ------------------------------
(***************************************************************************)
(* http/server.h: a server after start(), the connections made to it and    *)
(* the requests on them.  An asynchronous operation completes in one step   *)
(* (asio and the kernel) and its handler runs in another, on any number of  *)
(* threads; a handler is one step, since it touches what it shares once,    *)
(* under connections_mutex, but for that of async_accept, which first       *)
(* re-arms the acceptor and then reads.                                     *)
(*                                                                         *)
(* A request is its kind and the parts of its text in which the code reads  *)
(* it.  A peer makes a request when the one before is answered, as          *)
(* http/client.h does.                                                      *)
(***************************************************************************)
EXTENDS Naturals, Sequences

CONSTANTS
  Peers,      \* connections; each is made at most once
  Cases,      \* the kinds of the requests made on each, and whose the io_service is
  Timed,      \* timeout_request and timeout_content are not 0
  MaxSends,   \* bound: sends of parts of one answer by the application
  Stops, Ends \* stop() and the destructor may be called

\* How a request's text ends, and what becomes of it.
Kinds == {"get", "close", "length", "chunked", "bad", "badchunk", "unknown", "upgrade",
          "big", "biglength", "bigchunk"}

ASSUME PeersAssumption == "waiting" \notin Peers
ASSUME CasesAssumption == Cases \subseteq [script : [Peers -> Seq(Kinds)], internal : BOOLEAN]
ASSUME FlagsAssumption == Timed \in BOOLEAN /\ Stops \in BOOLEAN /\ Ends \in BOOLEAN
ASSUME SendsAssumption == MaxSends \in Nat

VARIABLES
  case,        \* the one of Cases at hand
  acceptor,    \* ServerBase::acceptor is open
  accepting,   \* the outstanding async_accept
  connections, \* ServerBase::connections; "waiting" is the object of that async_accept
  phase, done, \* each connection's outstanding operation, or who has it; its result
  got, taken,  \* the parts put in Request::streambuf, those taken out of it
  socket,      \* the connection's socket
  timer, due,  \* Connection::timer is armed; handlers of expired timers not yet run
  sends,       \* the parts of the answer sent so far by the application
  peer,        \* the other end
  req, sent,   \* its last request, the parts of it that it has sent
  handled,     \* the last request given to the application
  answered,    \* the last request whose answer was written
  refused,     \* that answer is the server's own, 413
  stopping,    \* how far stop() is
  runner,      \* the scope runner lets handlers go on
  fate         \* "up", or "timer": the handler of a timer that had expired closes a socket
               \* that on_upgrade has taken

accepts == <<acceptor, accepting>>
reads   == <<got, taken>>
timers  == <<timer, due>>
peers   == <<peer, req, sent>>
answers == <<handled, answered, refused>>
service == <<stopping, runner>>
vars == <<accepts, connections, phase, done, reads, socket, timers, sends, peers,
          answers, service, fate, case>>

Script   == case.script
Internal == case.internal

-----------------------------------------------------------------------------
(* Types and initial state.                                                  *)

Reading == {"read", "content", "size", "data"}
Writing == {"part", "send", "refuse"}
Phases  == {"none", "accept", "session", "app", "dropped", "upgraded", "end"}
             \cup Reading \cup Writing

Kind(c) == Script[c][req[c]]

HasContent(k) == k \in {"length", "biglength"}
HasChunks(k)  == k \in {"chunked", "badchunk", "bigchunk"}

\* The header; with the content; with a chunk and the empty one, each a size and data.
Parts(k) == IF HasContent(k) THEN 2 ELSE IF HasChunks(k) THEN 5 ELSE 1

\* Every location has its type.
TypeOK ==
  /\ case \in Cases
  /\ acceptor \in BOOLEAN
  /\ accepting \in {"none", "armed", "aborted", "posted", "failed"}
  /\ connections \subseteq Peers \cup {"waiting"}
  /\ phase \in [Peers -> Phases] /\ done \in [Peers -> {"no", "ok", "error"}]
  /\ got \in [Peers -> 0..5] /\ taken \in [Peers -> 0..5] /\ sent \in [Peers -> 0..5]
  /\ \A c \in Peers : taken[c] <= got[c] /\ got[c] <= sent[c]
  /\ socket \in [Peers -> {"none", "late", "open", "closed", "moved"}]
  /\ timer \in [Peers -> BOOLEAN] /\ due \in [Peers -> BOOLEAN]
  /\ sends \in [Peers -> 0..MaxSends]
  /\ peer \in [Peers -> {"idle", "open", "stuck", "gone"}]
  /\ req \in [Peers -> Nat] /\ \A c \in Peers : req[c] <= Len(Script[c])
  /\ handled \in [Peers -> Nat] /\ answered \in [Peers -> Nat] /\ refused \in [Peers -> BOOLEAN]
  /\ stopping \in {"no", "acceptor", "cleared", "done"} /\ runner \in BOOLEAN
  /\ fate \in {"up", "timer"}

\* start() has called accept().
Init ==
  /\ case \in Cases
  /\ acceptor = TRUE /\ accepting = "armed" /\ connections = {"waiting"}
  /\ phase = [c \in Peers |-> "none"] /\ done = [c \in Peers |-> "no"]
  /\ got = [c \in Peers |-> 0] /\ taken = [c \in Peers |-> 0]
  /\ socket = [c \in Peers |-> "none"]
  /\ timer = [c \in Peers |-> FALSE] /\ due = [c \in Peers |-> FALSE]
  /\ sends = [c \in Peers |-> 0]
  /\ peer = [c \in Peers |-> "idle"]
  /\ req = [c \in Peers |-> 0] /\ sent = [c \in Peers |-> 0]
  /\ handled = [c \in Peers |-> 0] /\ answered = [c \in Peers |-> 0]
  /\ refused = [c \in Peers |-> FALSE]
  /\ stopping = "no" /\ runner = TRUE /\ fate = "up"

\* The threads in start() run handlers until stop() has stopped the server's own
\* io_service; one of the application goes on.
Running == ~(Internal /\ (stopping = "done" \/ ~runner))

\* Connection::set_timeout and cancel_timeout.  The timer that is replaced or
\* cancelled may have expired: its handler is run all the same.
SetTimeout(c)    == timer' = [timer EXCEPT ![c] = Timed] /\ UNCHANGED due
CancelTimeout(c) == timer' = [timer EXCEPT ![c] = FALSE] /\ UNCHANGED due

\* Mutated form of Begin: set_timeout is forgotten.
BeginUntimed(c, p) ==
  /\ phase' = [phase EXCEPT ![c] = p]
  /\ done' = [done EXCEPT ![c] = "no"]
  /\ CancelTimeout(c)

\* Operation p is started on connection c.
Begin(c, p) ==
  /\ phase' = [phase EXCEPT ![c] = p]
  /\ done' = [done EXCEPT ![c] = "no"]
  /\ SetTimeout(c)

\* The deleter of create_connection: the last pointer to the connection is gone.
Delete(c) ==
  /\ connections' = connections \ {c}
  /\ socket' = [socket EXCEPT ![c] = "closed"]
  /\ phase' = [phase EXCEPT ![c] = "end"]

\* A handler returns and starts nothing: its session is freed, and the connection
\* unless the handler of an expired timer still holds it.
Drop(c) ==
  /\ IF due[c] THEN phase' = [phase EXCEPT ![c] = "dropped"] /\ UNCHANGED <<connections, socket>>
               ELSE Delete(c)
  /\ done' = [done EXCEPT ![c] = "no"]
  /\ CancelTimeout(c)

-----------------------------------------------------------------------------
(* Accepting.                                                                *)

\* accept(): a new connection in the set, async_accept; on an acceptor that has
\* been closed the operation fails at once.
Accept ==
  /\ connections' = connections \cup {"waiting"}
  /\ accepting' = IF acceptor THEN "armed" ELSE "posted"

\* The kernel accepts c: the object that waited is c's.  Its socket is assigned by
\* the reactor or, in later versions of asio, on the way to the handler.
Accepted(c) ==
  /\ accepting = "armed" /\ peer[c] # "idle" /\ phase[c] = "none"
  /\ accepting' = "none"
  /\ connections' = IF "waiting" \in connections THEN (connections \ {"waiting"}) \cup {c}
                                                 ELSE connections
  /\ phase' = [phase EXCEPT ![c] = "accept"]
  /\ \E s \in {"open", "late"} : socket' = [socket EXCEPT ![c] = s]
  /\ UNCHANGED <<acceptor, done, reads, timers, sends, peers, answers, service, fate>>

\* ... or the operation fails: too many files are open, or the acceptor is closed.
AcceptBreaks ==
  /\ accepting \in {"armed", "posted"}
  /\ accepting' = "failed"
  /\ UNCHANGED <<acceptor, connections, phase, done, reads, socket, timers, sends, peers,
                 answers, service, fate>>

\* The handler after a failure: its connection is freed, and accept() called again
\* unless the operation was aborted.
AcceptFailed ==
  /\ Running
  /\ IF accepting = "failed" /\ runner
     THEN accepting = "failed" /\ Accept
     ELSE /\ accepting \in {"failed", "aborted"}
          /\ accepting' = "none"
          /\ connections' = connections \ {"waiting"}
  /\ UNCHANGED <<acceptor, phase, done, reads, socket, timers, sends, peers, answers,
                 service, fate>>

\* The handler after success, before it reads.
AcceptHandler(c) ==
  /\ Running /\ phase[c] = "accept"
  /\ IF runner
     THEN /\ Accept
          /\ phase' = [phase EXCEPT ![c] = "session"]
          /\ socket' = [socket EXCEPT ![c] = IF @ = "late" THEN "open" ELSE @]
          /\ UNCHANGED <<done, timers>>
     ELSE Drop(c) /\ UNCHANGED accepting
  /\ UNCHANGED <<acceptor, reads, sends, peers, answers, service, fate>>

\* Mutated form of Read: the new session goes on with the old request.
ReadAgain(c) == Begin(c, "read") /\ UNCHANGED <<reads, sent>>

\* read() of a new session, whose request has a streambuf of its own.
Read(c) ==
  /\ Begin(c, "read")
  /\ got' = [got EXCEPT ![c] = 0] /\ taken' = [taken EXCEPT ![c] = 0]
  /\ sent' = [sent EXCEPT ![c] = @ - got[c]]

FirstRead(c) ==
  /\ phase[c] = "session" /\ Read(c)
  /\ UNCHANGED <<accepts, connections, socket, sends, peer, req, answers, service, fate>>

-----------------------------------------------------------------------------
(* Operations on a connection end.                                           *)

Pending(c) == phase[c] \in Reading \cup Writing /\ done[c] = "no"

Completes(c, result) ==
  /\ done' = [done EXCEPT ![c] = result]
  /\ UNCHANGED <<accepts, connections, phase, socket, taken, timers, sends, peers, answers,
                 service, fate>>

\* async_read_until ends with what it looks for, and what came along with it;
\* async_read with the part that it lacks.
Receives(c) ==
  /\ Pending(c) /\ phase[c] \in Reading /\ socket[c] = "open" /\ sent[c] > taken[c]
  /\ \E n \in taken[c] + 1 .. sent[c] :
       /\ n >= got[c] /\ (phase[c] \in {"content", "data"} => n = taken[c] + 1)
       /\ got' = [got EXCEPT ![c] = n]
  /\ Completes(c, "ok")

\* async_write ends when the kernel has taken everything; not while the peer does
\* not read.
Written(c) ==
  /\ Pending(c) /\ phase[c] \in Writing /\ socket[c] = "open"
  /\ UNCHANGED got /\ Completes(c, "ok")

\* The socket has been closed, or the peer is gone and has sent no more.
Fails(c) ==
  /\ Pending(c)
  /\ socket[c] = "closed" \/ (peer[c] = "gone" /\ (phase[c] \in Reading => sent[c] = taken[c]))
  /\ UNCHANGED got /\ Completes(c, "error")

Finish(c) == Receives(c) \/ Written(c) \/ Fails(c)

-----------------------------------------------------------------------------
(* The handlers of the chain read - content or chunks - answer.              *)

\* A handler of c begins: it cancels the timer and takes the lock, if it can.
Handler(c, p, r) == Running /\ phase[c] = p /\ done[c] = r /\ runner

\* The other handlers: without the lock, after an error (on_error), or, in the case
\* of 413, in any case, the session is left.
Left(c) ==
  /\ Running /\ phase[c] \in Reading \cup {"send", "refuse"}
  /\ done[c] = "error" \/ (done[c] = "ok" /\ (phase[c] = "refuse" \/ ~runner))
  /\ Drop(c)
  /\ IF phase[c] \in Writing /\ done[c] = "ok"
     THEN /\ answered' = [answered EXCEPT ![c] = req[c]]
          /\ refused' = [refused EXCEPT ![c] = phase[c] = "refuse"]
     ELSE UNCHANGED <<answered, refused>>
  /\ UNCHANGED <<accepts, reads, sends, peers, handled, service, fate>>

\* The streambuf is full: 413 is sent, and on_error called.
Refuse(c) ==
  /\ Begin(c, "refuse")
  /\ UNCHANGED <<connections, socket, sends, handled>>

\* Mutated form of FindResource: an upgraded connection is left for its deleter to
\* erase, which waits for the handler of an expired timer.
FindResourceKeeps(c) ==
  /\ Kind(c) = "upgrade"
  /\ connections' = IF due[c] THEN connections ELSE connections \ {c}
  /\ socket' = [socket EXCEPT ![c] = "moved"]
  /\ phase' = [phase EXCEPT ![c] = "upgraded"]
  /\ CancelTimeout(c)
  /\ UNCHANGED <<done, sends, handled>>

\* find_resource(): on_upgrade takes the socket; without a resource nothing is
\* answered; else write() hands a Response to the resource function.
FindResource(c) ==
  \/ /\ Kind(c) = "upgrade"
     /\ connections' = connections \ {c}
     /\ socket' = [socket EXCEPT ![c] = "moved"]
     /\ phase' = [phase EXCEPT ![c] = "upgraded"]
     /\ CancelTimeout(c)
     /\ UNCHANGED <<done, sends, handled>>
  \/ Kind(c) = "unknown" /\ Drop(c) /\ UNCHANGED <<sends, handled>>
  \/ /\ Kind(c) \notin {"upgrade", "unknown"}
     /\ Begin(c, "app")
     /\ handled' = [handled EXCEPT ![c] = req[c]]
     /\ sends' = [sends EXCEPT ![c] = 0]
     /\ UNCHANGED <<connections, socket>>

\* One more operation is needed for this request.
ReadMore(c, p) == Begin(c, p) /\ UNCHANGED <<connections, socket, sends, handled>>

NotUnderstood(c) == Drop(c) /\ UNCHANGED <<sends, handled>>

\* With the header, and what came along with it, the streambuf has its maximal size.
Full(c) == Kind(c) = "big" \/ (Kind(c) = "biglength" /\ got[c] = 2)

\* The handler of the header, which is taken out of the streambuf.
HeaderHandler(c) ==
  /\ Handler(c, "read", "ok")
  /\ taken' = [taken EXCEPT ![c] = 1]
  /\ \/ Full(c) /\ Refuse(c)
     \/ Kind(c) = "bad" /\ NotUnderstood(c)
     \/ HasContent(Kind(c)) /\ got[c] < 2 /\ ReadMore(c, "content")
     \/ HasChunks(Kind(c)) /\ ReadMore(c, "size")
     \/ ~Full(c) /\ got[c] >= Parts(Kind(c)) /\ Kind(c) # "bad" /\ ~HasChunks(Kind(c))
        /\ FindResource(c)
  /\ UNCHANGED <<accepts, got, peers, answered, refused, service, fate>>

ContentHandler(c) ==
  /\ Handler(c, "content", "ok")
  /\ IF Kind(c) = "biglength" THEN Refuse(c) ELSE FindResource(c)
  /\ UNCHANGED <<accepts, reads, peers, answered, refused, service, fate>>

\* Mutated form of Chunk: the first chunk is taken for the last.
ChunkOnce(c, n) == taken' = [taken EXCEPT ![c] = n] /\ FindResource(c)

\* read_chunked_transfer_encoded_chunk, with n parts taken: the next chunk, or the
\* request is whole.
Chunk(c, n) ==
  /\ taken' = [taken EXCEPT ![c] = n]
  /\ \/ n = 5 /\ FindResource(c)
     \/ n < 5 /\ Kind(c) = "bigchunk" /\ Refuse(c)
     \/ n < 5 /\ Kind(c) # "bigchunk" /\ ReadMore(c, "size")

\* The handler of a chunk's size.
SizeHandler(c) ==
  /\ Handler(c, "size", "ok")
  /\ \/ Kind(c) = "badchunk" /\ NotUnderstood(c) /\ UNCHANGED taken
     \/ /\ Kind(c) # "badchunk" /\ got[c] = taken[c] + 1
        /\ taken' = [taken EXCEPT ![c] = @ + 1] /\ ReadMore(c, "data")
     \/ Kind(c) # "badchunk" /\ got[c] > taken[c] + 1 /\ Chunk(c, taken[c] + 2)
  /\ UNCHANGED <<accepts, got, peers, answered, refused, service, fate>>

DataHandler(c) ==
  /\ Handler(c, "data", "ok") /\ Chunk(c, taken[c] + 1)
  /\ UNCHANGED <<accepts, got, peers, answered, refused, service, fate>>

-----------------------------------------------------------------------------
(* The answer.                                                               *)

\* The application lets go of the Response, or has thrown: its deleter sends what
\* was written to it.
Release(c) ==
  /\ phase[c] = "app" /\ Begin(c, "send")
  /\ UNCHANGED <<accepts, connections, reads, socket, sends, peers, answers, service, fate>>

\* Or sends what it has written so far, to go on in the callback.
SendPart(c) ==
  /\ phase[c] = "app" /\ sends[c] < MaxSends /\ Begin(c, "part")
  /\ sends' = [sends EXCEPT ![c] = @ + 1]
  /\ UNCHANGED <<accepts, connections, reads, socket, peers, answers, service, fate>>

\* The callback; without the lock it is freed, with the Response it holds.
PartHandler(c) ==
  /\ Running /\ phase[c] = "part" /\ done[c] # "no"
  /\ phase' = [phase EXCEPT ![c] = "app"]
  /\ done' = [done EXCEPT ![c] = "no"]
  /\ CancelTimeout(c)
  /\ UNCHANGED <<accepts, connections, reads, socket, sends, peers, answers, service, fate>>

\* The whole answer is written: the connection is kept for the next request, or not.
SendHandler(c) ==
  /\ Handler(c, "send", "ok")
  /\ answered' = [answered EXCEPT ![c] = req[c]]
  /\ IF Kind(c) = "close" THEN Drop(c) /\ UNCHANGED <<reads, sent>>
                          ELSE Read(c) /\ UNCHANGED <<connections, socket>>
  /\ UNCHANGED <<accepts, sends, peer, req, handled, refused, service, fate>>

-----------------------------------------------------------------------------
(* Timers.                                                                   *)

TimerExpires(c) ==
  /\ Running /\ timer[c]
  /\ timer' = [timer EXCEPT ![c] = FALSE] /\ due' = [due EXCEPT ![c] = TRUE]
  /\ UNCHANGED <<accepts, connections, phase, done, reads, socket, sends, peers, answers,
                 service, fate>>

\* Its handler closes the socket, whatever the connection does by then.
TimerHandler(c) ==
  /\ Running /\ due[c]
  /\ due' = [due EXCEPT ![c] = FALSE]
  /\ \/ /\ phase[c] = "upgraded" /\ fate' = "timer"
        /\ UNCHANGED <<connections, socket, phase>>
     \/ phase[c] = "dropped" /\ Delete(c) /\ UNCHANGED fate
     \/ /\ phase[c] \notin {"upgraded", "dropped"}
        /\ socket' = [socket EXCEPT ![c] = "closed"]
        /\ UNCHANGED <<connections, phase, fate>>
  /\ UNCHANGED <<accepts, done, reads, timer, sends, peers, answers, service>>

-----------------------------------------------------------------------------
(* stop() and the destructor.                                                *)

StopAcceptor ==
  /\ stopping = "no" /\ (Stops \/ ~runner)
  /\ stopping' = "acceptor" /\ acceptor' = FALSE
  /\ accepting' = IF accepting = "armed" THEN "aborted" ELSE accepting
  /\ UNCHANGED <<connections, phase, done, reads, socket, timers, sends, peers, answers,
                 runner, fate>>

\* The connections of the set are closed and forgotten; a socket that is not assigned
\* yet is not closed.
StopConnections ==
  /\ stopping = "acceptor" /\ stopping' = "cleared"
  /\ socket' = [c \in Peers |-> IF c \in connections /\ socket[c] = "open" THEN "closed"
                                                                          ELSE socket[c]]
  /\ connections' = {}
  /\ UNCHANGED <<accepts, phase, done, reads, timers, sends, peers, answers, runner,
                 fate>>

\* io_service->stop() if the server has made it.
StopService ==
  /\ stopping = "cleared" /\ stopping' = "done"
  /\ UNCHANGED <<accepts, connections, phase, done, reads, socket, timers, sends, peers,
                 answers, runner, fate>>

\* The destructor waits for the handlers that hold the lock, then stop() is called,
\* again or for the first time.  start() has returned, if the io_service is the
\* server's, and the application holds no Response of a service that goes with it.
Destroy ==
  /\ Ends /\ runner /\ stopping \in {"no", "done"}
  /\ \A c \in Peers : phase[c] # "session"
  /\ Internal => stopping = "done" /\ \A c \in Peers : phase[c] # "app"
  /\ runner' = FALSE /\ stopping' = "no"
  /\ UNCHANGED <<accepts, connections, phase, done, reads, socket, timers, sends, peers,
                 answers, fate>>

Stop == StopAcceptor \/ StopConnections \/ StopService

-----------------------------------------------------------------------------
(* The peers.                                                                *)

Connects(c) ==
  /\ peer[c] = "idle" /\ acceptor /\ Script[c] # <<>>
  /\ peer' = [peer EXCEPT ![c] = "open"]
  /\ UNCHANGED <<req, sent>>

\* The next request, or the beginning of it and no more.
Asks(c) ==
  /\ peer[c] = "open" /\ answered[c] = req[c] /\ ~refused[c] /\ phase[c] \notin {"dropped", "end"}
  /\ req[c] < Len(Script[c])
  /\ req' = [req EXCEPT ![c] = @ + 1]
  /\ \E n \in 1 .. Parts(Script[c][req[c] + 1]) :
       /\ sent' = [sent EXCEPT ![c] = n]
       /\ peer' = [peer EXCEPT ![c] = IF n < Parts(Script[c][req[c] + 1]) THEN "stuck" ELSE @]

Leaves(c) ==
  /\ peer[c] \in {"open", "stuck"}
  /\ peer' = [peer EXCEPT ![c] = "gone"]
  /\ UNCHANGED <<req, sent>>

PeerStep(c) ==
  /\ Connects(c) \/ Asks(c) \/ Leaves(c)
  /\ UNCHANGED <<accepts, connections, phase, done, reads, socket, timers, sends, answers,
                 service, fate>>

-----------------------------------------------------------------------------
\* The steps of the server, the application and the clock on connection c.  The end
\* of a read is here only when it fails, that of a write too: nobody must send, or
\* read what is sent.
Progress(c) ==
  \/ AcceptHandler(c) \/ FirstRead(c) \/ Fails(c) \/ Left(c)
  \/ HeaderHandler(c) \/ ContentHandler(c) \/ SizeHandler(c) \/ DataHandler(c)
  \/ Release(c) \/ PartHandler(c) \/ SendHandler(c) \/ TimerExpires(c) \/ TimerHandler(c)

Step(c) == Progress(c) \/ Accepted(c) \/ Finish(c) \/ SendPart(c) \/ PeerStep(c)

Next ==
  /\ fate = "up" /\ UNCHANGED case
  /\ (\E c \in Peers : Step(c)) \/ AcceptBreaks \/ AcceptFailed \/ Stop \/ Destroy

Settled(c) == phase[c] \in {"end", "upgraded"}

\* Nothing is under way, or the threads in start() have returned.
Idle ==
  /\ fate # "up" \/ ~Running \/ \A c \in Peers : phase[c] = "none" \/ Settled(c)
  /\ UNCHANGED vars

Spec == Init /\ [][Next \/ Idle]_vars

(* Handlers are run, timers expire and the application lets go of every        *)
(* Response; no peer must do anything, nor anybody call stop().                *)
Fairness == \A c \in Peers : WF_vars(fate = "up" /\ Progress(c) /\ UNCHANGED case)

FairSpec == Spec /\ Fairness

-----------------------------------------------------------------------------
(* Properties.                                                               *)

Turns == INSTANCE HttpTurns WITH asked <- req

\* The connection objects: c's and that of the outstanding async_accept.
Alive ==
  {c \in Peers : phase[c] \notin {"none", "end", "upgraded"}}
    \cup (IF accepting = "none" THEN {} ELSE {"waiting"})

\* The set, which holds plain pointers, never keeps one to a connection that is
\* deleted, and until stop() empties it has all of them: stop() can close each, and
\* closes nothing that is gone, or was taken over by on_upgrade.
SetIsExact ==
  /\ connections \subseteq Alive
  /\ acceptor \/ (stopping = "acceptor" /\ runner) => connections = Alive

\* A request reaches the application when all of its parts have been read, and none
\* of another.
WholeRequest ==
  \A c \in Peers : phase[c] = "app" =>
    taken[c] = (IF HasContent(Kind(c)) THEN 1 ELSE Parts(Kind(c))) /\ got[c] = Parts(Kind(c))

\* Requests are handled and answered in turn, as the client counts on.
TurnsSpec == Turns!Spec

\* No connection is kept for ever: whatever its peer does, or does not do, it is closed
\* or taken over in the end.
Drains == \A c \in Peers : phase[c] = "accept" ~> Settled(c) \/ ~Running \/ fate # "up"
=============================================================================
