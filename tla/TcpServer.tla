------------------------------ MODULE TcpServer ------------------------------
(***************************************************************************)
(* tcp/src: the threaded TCP server, with the three applications built on   *)
(* it.  One TcpServerInternal runs                                          *)
(*   - Main, the thread that calls Reserve, Start, then Update or Send in a *)
(*     loop, then Stop and Release (chat-server.cpp:main; for the video     *)
(*     servers the capture thread, video-server.cpp:79-140);                *)
(*   - Acceptor, the thread of the TcpConnectionListener task;              *)
(*   - one thread per connected client, of its TcpClientListener task       *)
(*     (none under App = "bcast", which passes noClientThread = true).      *)
(* Nothing is locked.  A step is one access to what the threads share: the  *)
(* vector of clients, a client object, a task's flag, a socket.             *)
(*                                                                         *)
(* Messages are reduced to their two sends, the length and the body, tagged *)
(* with the sending thread and the kind of message.                         *)
(***************************************************************************)
EXTENDS Integers, Sequences, FiniteSets, Functions

CONSTANTS
  Clients,    \* connections; each is made at most once
  Acceptor, Main,
  NoOne,      \* no client, no thread
  Apps,       \* the programs considered, see App
  MaxFrames,  \* bound: messages each peer sends (after its name, for "chat")
  Departures, \* bound: how each peer may leave, among "mute", "closed" and "reset"
  MaxCasts    \* bound: broadcasts of Main under "bcast"

ASSUME ConstantsAssumption ==
  /\ Cardinality({Acceptor, Main, NoOne}) = 3
  /\ Clients \cap {Acceptor, Main, NoOne} = {}
  /\ Apps \subseteq {"video", "bcast", "chat"}
  /\ MaxFrames \in [Clients -> Nat] /\ MaxCasts \in Nat
  /\ Departures \in [Clients -> SUBSET {"mute", "closed", "reset"}]

Tasks   == Clients \cup {Acceptor}
Threads == Clients \cup {Acceptor, Main}

VARIABLES
  \* the program: "video" (VideoServer), "bcast" (VideoBcastServer), "chat" (ChatServer)
  App,
  \* the tasks, see ThreadedProcess
  mRunning, pc, call,
  \* TcpServerInternal: mReady, mRunning, listen() succeeded, mRegisteredClients,
  \* and the thread that is inside push_back or erase
  mReady, running, listening, vec, changing,
  \* TcpRegisteredClient(Internal): the object, its descriptor, its mError
  mem, fd, mError,
  \* the network: the state of the peer, the chunks it sent and the server read,
  \* the last chunk the server sent to it
  peer, sent, got, last,
  \* each thread's position in its code, its message being sent, the Acceptor's
  \* new client, Main's loop index and toRemove, its broadcasts so far
  at, writing, newcomer, idx, doomed, casts,
  \* "up", or how the process ended: killed by SIGPIPE or undefined behaviour
  fate

tasks   == <<mRunning, pc, call>>
server  == <<mReady, running, listening, vec, changing>>
objects == <<mem, fd, mError>>
network == <<peer, sent, got, last>>
control == <<at, writing, newcomer, idx, doomed, casts>>
vars    == <<tasks, server, objects, network, control, fate, App>>

NoClientThread == App = "bcast"

TP == INSTANCE ThreadedProcess

-----------------------------------------------------------------------------
(* Types and initial state.                                                  *)

MainAt == {"reserve", "start", "create", "created", "loop", "scan", "erase", "erasing",
           "announce", "drop", "dropping", "stop", "join", "release", "releasing", "done"}
AcceptorAt == {"poll", "hello", "name", "push", "pushing", "listen", "create", "created",
               "return"}
ListenerAt == {"poll", "body", "reply"}

Kinds  == {"size", "reply", "cast", "chat"}
Chunks == [by : Threads, part : {"len", "body"}, kind : Kinds]
NoChunk == [by |-> NoOne, part |-> "body", kind |-> "none"]

\* A message a thread is sending: to one client, or to vec[i] for every i.
Nothing == [step |-> "none", all |-> FALSE, i |-> 0, to |-> NoOne, kind |-> "none"]
ToOne(c, k) == [step |-> "len", all |-> FALSE, i |-> 0, to |-> c, kind |-> k]
ToAll(k) == [step |-> "pick", all |-> TRUE, i |-> 1, to |-> NoOne, kind |-> k]

Writes == [step : {"none", "pick", "len", "body"}, all : BOOLEAN, i : Nat,
           to : Clients \cup {NoOne}, kind : Kinds \cup {"none"}]

MaxSent(c) == 2 * (MaxFrames[c] + (IF App = "chat" THEN 1 ELSE 0))

\* Every location has its type.
TypeOK ==
  /\ App \in Apps /\ TP!TypeOK
  /\ mReady \in BOOLEAN /\ running \in BOOLEAN /\ listening \in BOOLEAN
  /\ vec \in Seq(Clients) /\ changing \in {Main, Acceptor, NoOne}
  /\ mem \in [Clients -> {"none", "live", "deleted"}]
  /\ fd \in [Clients -> {"none", "open", "bad", "closed"}]
  /\ mError \in [Clients -> BOOLEAN]
  /\ peer \in [Clients -> {"idle", "open", "mute", "closed", "reset"}]
  /\ sent \in [Clients -> Nat] /\ got \in [Clients -> Nat]
  /\ \A c \in Clients : got[c] <= sent[c] /\ sent[c] <= MaxSent(c)
  /\ last \in [Clients -> Chunks \cup {NoChunk}]
  /\ at \in [Threads -> MainAt \cup AcceptorAt \cup ListenerAt]
  /\ writing \in [Threads -> Writes]
  /\ newcomer \in Clients \cup {NoOne}
  /\ idx \in Nat /\ doomed \in Seq(Clients) /\ casts \in 0..MaxCasts
  /\ fate \in {"up", "killed", "dangling", "garbage", "torn"}

Init ==
  /\ App \in Apps /\ TP!Init
  /\ mReady = FALSE /\ running = FALSE /\ listening = FALSE
  /\ vec = <<>> /\ changing = NoOne
  /\ mem = [c \in Clients |-> "none"]
  /\ fd = [c \in Clients |-> "none"]
  /\ mError = [c \in Clients |-> FALSE]
  /\ peer = [c \in Clients |-> "idle"]
  /\ sent = [c \in Clients |-> 0] /\ got = [c \in Clients |-> 0]
  /\ last = [c \in Clients |-> NoChunk]
  /\ at = [t \in Threads |-> IF t = Main THEN "reserve" ELSE "poll"]
  /\ writing = [t \in Threads |-> Nothing]
  /\ newcomer = NoOne /\ idx = 1 /\ doomed = <<>> /\ casts = 0
  /\ fate = "up"

\* Thread t is at position p and not inside a Send.
At(t, p) == at[t] = p /\ writing[t] = Nothing
\* Thread t goes on at p, sending message m first.
Goto(t, p, m) ==
  /\ at' = [at EXCEPT ![t] = p]
  /\ writing' = [writing EXCEPT ![t] = m]

-----------------------------------------------------------------------------
(* Send: TcpRegisteredClientInternal::Send and TcpServerInternal::Send.      *)

\* Socket::Send of one part.  A peer that has closed lets the kernel take the
\* data; one that has reset the connection makes send() fail, which nobody looks
\* at, or raise SIGPIPE: the flag MSG_NOSIGNAL is commented out.  A mute peer
\* does not read and its window is full: send() blocks.
SocketSend(t, c, part) ==
  \/ /\ fd[c] = "open" /\ peer[c] \in {"open", "closed"}
     /\ last' = [last EXCEPT ![c] = [by |-> t, part |-> part, kind |-> writing[t].kind]]
     /\ UNCHANGED fate
  \/ /\ fd[c] = "bad" \/ peer[c] = "reset"
     /\ UNCHANGED <<last, fate>>
  \/ /\ fd[c] = "open" /\ peer[c] = "reset"
     /\ fate' = "killed"
     /\ UNCHANGED last

SendLength(t) ==
  /\ writing[t].step = "len"
  /\ SocketSend(t, writing[t].to, "len")
  /\ writing' = [writing EXCEPT ![t].step = "body"]
  /\ UNCHANGED <<tasks, server, objects, peer, sent, got, at, newcomer, idx, doomed, casts>>

\* The body; then the next client of the vector, or the end of the call.  The
\* test of the result (TcpServerInternal.cpp:153-154) never succeeds.
SendBody(t) ==
  /\ writing[t].step = "body"
  /\ SocketSend(t, writing[t].to, "body")
  /\ writing' = [writing EXCEPT ![t] =
                   IF @.all THEN [@ EXCEPT !.step = "pick", !.i = writing[t].i + 1, !.to = NoOne]
                            ELSE Nothing]
  /\ UNCHANGED <<tasks, server, objects, peer, sent, got, at, newcomer, idx, doomed, casts>>

\* One turn of the loop over mRegisteredClients, whose size is read every time.
PickClient(t) ==
  /\ writing[t].step = "pick"
  /\ writing' = [writing EXCEPT ![t] =
       IF @.i <= Len(vec) THEN [@ EXCEPT !.step = "len", !.to = vec[writing[t].i]]
                          ELSE Nothing]
  /\ UNCHANGED <<tasks, server, objects, network, at, newcomer, idx, doomed, casts, fate>>

Send(t) == SendLength(t) \/ SendBody(t) \/ PickClient(t)
-----------------------------------------------------------------------------
(* Every task's loop: the steps of ThreadedProcess that touch nothing else.  *)

Loop(t) ==
  /\ TP!LoopTest(t) \/ TP!StopFunction(t) \/ (t \in Clients /\ TP!StartFunction(t))
  /\ UNCHANGED <<server, objects, network, control, fate>>

-----------------------------------------------------------------------------
(* The acceptor: TcpConnectionListener and TcpServerInternal::addClient.     *)

\* threadStartFunction: the thread goes on when listen() has failed.
AcceptorStarts ==
  /\ TP!StartFunction(Acceptor)
  /\ listening' \in BOOLEAN
  /\ UNCHANGED <<mReady, running, vec, changing, objects, network, control, fate>>

Pending(c) == mem[c] = "none" /\ peer[c] # "idle"

\* select() times out.  On a socket that does not listen it reports an event
\* every time, as long as the model has a connection left to stand for it.
NoConnection ==
  /\ pc[Acceptor] = "inner" /\ At(Acceptor, "poll")
  /\ \A c \in Clients : ~Pending(c) /\ (~listening => mem[c] # "none")
  /\ TP!InnerReturns(Acceptor)
  /\ UNCHANGED <<server, objects, network, control, fate>>

\* Mutated form of Accept: OnConnect forgets the size of the video.
AcceptWithoutSize(c) ==
  /\ pc[Acceptor] = "inner" /\ At(Acceptor, "poll") /\ listening /\ Pending(c)
  /\ fd' = [fd EXCEPT ![c] = "open"]
  /\ mem' = [mem EXCEPT ![c] = "live"]
  /\ newcomer' = c
  /\ Goto(Acceptor, "push", Nothing)
  /\ UNCHANGED <<tasks, server, mError, network, idx, doomed, casts, fate>>

\* accept(), whose failure is not looked at, the new object, and the beginning
\* of OnConnect.
Accept(c) ==
  /\ pc[Acceptor] = "inner" /\ At(Acceptor, "poll")
  /\ mem[c] = "none"
  /\ \/ /\ listening /\ Pending(c)
        /\ fd' = [fd EXCEPT ![c] = "open"]
     \/ /\ listening => \E d \in Clients : Pending(d)
        /\ peer[c] = "idle"
        /\ fd' = [fd EXCEPT ![c] = "bad"]
  /\ mem' = [mem EXCEPT ![c] = "live"]
  /\ newcomer' = c
  /\ IF App = "chat" THEN Goto(Acceptor, "hello", Nothing)
                     ELSE Goto(Acceptor, "push", ToOne(c, "size"))
  /\ UNCHANGED <<tasks, server, mError, network, idx, doomed, casts, fate>>

\* One part of the name in ChatServer::OnConnect, by the blocking
\* TcpRegisteredClientInternal::Receive: the end of the connection (0) is taken
\* for success, and after an error (-1) the announcement is made all the same.
ReceivePart(here, next) ==
  LET c == newcomer IN
  /\ At(Acceptor, here)
  /\ \/ /\ got[c] < sent[c]
        /\ got' = [got EXCEPT ![c] = @ + 1]
        /\ next
        /\ UNCHANGED mError
     \/ /\ got[c] = sent[c] /\ peer[c] \in {"closed", "reset"}
        /\ next
        /\ UNCHANGED <<got, mError>>
     \/ /\ got[c] = sent[c] /\ (fd[c] = "bad" \/ peer[c] = "reset")
        /\ mError' = [mError EXCEPT ![c] = TRUE]
        /\ Goto(Acceptor, "push", ToAll("chat"))
        /\ UNCHANGED got
  /\ UNCHANGED <<tasks, server, mem, fd, peer, sent, last, newcomer, idx, doomed, casts, fate>>

\* Mutated form of ReceiveName: OnConnect reads the length of the name only.
ReceiveNameLength == ReceivePart("hello", Goto(Acceptor, "push", ToAll("chat")))

ReceiveName ==
  \/ ReceivePart("hello", Goto(Acceptor, "name", Nothing))
  \/ ReceivePart("name", Goto(Acceptor, "push", ToAll("chat")))

\* mRegisteredClients.push_back(client).
PushBegins ==
  /\ At(Acceptor, "push")
  /\ changing' = Acceptor
  /\ Goto(Acceptor, "pushing", Nothing)
  /\ UNCHANGED <<tasks, mReady, running, listening, vec, objects, network,
                 newcomer, idx, doomed, casts, fate>>

PushEnds ==
  /\ At(Acceptor, "pushing")
  /\ vec' = Append(vec, newcomer)
  /\ changing' = NoOne
  /\ Goto(Acceptor, IF NoClientThread THEN "return" ELSE "listen", Nothing)
  /\ UNCHANGED <<tasks, mReady, running, listening, objects, network,
                 newcomer, idx, doomed, casts, fate>>

\* Mutated form of StartListener: the size is sent when the listener runs.
StartListenerThenSize ==
  /\ \/ /\ At(Acceptor, "listen") /\ TP!New(newcomer)
        /\ Goto(Acceptor, "create", Nothing)
     \/ /\ At(Acceptor, "create") /\ TP!Create(newcomer)
        /\ Goto(Acceptor, "created", Nothing)
     \/ /\ At(Acceptor, "created") /\ TP!SetRunning(newcomer)
        /\ Goto(Acceptor, "return", ToOne(newcomer, "size"))
  /\ UNCHANGED <<server, objects, network, newcomer, idx, doomed, casts, fate>>

\* client->Internal()->Start(): new TcpClientListener, then its start().
StartListener ==
  /\ \/ /\ At(Acceptor, "listen") /\ TP!New(newcomer)
        /\ Goto(Acceptor, "create", Nothing)
     \/ /\ At(Acceptor, "create") /\ TP!Create(newcomer)
        /\ Goto(Acceptor, "created", Nothing)
     \/ /\ At(Acceptor, "create") /\ TP!CreateFails(newcomer)
        /\ Goto(Acceptor, "return", Nothing)
     \/ /\ At(Acceptor, "created") /\ TP!SetRunning(newcomer)
        /\ Goto(Acceptor, "return", Nothing)
  /\ UNCHANGED <<server, objects, network, newcomer, idx, doomed, casts, fate>>

AcceptorReturns ==
  /\ At(Acceptor, "return") /\ TP!InnerReturns(Acceptor)
  /\ Goto(Acceptor, "poll", Nothing)
  /\ newcomer' = NoOne
  /\ UNCHANGED <<server, objects, network, idx, doomed, casts, fate>>

AcceptorStep ==
  \/ Loop(Acceptor) \/ AcceptorStarts \/ NoConnection
  \/ \E c \in Clients : Accept(c)
  \/ ReceiveName \/ PushBegins \/ PushEnds \/ StartListener \/ AcceptorReturns
  \/ Send(Acceptor)

-----------------------------------------------------------------------------
(* A listener: TcpClientListener::threadInnerFunction.                       *)

\* The connection has ended and everything before its end has been read.
AtEnd(c) == got[c] = sent[c] /\ (fd[c] = "bad" \/ peer[c] \in {"closed", "reset"})

ListenerIn(c, p) == pc[c] = "inner" /\ At(c, p)

\* select() times out.
NoData(c) ==
  /\ ListenerIn(c, "poll") /\ got[c] = sent[c] /\ ~AtEnd(c)
  /\ TP!InnerReturns(c)
  /\ UNCHANGED <<server, objects, network, control, fate>>

\* Mutated form of ReceiveLength: the listener does not wait for data.
ReceiveLengthBlindly(c) ==
  /\ ListenerIn(c, "poll")
  /\ got' = [got EXCEPT ![c] = @ + 1]
  /\ Goto(c, "body", Nothing)
  /\ UNCHANGED <<tasks, server, objects, peer, sent, last, newcomer, idx, doomed, casts, fate>>

ReceiveLength(c) ==
  /\ ListenerIn(c, "poll") /\ got[c] < sent[c]
  /\ got' = [got EXCEPT ![c] = @ + 1]
  /\ Goto(c, "body", Nothing)
  /\ UNCHANGED <<tasks, server, objects, peer, sent, last, newcomer, idx, doomed, casts, fate>>

\* The body, then OnReceive: VideoServer answers the value 1 with a frame and
\* ignores the others, ChatServer passes the message on to everybody.
ReceiveBody(c) ==
  /\ ListenerIn(c, "body") /\ got[c] < sent[c]
  /\ got' = [got EXCEPT ![c] = @ + 1]
  /\ IF App = "chat" THEN Goto(c, "reply", ToAll("chat"))
     ELSE \E m \in {Nothing, ToOne(c, "reply")} : Goto(c, "reply", m)
  /\ UNCHANGED <<tasks, server, objects, peer, sent, last, newcomer, idx, doomed, casts, fate>>

OnReceiveReturns(c) ==
  /\ ListenerIn(c, "reply")
  /\ TP!InnerReturns(c)
  /\ Goto(c, "poll", Nothing)
  /\ UNCHANGED <<server, objects, network, newcomer, idx, doomed, casts, fate>>

\* A receive returns 0 or less: Disconnected(), and the thread leaves its loop.
ListenerFails(c) ==
  /\ ListenerIn(c, "poll") \/ ListenerIn(c, "body")
  /\ AtEnd(c)
  /\ mError' = [mError EXCEPT ![c] = TRUE]
  /\ TP!InnerFails(c)
  /\ Goto(c, "poll", Nothing)
  /\ UNCHANGED <<server, mem, fd, network, newcomer, idx, doomed, casts, fate>>

ListenerStep(c) ==
  \/ Loop(c) \/ NoData(c) \/ ReceiveLength(c) \/ ReceiveBody(c)
  \/ OnReceiveReturns(c) \/ ListenerFails(c) \/ Send(c)
-----------------------------------------------------------------------------
(* Main: Reserve and Start, the application's loop, Stop and Release.        *)

MainGoes(p) == Goto(Main, p, Nothing)

\* Reserve() succeeds or fails (the port is taken); nobody looks at the result.
Reserve ==
  /\ At(Main, "reserve") /\ mReady' \in BOOLEAN /\ MainGoes("start")
  /\ UNCHANGED <<tasks, running, listening, vec, changing, objects, network,
                 newcomer, idx, doomed, casts, fate>>

\* Start(): refused without mReady; else the accept task is made and started,
\* and mRunning set whatever its start() does.
Start ==
  /\ \/ At(Main, "start") /\ ~mReady /\ MainGoes("loop") /\ UNCHANGED <<tasks, running>>
     \/ At(Main, "start") /\ mReady /\ TP!New(Acceptor) /\ MainGoes("create") /\ UNCHANGED running
     \/ At(Main, "create") /\ TP!Create(Acceptor) /\ MainGoes("created") /\ UNCHANGED running
     \/ At(Main, "create") /\ TP!CreateFails(Acceptor) /\ MainGoes("loop") /\ running' = TRUE
     \/ At(Main, "created") /\ TP!SetRunning(Acceptor) /\ MainGoes("loop") /\ running' = TRUE
  /\ UNCHANGED <<mReady, listening, vec, changing, objects, network,
                 newcomer, idx, doomed, casts, fate>>

\* The capture thread sends a frame to all (video-server.cpp:124).
Cast ==
  /\ App = "bcast" /\ At(Main, "loop") /\ casts < MaxCasts
  /\ casts' = casts + 1
  /\ Goto(Main, "loop", ToAll("cast"))
  /\ UNCHANGED <<tasks, server, objects, network, newcomer, idx, doomed, fate>>

\* The capture thread is asked to stop (for "chat" see UpdateReturns).
Quit ==
  /\ App # "chat" /\ At(Main, "loop") /\ MainGoes("stop")
  /\ UNCHANGED <<tasks, server, objects, network, newcomer, idx, doomed, casts, fate>>

\* Update(), which only ChatServer's main calls: the first loop gathers the
\* clients whose mError is set ...
Scan ==
  /\ App = "chat"
  /\ \/ At(Main, "loop") /\ MainGoes("scan") /\ idx' = 1 /\ UNCHANGED doomed
     \/ /\ At(Main, "scan") /\ idx <= Len(vec)
        /\ doomed' = IF mError[vec[idx]] THEN Append(doomed, vec[idx]) ELSE doomed
        /\ idx' = idx + 1
        /\ UNCHANGED <<at, writing>>
     \/ At(Main, "scan") /\ idx > Len(vec) /\ MainGoes("erase") /\ idx' = 1 /\ UNCHANGED doomed
  /\ UNCHANGED <<tasks, server, objects, network, newcomer, casts, fate>>

\* ... the second erases them from the vector ...
EraseBegins ==
  /\ At(Main, "erase") /\ idx <= Len(doomed)
  /\ changing' = Main /\ MainGoes("erasing")
  /\ UNCHANGED <<tasks, mReady, running, listening, vec, objects, network,
                 newcomer, idx, doomed, casts, fate>>

\* Mutated form of EraseEnds: the vector is filtered by mError again, which a
\* listener may have set since the scan.
EraseEndsByError ==
  /\ At(Main, "erasing")
  /\ vec' = SelectSeq(vec, LAMBDA c : ~mError[c])
  /\ idx' = idx + 1
  /\ changing' = NoOne /\ MainGoes("erase")
  /\ UNCHANGED <<tasks, mReady, running, listening, objects, network,
                 newcomer, doomed, casts, fate>>

\* erase(find(...)): the first occurrence goes, what follows it moves up.
EraseEnds ==
  /\ At(Main, "erasing")
  /\ \E k \in 1..Len(vec) :
       /\ vec[k] = doomed[idx] /\ \A j \in 1..(k - 1) : vec[j] # doomed[idx]
       /\ vec' = [i \in 1..(Len(vec) - 1) |-> vec[IF i < k THEN i ELSE i + 1]]
  /\ idx' = idx + 1
  /\ changing' = NoOne /\ MainGoes("erase")
  /\ UNCHANGED <<tasks, mReady, running, listening, objects, network,
                 newcomer, doomed, casts, fate>>

\* Mutated form of Announce: the second loop ends one client early.
AnnounceEarly ==
  /\ \/ At(Main, "erase") /\ idx >= Len(doomed) /\ MainGoes("announce")
     \/ At(Main, "announce") /\ doomed # <<>> /\ Goto(Main, "drop", ToAll("chat"))
  /\ UNCHANGED <<tasks, server, objects, network, newcomer, idx, doomed, casts, fate>>

\* ... and the third announces, stops and deletes each of them.
Announce ==
  /\ \/ At(Main, "erase") /\ idx > Len(doomed) /\ MainGoes("announce")
     \/ At(Main, "announce") /\ doomed # <<>> /\ Goto(Main, "drop", ToAll("chat"))
  /\ UNCHANGED <<tasks, server, objects, network, newcomer, idx, doomed, casts, fate>>

\* The loop of main again, or its end.
UpdateReturns ==
  /\ At(Main, "announce") /\ doomed = <<>>
  /\ MainGoes("loop") \/ MainGoes("stop")
  /\ UNCHANGED <<tasks, server, objects, network, newcomer, idx, doomed, casts, fate>>

\* Mutated form of StopListener: the listener is joined without being told.
JoinListenerOnly ==
  /\ \E p \in {<<"drop", "dropping">>, <<"release", "releasing">>} :
       LET c == Head(doomed) IN
       \/ /\ At(Main, p[1]) /\ doomed # <<>> /\ ~NoClientThread /\ mRunning[c]
          /\ call' = [call EXCEPT ![c] = "stopping"]
          /\ UNCHANGED <<mRunning, pc>>
          /\ MainGoes(p[2])
       \/ /\ At(Main, p[2])
          /\ TP!Join(c)
          /\ MainGoes(p[1])
  /\ UNCHANGED <<server, objects, network, newcomer, idx, doomed, casts, fate>>

\* TcpRegisteredClientInternal::Stop() of the first client to go, from Update
\* and from Release: its listener is asked to stop and joined ...
StopListener ==
  /\ \E p \in {<<"drop", "dropping">>, <<"release", "releasing">>} :
       LET c == Head(doomed) IN
       \/ /\ At(Main, p[1]) /\ doomed # <<>> /\ ~NoClientThread
          /\ TP!ClearRunning(c)
          /\ MainGoes(p[2])
       \/ /\ At(Main, p[2])
          /\ TP!Join(c)
          /\ MainGoes(p[1])
  /\ UNCHANGED <<server, objects, network, newcomer, idx, doomed, casts, fate>>

\* Mutated form of DeleteClient: the client is deleted without Stop().
DeleteClientRunning ==
  LET c == Head(doomed) IN
  /\ At(Main, "drop") \/ At(Main, "release")
  /\ doomed # <<>>
  /\ call' = IF NoClientThread THEN call ELSE [call EXCEPT ![c] = "deleted"]
  /\ fd' = [fd EXCEPT ![c] = "closed"]
  /\ mem' = [mem EXCEPT ![c] = "deleted"]
  /\ doomed' = Tail(doomed)
  /\ MainGoes(IF at[Main] = "drop" THEN "announce" ELSE "release")
  /\ UNCHANGED <<mRunning, pc, server, mError, network, newcomer, idx, casts, fate>>

\* ... unless its flag says it is not running; then the task is deleted, the
\* socket closed and the client deleted.
DeleteClient ==
  LET c == Head(doomed) IN
  /\ At(Main, "drop") \/ At(Main, "release")
  /\ doomed # <<>> /\ ~mRunning[c]
  /\ call' = IF NoClientThread THEN call ELSE [call EXCEPT ![c] = "deleted"]
  /\ fd' = [fd EXCEPT ![c] = "closed"]
  /\ mem' = [mem EXCEPT ![c] = "deleted"]
  /\ doomed' = Tail(doomed)
  /\ MainGoes(IF at[Main] = "drop" THEN "announce" ELSE "release")
  /\ UNCHANGED <<mRunning, pc, server, mError, network, newcomer, idx, casts, fate>>

\* Stop(): the accept task is stopped and deleted.
Stop ==
  /\ \/ /\ At(Main, "stop") /\ running /\ TP!ClearRunning(Acceptor)
        /\ MainGoes("join")
        /\ UNCHANGED <<running, doomed>>
     \/ /\ At(Main, "join") /\ TP!Join(Acceptor)
        /\ MainGoes("stop")
        /\ UNCHANGED <<running, doomed>>
     \/ /\ At(Main, "stop") /\ running /\ TP!Delete(Acceptor)
        /\ running' = FALSE
        /\ MainGoes("release") /\ doomed' = vec
     \/ /\ At(Main, "stop") /\ ~running
        /\ MainGoes("release") /\ doomed' = vec
        /\ UNCHANGED <<tasks, running>>
  /\ UNCHANGED <<mReady, listening, vec, changing, objects, network,
                 newcomer, idx, casts, fate>>

\* Mutated form of ReleaseReturns: the loop is left too early.
ReleaseReturnsEarly ==
  /\ At(Main, "release")
  /\ vec' = <<>> /\ listening' = FALSE
  /\ MainGoes("done")
  /\ UNCHANGED <<tasks, mReady, running, changing, objects, network,
                 newcomer, idx, doomed, casts, fate>>

\* Release() after its loop over the clients.
ReleaseReturns ==
  /\ At(Main, "release") /\ doomed = <<>>
  /\ vec' = <<>> /\ listening' = FALSE
  /\ MainGoes("done")
  /\ UNCHANGED <<tasks, mReady, running, changing, objects, network,
                 newcomer, idx, doomed, casts, fate>>

MainStep ==
  \/ Reserve \/ Start \/ Scan \/ EraseBegins \/ EraseEnds \/ Announce \/ UpdateReturns
  \/ StopListener \/ DeleteClient \/ Stop \/ ReleaseReturns \/ Send(Main)

-----------------------------------------------------------------------------
(* Undefined behaviour ends the run: what follows is no longer the code's.   *)

\* Thread t reads the vector next; or changes it.
ReadsVector(t) == writing[t].step = "pick" \/ (t = Main /\ At(t, "scan"))
ChangesVector(t) ==
  \/ t = Acceptor /\ At(t, "push")
  \/ t = Main /\ At(t, "erase") /\ idx <= Len(doomed)

\* Thread t uses next a client or a task that Main has deleted.
Dangling(t) ==
  \/ writing[t].step \in {"len", "body"} /\ mem[writing[t].to] = "deleted"
  \/ t \in Clients /\ call[t] = "deleted" /\ pc[t] \notin {"none", "exited"}
  \/ t = Acceptor /\ at[t] \in {"pushing", "listen", "create", "created"} /\ mem[newcomer] = "deleted"

\* Mutated form of Garbage: Stop() does not look at mNoThread.
GarbageWithoutThreads(t) ==
  /\ t = Main /\ (At(t, "drop") \/ At(t, "release"))
  /\ doomed # <<>> /\ call[Head(doomed)] = "absent"

\* Main calls stop() through an mListenerTask that was never written.
Garbage(t) ==
  /\ t = Main /\ (At(t, "drop") \/ At(t, "release"))
  /\ doomed # <<>> /\ ~NoClientThread /\ call[Head(doomed)] = "absent"

\* Thread t uses the vector while another changes it.
Torn(t) == (ReadsVector(t) \/ ChangesVector(t)) /\ changing \notin {NoOne, t}

Misstep(t) ==
  /\ \/ Dangling(t) /\ fate' = "dangling"
     \/ Garbage(t) /\ fate' = "garbage"
     \/ Torn(t) /\ fate' = "torn"
  /\ UNCHANGED <<tasks, server, objects, network, control>>

\* A torn read may also find the vector as it was; nothing else is defined.
Defined(t) == ~Dangling(t) /\ ~Garbage(t) /\ (Torn(t) => ReadsVector(t))

-----------------------------------------------------------------------------
(* The peers, which may also stop reading and writing for ever.              *)

Connect(c) ==
  /\ peer[c] = "idle" /\ mem[c] = "none" /\ listening
  /\ peer' = [peer EXCEPT ![c] = "open"]
  /\ UNCHANGED <<tasks, server, objects, sent, got, last, control, fate>>

PeerSends(c) ==
  /\ App # "bcast" /\ peer[c] = "open" /\ sent[c] < MaxSent(c)
  /\ sent' = [sent EXCEPT ![c] = @ + 2]
  /\ UNCHANGED <<tasks, server, objects, peer, got, last, control, fate>>

\* A peer may leave between the two parts of a message.
PeerLeaves(c) ==
  /\ \E how \in Departures[c] : peer' = [peer EXCEPT ![c] = how]
  /\ \/ peer[c] = "open" /\ sent' = sent
     \/ /\ App # "bcast" /\ peer[c] = "open" /\ sent[c] < MaxSent(c)
        /\ sent' = [sent EXCEPT ![c] = @ + 1]
     \/ peer[c] = "closed" /\ peer'[c] = "reset" /\ sent' = sent
  /\ UNCHANGED <<tasks, server, objects, got, last, control, fate>>

PeerStep(c) == Connect(c) \/ PeerSends(c) \/ PeerLeaves(c)

-----------------------------------------------------------------------------
Progress(t) ==
  /\ fate = "up" /\ Defined(t) /\ UNCHANGED App
  /\ \/ t = Main /\ MainStep
     \/ t = Acceptor /\ AcceptorStep
     \/ t \in Clients /\ ListenerStep(t)

Next ==
  \/ \E t \in Threads : Progress(t)
  \/ fate = "up" /\ (Cast \/ Quit) /\ UNCHANGED App
  \/ fate = "up" /\ \E t \in Threads : Misstep(t) /\ UNCHANGED App
  \/ fate = "up" /\ \E c \in Clients : PeerStep(c) /\ UNCHANGED App

\* The process has ended, or a mute peer may hold every thread in a send or receive.
Terminated ==
  /\ fate # "up" \/ at[Main] = "done" \/ \E c \in Clients : peer[c] = "mute"
  /\ UNCHANGED vars

Spec == Init /\ [][Next \/ Terminated]_vars

(* Every thread of the process is scheduled.  Nothing obliges Main to quit,  *)
(* nor a peer to do anything.                                                *)
Fairness == \A t \in Threads : WF_vars(Progress(t))

FairSpec == Spec /\ Fairness
-----------------------------------------------------------------------------
(* Properties.                                                               *)

\* The server keeps to the protocol of ThreadedProcess with every task it owns,
\* although one thread starts a listener and another stops it: start(), stop()
\* and delete follow one another and do not overlap.  (Not under "chat".)
TaskProtocol == TP!Spec

\* No thread uses a deleted object or a pointer that was never written.
NoDeadObject == fate \notin {"dangling", "garbage"}

\* No thread uses a deleted object, an uninitialised pointer, or the vector while
\* another changes it.  (VideoServer: Update is commented out, so only the
\* acceptor touches the vector until Stop() has joined it.  Under "bcast" the vector
\* is raced for: Main sends to all while the acceptor pushes back.)
NoUndefinedBehaviour == NoDeadObject /\ (fate = "torn" => App = "bcast")

\* On every connection a length is followed by the body it announces, sent by the
\* same thread: nothing serialises two senders but the order of OnConnect,
\* push_back and Start in addClient.
FramesIntact ==
  [][\A c \in Clients : last'[c] # last[c] =>
       IF last[c].part = "body" THEN last'[c].part = "len"
                                ELSE last'[c] = [last[c] EXCEPT !.part = "body"]]_vars

\* The clients read the size of the video before any frame
\* (video-client.cpp:66-67, video-client-bcast.cpp:92-93).
SizeFirst ==
  [][\A c \in Clients : last[c] = NoChunk /\ last'[c] # NoChunk => last'[c].kind = "size"]_vars

\* Every client object is held by addClient, the vector or toRemove: none leaks
\* when Update moves it from the second to the third.
NoLostClient ==
  \A c \in Clients : mem[c] = "live" =>
    \/ c \in Range(vec) \/ c \in Range(doomed)
    \/ c = newcomer /\ at[Acceptor] \in {"hello", "name", "push", "pushing"}

\* The listener reads a length where the peer has sent a length, although the
\* acceptor reads the first message of the same connection.
InStep == \A c \in Clients : ListenerIn(c, "poll") /\ got[c] < sent[c] => got[c] % 2 = 0

\* A client in the vector is not deleted (before Release): a thread that sends to
\* all can meet a deleted client only if it held it when Update erased it.
VectorLive ==
  at[Main] \notin {"release", "releasing"} => \A c \in Range(vec) : mem[c] = "live"

\* When Release() has returned no thread, task, client or connection is left.
AllReleased ==
  at[Main] = "done" =>
    /\ \A t \in Tasks : call[t] \in {"absent", "deleted"} /\ pc[t] \in {"none", "exited"}
    /\ \A c \in Clients : mem[c] # "live" /\ fd[c] # "open"

\* Stop() and Release() return, whatever the connections are in the middle of,
\* unless a peer stops in the middle of a message or does not read.
StopCompletes ==
  at[Main] = "stop" ~> \/ at[Main] = "done" \/ fate # "up"
                       \/ \E c \in Clients : peer[c] = "mute"
=============================================================================
