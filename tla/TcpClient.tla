------------------------------ MODULE TcpClient ------------------------------
(***************************************************************************)
(* TcpClientInternal.cpp and TcpServerListener.cpp: the TCP client, in the  *)
(* programs built on it.  Main is the thread of the program, Listener that  *)
(* of the TcpServerListener task (none under "video", which passes          *)
(* noThread = true).  Nothing is locked: a step is one access to what the   *)
(* two share - mSocket, mConnected, the task, the socket, and in            *)
(* video-client-bcast.cpp the frame and its two flags.                      *)
(*                                                                         *)
(* A message is its two parts, the length and the body, and a number: 0 is  *)
(* the size of the video, the others are frames, or lines of the chat.      *)
(***************************************************************************)
EXTENDS Naturals, Sequences

CONSTANTS
  Main, Listener,
  Apps,        \* the programs considered, see App
  MaxFrames,   \* bound: frames broadcast under "bcast"
  MaxWire      \* bound: messages on their way

ASSUME ThreadsAssumption == Main # Listener
ASSUME AppsAssumption == Apps \subseteq {"chat", "video", "bcast"}
ASSUME BoundsAssumption == MaxFrames \in Nat \ {0} /\ MaxWire \in Nat

Tasks   == {Listener}
Threads == {Main, Listener}

VARIABLES
  App,           \* "chat" (chat-client.cpp), "video" (video-client.cpp), "bcast" (video-client-bcast.cpp)
  mRunning, pc, call, \* the task, see ThreadedProcess
  mSocket,       \* TcpClientInternal::mSocket holds the descriptor
  mConnected,    \* TcpClientInternal::mConnected
  open,          \* the descriptor is open
  up, down,      \* OnConnected, OnDisconnected has been called
  peer, wire,    \* the server; the parts sent and not yet received
  asked, cast,   \* a request that the server has not answered; the frames it has broadcast
  at, back,      \* each thread's position, and where it goes on after disconnected()
  message,       \* the number of the message that Listener has received
  canvas,        \* mCurrentFrame has memory
  frame, shown,  \* the frame in it, the one last shown
  dataReceived, processingData, \* the flags of video-client-bcast.cpp
  fate           \* "up", or how the process ended: killed by SIGPIPE, an exception of
                 \* imshow, or undefined behaviour

tasks   == <<mRunning, pc, call>>
client  == <<mSocket, mConnected, open, up, down>>
network == <<peer, wire, asked, cast>>
picture == <<message, canvas, frame, shown, dataReceived, processingData>>
vars    == <<App, tasks, client, network, at, back, picture, fate>>

NoThread == App = "video"

TP == INSTANCE ThreadedProcess

-----------------------------------------------------------------------------
(* Types and initial state.                                                  *)

Ending == {"test", "stop", "join", "delete", "close", "clear", "tell"}

MainAt ==
  {"connect", "new", "start", "created", "socket", "flag", "hello", "offline", "done",
   "sendLength", "sendBody", "sizeLength", "sizeBody", "allocate", "loop",
   "frameLength", "frameBody", "await", "taken", "process", "show", "shown"} \cup Ending
ListenerAt == {"poll", "length", "body", "fail", "wait", "copy", "copying", "signal"} \cup Ending

Frames == 0..MaxFrames
Torn   == MaxFrames + 1 \* a frame that is being copied

\* Every location has its type.
TypeOK ==
  /\ App \in Apps /\ TP!TypeOK
  /\ mSocket \in BOOLEAN /\ mConnected \in BOOLEAN /\ open \in BOOLEAN
  /\ up \in BOOLEAN /\ down \in BOOLEAN
  /\ peer \in {"none", "greeting", "open", "mute", "closed", "resetting", "reset"}
  /\ wire \in Seq([part : {"length", "body"}, n : Frames]) /\ Len(wire) <= 2 * MaxWire
  /\ asked \in BOOLEAN /\ cast \in Frames
  /\ at \in [Threads -> MainAt \cup ListenerAt]
  /\ at[Main] \in MainAt /\ at[Listener] \in ListenerAt
  /\ back \in [Threads -> MainAt \cup {"fail"}]
  /\ message \in Frames /\ canvas \in BOOLEAN
  /\ frame \in Frames \cup {Torn} /\ shown \in Frames \cup {Torn}
  /\ dataReceived \in BOOLEAN /\ processingData \in BOOLEAN
  /\ fate \in {"up", "killed", "aborted", "dangling", "garbage"}

Init ==
  /\ App \in Apps /\ TP!Init
  /\ mSocket = FALSE /\ mConnected = FALSE /\ open = FALSE
  /\ up = FALSE /\ down = FALSE
  /\ peer = "none" /\ wire = <<>> /\ asked = FALSE /\ cast = 0
  /\ at = [t \in Threads |-> IF t = Main THEN "connect" ELSE "poll"]
  /\ back = [t \in Threads |-> IF t = Main THEN "done" ELSE "fail"]
  /\ message = 0 /\ canvas = FALSE /\ frame = 0 /\ shown = 0
  /\ dataReceived = FALSE /\ processingData = FALSE
  /\ fate = "up"

At(t, p) == at[t] = p /\ (t = Listener => pc[Listener] = "inner")

Goes(t, p) == at' = [at EXCEPT ![t] = p] /\ UNCHANGED back

\* t calls disconnected(), or Disconnect(), and goes on at p.
Calls(t, p) == at' = [at EXCEPT ![t] = "test"] /\ back' = [back EXCEPT ![t] = p]

-----------------------------------------------------------------------------
(* The socket.                                                               *)

Gone == peer \in {"closed", "resetting", "reset"}

\* recv() has something to return, or the connection has ended.
Holds(part) == wire # <<>> /\ Head(wire).part = part
AtEnd == wire = <<>> /\ Gone

\* send(): what a closed server receives it answers with a reset, after which
\* send() fails or kills the process.
Sends == peer # "reset" /\ peer' = IF peer = "closed" THEN "resetting" ELSE peer
SendFails == peer = "reset" /\ UNCHANGED peer

-----------------------------------------------------------------------------
(* Connect.                                                                  *)

\* socket() and connect(); after a failure, which no program looks at, every call
\* returns at once.
Connect ==
  /\ At(Main, "connect")
  /\ \/ Goes(Main, "offline") /\ UNCHANGED <<peer, open>>
     \/ /\ Goes(Main, IF NoThread THEN "socket" ELSE "new")
        /\ peer' = IF App = "chat" THEN "open" ELSE "greeting"
        /\ open' = TRUE
  /\ UNCHANGED <<tasks, mSocket, mConnected, up, down, wire, asked, cast, picture, fate>>

\* The listener is created and started ...
StartListener ==
  /\ \/ At(Main, "new") /\ TP!New(Listener) /\ Goes(Main, "start")
     \/ At(Main, "start") /\ TP!Create(Listener) /\ Goes(Main, "created")
     \/ At(Main, "start") /\ TP!CreateFails(Listener) /\ Goes(Main, "socket")
     \/ At(Main, "created") /\ TP!SetRunning(Listener) /\ Goes(Main, "socket")
  /\ UNCHANGED <<client, network, picture, fate>>

\* ... before it has a socket and is connected.  Then each program begins.
Connected ==
  /\ \/ At(Main, "socket") /\ mSocket' = TRUE /\ Goes(Main, "flag") /\ UNCHANGED <<mConnected, up>>
     \/ At(Main, "flag") /\ mConnected' = TRUE /\ Goes(Main, "hello") /\ UNCHANGED <<mSocket, up>>
     \/ /\ At(Main, "hello") /\ up' = TRUE
        /\ Goes(Main, IF App = "chat" THEN "sendLength" ELSE "sizeLength")
        /\ UNCHANGED <<mSocket, mConnected>>
  /\ UNCHANGED <<tasks, open, down, network, picture, fate>>

-----------------------------------------------------------------------------
(* disconnected() and Disconnect().                                          *)

\* Mutated form of Test: it is not asked whether the client is connected.
TestForgotten(t) ==
  /\ At(t, "test")
  /\ Goes(t, IF NoThread THEN "clear" ELSE "stop")
  /\ UNCHANGED <<tasks, client, network, picture, fate>>

\* Only Disconnect closes the socket.
Test(t) ==
  /\ At(t, "test")
  /\ \/ ~mConnected /\ Goes(t, back[t])
     \/ mConnected /\ ~NoThread /\ Goes(t, "stop")
     \/ mConnected /\ NoThread /\ Goes(t, IF back[t] = "done" THEN "close" ELSE "clear")
  /\ UNCHANGED <<tasks, client, network, picture, fate>>

\* Mutated forms of StopListener: the listener is joined without being told; it is
\* not joined.
JoinListenerOnly(t) ==
  /\ \/ /\ t = Main /\ At(t, "stop") /\ mRunning[Listener] /\ Goes(t, "join")
        /\ call' = [call EXCEPT ![Listener] = "stopping"]
        /\ UNCHANGED <<mRunning, pc>>
     \/ t = Main /\ At(t, "join") /\ TP!Join(Listener) /\ Goes(t, "delete")
     \/ /\ At(t, "stop") /\ (t = Main => ~mRunning[Listener])
        /\ Goes(t, "delete") /\ UNCHANGED tasks
  /\ UNCHANGED <<client, network, picture, fate>>

StopUnjoined(t) ==
  /\ At(t, "stop") /\ Goes(t, "delete")
  /\ mRunning' = [mRunning EXCEPT ![Listener] = FALSE]
  /\ UNCHANGED <<pc, call, client, network, picture, fate>>

\* mServerListenerTask->stop(): Main joins the listener, if the flag is set, while
\* the listener's join of itself returns at once.
StopListener(t) ==
  /\ \/ At(t, "stop") /\ ~mRunning[Listener] /\ Goes(t, "delete") /\ UNCHANGED tasks
     \/ t = Main /\ At(t, "stop") /\ TP!ClearRunning(Listener) /\ Goes(t, "join")
     \/ t = Main /\ At(t, "join") /\ TP!Join(Listener) /\ Goes(t, "delete")
     \/ /\ t = Listener /\ At(t, "stop") /\ mRunning[Listener] /\ Goes(t, "delete")
        /\ mRunning' = [mRunning EXCEPT ![Listener] = FALSE]
        /\ UNCHANGED <<pc, call>>
  /\ UNCHANGED <<client, network, picture, fate>>

DeleteListener(t) ==
  /\ At(t, "delete")
  /\ call' = [call EXCEPT ![Listener] = "deleted"]
  /\ Goes(t, IF back[t] = "done" THEN "close" ELSE "clear")
  /\ UNCHANGED <<mRunning, pc, client, network, picture, fate>>

\* The rest of both.
Finish(t) ==
  /\ \/ At(t, "close") /\ open' = FALSE /\ Goes(t, "clear") /\ UNCHANGED <<mConnected, down>>
     \/ At(t, "clear") /\ mConnected' = FALSE /\ Goes(t, "tell") /\ UNCHANGED <<open, down>>
     \/ At(t, "tell") /\ down' = TRUE /\ Goes(t, back[t]) /\ UNCHANGED <<open, mConnected>>
  /\ UNCHANGED <<tasks, mSocket, up, network, picture, fate>>

Disconnects(t) == Test(t) \/ StopListener(t) \/ DeleteListener(t) \/ Finish(t)

-----------------------------------------------------------------------------
(* Send and Receive, which the programs call in main.                        *)

AfterSend == IF App = "chat" THEN "loop" ELSE "frameLength"

\* Unless the client is not connected; the body is sent even when the length could not be.
Send ==
  /\ \E p \in {<<"sendLength", "sendBody">>, <<"sendBody", AfterSend>>} :
       /\ At(Main, p[1])
       /\ \/ p[1] = "sendLength" /\ ~mConnected /\ Goes(Main, AfterSend)
             /\ UNCHANGED <<peer, asked, fate>>
          \/ /\ p[1] = "sendBody" \/ mConnected
             /\ \/ /\ Sends /\ Goes(Main, p[2])
                   /\ asked' = (asked \/ (App = "video" /\ p[1] = "sendBody"))
                   /\ UNCHANGED fate
                \/ SendFails /\ Calls(Main, p[2]) /\ UNCHANGED <<asked, fate>>
                \/ SendFails /\ Goes(Main, p[2]) /\ fate' = "killed" /\ UNCHANGED asked
  /\ UNCHANGED <<tasks, client, wire, cast, picture>>

\* Receive of the size, or of a frame: of its length ...
ReceiveLength ==
  /\ \E p \in {<<"sizeLength", "sizeBody", "loop">>, <<"frameLength", "frameBody", "show">>} :
       /\ At(Main, p[1])
       /\ \/ Holds("length") /\ wire' = Tail(wire) /\ Goes(Main, p[2])
          \/ AtEnd /\ Goes(Main, p[2]) /\ UNCHANGED wire
          \/ AtEnd /\ peer = "reset" /\ Calls(Main, p[3]) /\ UNCHANGED wire
  /\ UNCHANGED <<tasks, client, peer, asked, cast, picture, fate>>

\* ... and of its body.  The end of the connection is not noticed; the programs look
\* at nothing but the length, which says whether it was the size.
ReceiveBody ==
  /\ \E p \in {<<"sizeBody", "allocate", "loop">>, <<"frameBody", "show", "show">>} :
       /\ At(Main, p[1])
       /\ \/ /\ Holds("body") /\ wire' = Tail(wire) /\ Goes(Main, p[2])
             /\ frame' = IF p[1] = "frameBody" THEN Head(wire).n ELSE frame
          \/ AtEnd /\ Goes(Main, p[3]) /\ UNCHANGED <<wire, frame>>
          \/ AtEnd /\ peer = "reset" /\ Calls(Main, p[3]) /\ UNCHANGED <<wire, frame>>
  /\ UNCHANGED <<tasks, client, peer, asked, cast, message, canvas, shown, dataReceived,
                 processingData, fate>>

-----------------------------------------------------------------------------
(* The programs.                                                             *)

\* mCurrentFrame gets the size received.
Allocate ==
  /\ At(Main, "allocate") /\ canvas' = TRUE /\ Goes(Main, "loop")
  /\ UNCHANGED <<tasks, client, network, message, frame, shown, dataReceived, processingData, fate>>

Continue == IF App = "video" THEN "sendLength" ELSE "await"

\* while(client.Connected()).
Loop ==
  /\ At(Main, "loop")
  /\ \/ ~mConnected /\ Calls(Main, "done")
     \/ mConnected /\ App # "chat" /\ Goes(Main, Continue)
  /\ UNCHANGED <<tasks, client, network, picture, fate>>

\* The user of the chat has typed a line; or "quit".
UserTypes ==
  /\ App = "chat" /\ At(Main, "loop") /\ mConnected
  /\ Goes(Main, "sendLength") \/ Calls(Main, "done")
  /\ UNCHANGED <<tasks, client, network, picture, fate>>

\* Mutated form of TakeFrame: dataReceived is cleared when the frame has been shown.
TakeFrameLate ==
  /\ \/ At(Main, "await") /\ dataReceived /\ Goes(Main, "process")
        /\ UNCHANGED <<dataReceived, processingData>>
     \/ At(Main, "process") /\ processingData' = TRUE /\ Goes(Main, "show") /\ UNCHANGED dataReceived
     \/ /\ At(Main, "shown") /\ processingData' = FALSE /\ dataReceived' = FALSE
        /\ Goes(Main, "loop") \/ Calls(Main, "done")
  /\ UNCHANGED <<tasks, client, network, message, canvas, frame, shown, fate>>

\* The loop of "bcast" around imshow, which ends it when escape is hit.
TakeFrame ==
  /\ \/ At(Main, "await") /\ dataReceived /\ Goes(Main, "taken")
        /\ UNCHANGED <<dataReceived, processingData>>
     \/ At(Main, "taken") /\ dataReceived' = FALSE /\ Goes(Main, "process") /\ UNCHANGED processingData
     \/ At(Main, "process") /\ processingData' = TRUE /\ Goes(Main, "show") /\ UNCHANGED dataReceived
     \/ /\ At(Main, "shown") /\ processingData' = FALSE /\ UNCHANGED dataReceived
        /\ Goes(Main, "loop") \/ Calls(Main, "done")
  /\ UNCHANGED <<tasks, client, network, message, canvas, frame, shown, fate>>

\* imshow(), which does not take an empty frame; under "video" escape ends the loop.
Show ==
  /\ At(Main, "show")
  /\ IF ~canvas THEN fate' = "aborted" /\ UNCHANGED <<at, back, shown>>
     ELSE /\ shown' = frame /\ UNCHANGED fate
          /\ \/ App = "bcast" /\ Goes(Main, "shown")
             \/ App = "video" /\ Goes(Main, "loop")
             \/ App = "video" /\ Calls(Main, "done")
  /\ UNCHANGED <<tasks, client, network, message, canvas, frame, dataReceived, processingData>>

-----------------------------------------------------------------------------
(* The listener: threadInnerFunction.                                        *)

\* HasIncomingData.  Without a descriptor, -1, select() looks at nothing, and what it
\* leaves in the set is not defined.
Poll ==
  /\ At(Listener, "poll")
  /\ \/ /\ ~mSocket \/ (wire = <<>> /\ ~Gone)
        /\ TP!InnerReturns(Listener) /\ UNCHANGED <<at, back>>
     \/ (~mSocket \/ wire # <<>> \/ AtEnd) /\ Goes(Listener, "length") /\ UNCHANGED tasks
  /\ UNCHANGED <<client, network, picture, fate>>

\* Its Receive of the length, and of the body ...
ListenerReceives ==
  /\ mSocket
  /\ \/ At(Listener, "length") /\ Holds("length") /\ Goes(Listener, "body") /\ UNCHANGED tasks
     \/ At(Listener, "body") /\ Holds("body") /\ App = "bcast" /\ Goes(Listener, "wait") /\ UNCHANGED tasks
     \/ /\ At(Listener, "body") /\ Holds("body") /\ App = "chat"
        /\ Goes(Listener, "poll") /\ TP!InnerReturns(Listener)
  /\ wire' = Tail(wire) /\ message' = Head(wire).n
  /\ UNCHANGED <<client, peer, asked, cast, canvas, frame, shown, dataReceived, processingData, fate>>

\* ... or its end, after which it calls disconnected() and returns -1.
ListenerFails ==
  /\ \/ /\ At(Listener, "length") \/ At(Listener, "body")
        /\ ~mSocket \/ AtEnd
        /\ Calls(Listener, "fail") /\ UNCHANGED tasks
     \/ At(Listener, "fail") /\ TP!InnerFails(Listener) /\ UNCHANGED <<at, back>>
  /\ UNCHANGED <<client, network, picture, fate>>

\* OnReceive of video-client-bcast.cpp.
OnReceive ==
  /\ \/ At(Listener, "wait") /\ ~processingData /\ Goes(Listener, "copy")
        /\ UNCHANGED <<tasks, frame, dataReceived>>
     \/ At(Listener, "copy") /\ frame' = Torn /\ Goes(Listener, "copying")
        /\ UNCHANGED <<tasks, dataReceived>>
     \/ At(Listener, "copying") /\ frame' = message /\ Goes(Listener, "signal")
        /\ UNCHANGED <<tasks, dataReceived>>
     \/ /\ At(Listener, "signal") /\ dataReceived' = TRUE /\ UNCHANGED frame
        /\ Goes(Listener, "poll") /\ TP!InnerReturns(Listener)
  /\ UNCHANGED <<client, network, message, canvas, shown, processingData, fate>>

ThreadLoop ==
  /\ TP!StartFunction(Listener) \/ TP!LoopTest(Listener) \/ TP!StopFunction(Listener)
  /\ UNCHANGED <<client, network, at, back, picture, fate>>

-----------------------------------------------------------------------------
(* Undefined behaviour ends the run: what follows is no longer the code's.   *)

\* Thread t uses next the task that has been deleted, or deletes it again.
Dangling(t) ==
  /\ call[Listener] = "deleted"
  /\ \/ At(t, "stop") \/ At(t, "delete")
     \/ /\ t = Listener /\ pc[t] \notin {"none", "exited"}
        /\ pc[t] = "inner" => at[t] \notin {"test", "clear", "tell", "fail"}

\* Thread t receives one part of a message for another, or for another buffer, or
\* copies a frame to where there is no memory.
Garbage(t) ==
  \/ /\ wire # <<>> /\ (t = Listener => mSocket)
     /\ \/ (At(t, "length") \/ At(t, "sizeLength") \/ At(t, "frameLength")) /\ ~Holds("length")
        \/ (At(t, "body") \/ At(t, "sizeBody") \/ At(t, "frameBody")) /\ ~Holds("body")
        \/ At(t, "sizeBody") /\ Head(wire).n # 0
        \/ At(t, "frameBody") /\ ~canvas
  \/ At(t, "copy") /\ ~canvas

Misstep(t) ==
  /\ \/ Dangling(t) /\ fate' = "dangling"
     \/ Garbage(t) /\ fate' = "garbage"
  /\ UNCHANGED <<tasks, client, network, at, back, picture>>

-----------------------------------------------------------------------------
(* The server.                                                               *)

\* The server has something to send: the size, an answer, a broadcast, a line.
HasMessage ==
  \/ peer = "greeting"
  \/ peer = "open" /\ (App = "video" => asked) /\ (App = "bcast" => cast < MaxFrames)

\* It sends it, or only its length and then nothing more.
ServerSends ==
  /\ HasMessage /\ Len(wire) <= 2 * (MaxWire - 1)
  /\ LET n == IF peer = "greeting" THEN 0 ELSE IF App = "bcast" THEN cast + 1 ELSE 1
          m == [part |-> "length", n |-> n]
      IN /\ \/ peer' = "open" /\ wire' = wire \o <<m, [m EXCEPT !.part = "body"]>>
            \/ peer' \in {"mute", "closed", "reset"} /\ wire' = Append(wire, m)
         /\ cast' = IF App = "bcast" THEN n ELSE cast
  /\ asked' = FALSE
  /\ UNCHANGED <<tasks, client, at, back, picture, fate>>

ServerLeaves ==
  /\ peer \in {"greeting", "open", "mute"} /\ peer' \in {"closed", "reset"}
  /\ UNCHANGED <<tasks, client, wire, asked, cast, at, back, picture, fate>>

ResetArrives ==
  /\ peer = "resetting" /\ peer' = "reset"
  /\ UNCHANGED <<tasks, client, wire, asked, cast, at, back, picture, fate>>

-----------------------------------------------------------------------------
MainStep ==
  \/ Connect \/ StartListener \/ Connected \/ Disconnects(Main)
  \/ Send \/ ReceiveLength \/ ReceiveBody \/ Allocate \/ Loop \/ TakeFrame \/ Show

ListenerStep ==
  \/ Poll \/ ListenerReceives \/ ListenerFails \/ OnReceive \/ ThreadLoop
  \/ Disconnects(Listener)

Up == fate = "up" /\ at[Main] \notin {"done", "offline"} /\ UNCHANGED App

Progress(t) ==
  /\ Up
  /\ \/ Misstep(t)
     \/ /\ ~Dangling(t) /\ ~Garbage(t)
        /\ (t = Main /\ MainStep) \/ (t = Listener /\ ListenerStep)

Next ==
  \/ \E t \in Threads : Progress(t)
  \/ Up /\ (UserTypes \/ ServerSends \/ ServerLeaves \/ ResetArrives)

\* The process has ended, or Main waits for what nobody will send any more.
Terminated ==
  /\ \/ fate # "up" \/ at[Main] \in {"done", "offline"}
     \/ at[Main] = "await" /\ Gone /\ pc[Listener] \in {"none", "exited"}
  /\ UNCHANGED vars

Spec == Init /\ [][Next \/ Terminated]_vars

(* Both threads are scheduled, and a reset that was sent arrives.  Neither the *)
(* server nor the user must do anything.                                      *)
Fairness ==
  /\ \A t \in Threads : WF_vars(Progress(t))
  /\ WF_vars(Up /\ ResetArrives)

FairSpec == Spec /\ Fairness

-----------------------------------------------------------------------------
(* Properties.                                                               *)

Link == INSTANCE TcpLink WITH
  link <- IF at[Main] \in {"connect", "new", "start", "created", "socket", "flag", "offline"}
          THEN "new" ELSE IF mConnected THEN "connected" ELSE "lost"

\* A connection and its loss are told once each and after they have happened, although
\* both threads may find the connection ended, one send or receive after another.
LinkSpec == Link!Spec

\* The listener is never deleted under another's hands: what goes wrong goes wrong when
\* it has ended the connection itself, in disconnected().  Only under "bcast", where
\* two threads receive, does one take what was meant for the other; the client
\* without a thread uses nothing that it has not got.
NoUndefinedBehaviour ==
  /\ fate = "dangling" => at[Listener] \in Ending \cup {"fail"}
  /\ fate = "garbage" => App = "bcast"

\* The listener waits in recv for what the server has not sent: the rest of a message,
\* or any at all when it has called select without a descriptor.
ListenerWaits == at[Listener] \in {"length", "body"} /\ wire = <<>> /\ ~Gone

\* Disconnect returns, whatever the listener is doing, unless that waits for ever; and
\* the client without a thread, which does not look at the end of the connection, comes
\* to an end with it all the same.
MainEnds ==
  /\ [](at[Main] = "test" /\ back[Main] = "done" =>
          <>(at[Main] = "done" \/ fate # "up" \/ []ListenerWaits))
  /\ App = "video" /\ Gone ~> at[Main] \in {"done", "offline"} \/ fate # "up"

\* The last frame received is shown: clearing dataReceived never loses one that came
\* since, unless the user quits.
FrameShown ==
  \A n \in Frames :
    App = "bcast" /\ frame = n /\ dataReceived ~>
      shown = n \/ frame # n \/ at[Main] \in Ending \/ at[Main] = "done" \/ fate # "up"
=============================================================================
