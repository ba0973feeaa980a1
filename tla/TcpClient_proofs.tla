--------------------------- MODULE TcpClient_proofs ---------------------------
(***************************************************************************)
(* The safety of the TCP client for any of its programs, any number of      *)
(* frames and any number of messages on their way.                          *)
(*                                                                         *)
(* LinkSpec rests on LinkOK: mConnected is set once, by Main, and only then  *)
(* does the listener get past its test of it.  NoUndefinedBehaviour has two  *)
(* parts.  The task is not used after its deletion because, until the        *)
(* listener itself has found the connection ended (Clean), Main is its only  *)
(* owner and mConnected keeps Main from deleting it twice (TaskOK).  Nothing *)
(* is received for something else because lengths and bodies alternate on    *)
(* the wire as their one reader expects them (PlaceOK, FlowOK), and the size *)
(* comes first (SizeOK); under "bcast" there are two readers.                *)
(***************************************************************************)
EXTENDS TcpClient, SequenceTheorems, TLAPS

-----------------------------------------------------------------------------
(* Types: those of the task, of the threads' positions, of the rest.         *)

\* Where Main goes on after disconnected().
Returns == {"sendBody", "loop", "frameLength", "show", "done"}

AtOK ==
  /\ at \in [Threads -> MainAt \cup ListenerAt]
  /\ at[Main] \in MainAt /\ at[Listener] \in ListenerAt
  /\ back \in [Threads -> Returns \cup {"fail"}]
  /\ back[Main] \in Returns /\ back[Listener] = "fail"

Parts == [part : {"length", "body"}, n : Frames]

WireOK == wire \in Seq(Parts) /\ Len(wire) <= 2 * MaxWire

FlagsOK ==
  /\ mSocket \in BOOLEAN /\ mConnected \in BOOLEAN /\ open \in BOOLEAN
  /\ up \in BOOLEAN /\ down \in BOOLEAN /\ asked \in BOOLEAN /\ canvas \in BOOLEAN
  /\ dataReceived \in BOOLEAN /\ processingData \in BOOLEAN

RestOK ==
  /\ App \in Apps
  /\ peer \in {"none", "greeting", "open", "mute", "closed", "resetting", "reset"}
  /\ cast \in Frames /\ message \in Frames
  /\ frame \in Frames \cup {Torn} /\ shown \in Frames \cup {Torn}
  /\ fate \in {"up", "killed", "aborted", "dangling", "garbage"}

Typed == TP!TypeOK /\ AtOK /\ WireOK /\ FlagsOK /\ RestOK

LEMMA InitType == Init => Typed
<1> SUFFICES ASSUME Init PROVE Typed
    OBVIOUS
<1>1. TP!TypeOK
      BY DEF Init, TP!Init, TP!TypeOK, TP!Positions, TP!Calls, Tasks
<1>2. AtOK
      BY ThreadsAssumption DEF Init, AtOK, Returns, Threads, MainAt, ListenerAt, Ending
<1>3. WireOK
      BY BoundsAssumption DEF Init, WireOK
<1>4. RestOK
      BY BoundsAssumption DEF Init, RestOK, Frames
<1>5. FlagsOK
      BY DEF Init, FlagsOK
<1> QED BY <1>1, <1>2, <1>3, <1>4, <1>5 DEF Typed

\* Moving a thread.
LEMMA MainMoves ==
  ASSUME AtOK, NEW p,
         \/ Goes(Main, p) /\ p \in MainAt
         \/ Calls(Main, p) /\ p \in Returns
  PROVE  AtOK'
  BY ThreadsAssumption DEF AtOK, Goes, Calls, Threads, MainAt, Ending

LEMMA ListenerMoves ==
  ASSUME AtOK, NEW p,
         \/ Goes(Listener, p) /\ p \in ListenerAt
         \/ Calls(Listener, p) /\ p = "fail"
  PROVE  AtOK'
  BY ThreadsAssumption DEF AtOK, Goes, Calls, Threads, ListenerAt, Ending

\* Either of them, inside disconnected() or out of it.
LEMMA ThreadMoves ==
  ASSUME AtOK, NEW t \in Threads, NEW p, Goes(t, p), p \in Ending \/ p = back[t]
  PROVE  AtOK'
<1>1. CASE t = Main
      BY <1>1, MainMoves DEF AtOK, Returns, MainAt
<1>2. CASE t = Listener
      BY <1>2, ListenerMoves DEF AtOK, ListenerAt
<1> QED BY <1>1, <1>2 DEF Threads

LEMMA SameAt == ASSUME AtOK, UNCHANGED <<at, back>> PROVE AtOK'
  BY DEF AtOK

\* A step of the task.
LEMMA TaskType ==
  ASSUME TP!TypeOK,
         \/ TP!New(Listener) \/ TP!Create(Listener) \/ TP!CreateFails(Listener)
         \/ TP!SetRunning(Listener) \/ TP!ClearRunning(Listener) \/ TP!Join(Listener)
         \/ TP!StartFunction(Listener) \/ TP!LoopTest(Listener) \/ TP!StopFunction(Listener)
         \/ TP!InnerReturns(Listener) \/ TP!InnerFails(Listener)
         \/ UNCHANGED tasks
         \/ mRunning' = [mRunning EXCEPT ![Listener] = FALSE] /\ UNCHANGED <<pc, call>>
         \/ call' = [call EXCEPT ![Listener] = "deleted"] /\ UNCHANGED <<mRunning, pc>>
  PROVE  TP!TypeOK'
  BY DEF TP!TypeOK, TP!New, TP!Create, TP!CreateFails, TP!SetRunning, TP!ClearRunning, TP!Join,
         TP!StartFunction, TP!LoopTest, TP!StopFunction, TP!InnerReturns, TP!InnerFails, TP!vars,
         TP!Positions, TP!Calls, Tasks, tasks

\* One message part less.
LEMMA TakeType ==
  ASSUME WireOK, wire # <<>>
  PROVE  Tail(wire) \in Seq(Parts) /\ Len(Tail(wire)) <= 2 * MaxWire /\ Head(wire).n \in Frames
<1>1. Head(wire) \in Parts /\ Tail(wire) \in Seq(Parts) /\ Len(Tail(wire)) = Len(wire) - 1
      BY HeadTailProperties DEF WireOK
<1> QED BY <1>1, LenProperties, BoundsAssumption DEF WireOK, Parts

LEMMA SameWire == ASSUME WireOK, UNCHANGED wire PROVE WireOK'
  BY DEF WireOK

LEMMA SameRest ==
  ASSUME RestOK, UNCHANGED <<App, peer, cast, message, frame, shown, fate>> PROVE RestOK'
  BY DEF RestOK

LEMMA SameFlags ==
  ASSUME FlagsOK,
         UNCHANGED <<mSocket, mConnected, open, up, down, asked, canvas, dataReceived, processingData>>
  PROVE  FlagsOK'
  BY DEF FlagsOK

-----------------------------------------------------------------------------
(* Each action keeps the types. *)

LEMMA ConnectType == ASSUME Typed, UNCHANGED App, Connect PROVE Typed'
<1> USE DEF Typed
<1>1. TP!TypeOK'
      BY TaskType DEF Connect
<1>2. AtOK'
      BY MainMoves, SameAt DEF Connect, MainAt, Ending, Returns
<1>3. WireOK'
      BY SameWire DEF Connect, network
<1>4. FlagsOK'
      BY DEF Connect, tasks, client, network, picture, FlagsOK
<1>5. RestOK'
      BY DEF Connect, tasks, client, network, picture, RestOK
<1> QED BY <1>1, <1>2, <1>3, <1>4, <1>5

LEMMA StartListenerType == ASSUME Typed, UNCHANGED App, StartListener PROVE Typed'
<1> USE DEF Typed
<1>1. TP!TypeOK'
      BY TaskType DEF StartListener
<1>2. AtOK'
      BY MainMoves, SameAt DEF StartListener, MainAt, Ending, Returns
<1>3. WireOK'
      BY SameWire DEF StartListener, network
<1>4. FlagsOK'
      BY SameFlags DEF StartListener, tasks, client, network, picture
<1>5. RestOK'
      BY SameRest DEF StartListener, tasks, client, network, picture
<1> QED BY <1>1, <1>2, <1>3, <1>4, <1>5

LEMMA ConnectedType == ASSUME Typed, UNCHANGED App, Connected PROVE Typed'
<1> USE DEF Typed
<1>1. TP!TypeOK'
      BY TaskType DEF Connected
<1>2. AtOK'
      BY MainMoves, SameAt DEF Connected, MainAt, Ending, Returns
<1>3. WireOK'
      BY SameWire DEF Connected, network
<1>4. FlagsOK'
      BY DEF Connected, tasks, client, network, picture, FlagsOK
<1>5. RestOK'
      BY SameRest DEF Connected, tasks, client, network, picture
<1> QED BY <1>1, <1>2, <1>3, <1>4, <1>5

LEMMA SendType == ASSUME Typed, UNCHANGED App, Send PROVE Typed'
<1> USE DEF Typed
<1>1. TP!TypeOK'
      BY TaskType DEF Send
<1>2. AtOK'
      BY MainMoves, SameAt DEF Send, AfterSend, MainAt, Ending, Returns
<1>3. WireOK'
      BY SameWire DEF Send, network
<1>4. FlagsOK'
      BY DEF Send, tasks, client, network, picture, AfterSend, FlagsOK
<1>5. RestOK'
      BY DEF Send, tasks, client, network, picture, AfterSend, RestOK, Sends, SendFails
<1> QED BY <1>1, <1>2, <1>3, <1>4, <1>5

LEMMA ReceiveLengthType == ASSUME Typed, UNCHANGED App, ReceiveLength PROVE Typed'
<1> USE DEF Typed
<1>1. TP!TypeOK'
      BY TaskType DEF ReceiveLength
<1>2. AtOK'
      BY MainMoves, SameAt DEF ReceiveLength, MainAt, Ending, Returns
<1>3. WireOK'
      BY TakeType DEF ReceiveLength, Holds, WireOK
<1>4. FlagsOK'
      BY SameFlags DEF ReceiveLength, tasks, client, network, picture, Holds
<1>5. RestOK'
      BY SameRest DEF ReceiveLength, tasks, client, network, picture, Holds
<1> QED BY <1>1, <1>2, <1>3, <1>4, <1>5

LEMMA ReceiveBodyType == ASSUME Typed, UNCHANGED App, ReceiveBody PROVE Typed'
<1> USE DEF Typed
<1>1. TP!TypeOK'
      BY TaskType DEF ReceiveBody
<1>2. AtOK'
      BY MainMoves, SameAt DEF ReceiveBody, MainAt, Ending, Returns
<1>3. WireOK'
      BY TakeType DEF ReceiveBody, Holds, WireOK
<1>4. FlagsOK'
      BY SameFlags DEF ReceiveBody, tasks, client, network, picture, Holds
<1>5. RestOK'
      BY TakeType DEF ReceiveBody, tasks, client, network, picture, Holds, RestOK
<1> QED BY <1>1, <1>2, <1>3, <1>4, <1>5

LEMMA AllocateType == ASSUME Typed, UNCHANGED App, Allocate PROVE Typed'
<1> USE DEF Typed
<1>1. TP!TypeOK'
      BY TaskType DEF Allocate
<1>2. AtOK'
      BY MainMoves, SameAt DEF Allocate, MainAt, Ending, Returns
<1>3. WireOK'
      BY SameWire DEF Allocate, network
<1>4. FlagsOK'
      BY DEF Allocate, tasks, client, network, picture, FlagsOK
<1>5. RestOK'
      BY SameRest DEF Allocate, tasks, client, network, picture
<1> QED BY <1>1, <1>2, <1>3, <1>4, <1>5

LEMMA LoopType == ASSUME Typed, UNCHANGED App, Loop PROVE Typed'
<1> USE DEF Typed
<1>1. TP!TypeOK'
      BY TaskType DEF Loop
<1>2. AtOK'
      BY MainMoves, SameAt DEF Loop, Continue, MainAt, Ending, Returns
<1>3. WireOK'
      BY SameWire DEF Loop, network
<1>4. FlagsOK'
      BY SameFlags DEF Loop, tasks, client, network, picture, Continue
<1>5. RestOK'
      BY SameRest DEF Loop, tasks, client, network, picture, Continue
<1> QED BY <1>1, <1>2, <1>3, <1>4, <1>5

LEMMA UserTypesType == ASSUME Typed, UNCHANGED App, UserTypes PROVE Typed'
<1> USE DEF Typed
<1>1. TP!TypeOK'
      BY TaskType DEF UserTypes
<1>2. AtOK'
      BY MainMoves, SameAt DEF UserTypes, MainAt, Ending, Returns
<1>3. WireOK'
      BY SameWire DEF UserTypes, network
<1>4. FlagsOK'
      BY SameFlags DEF UserTypes, tasks, client, network, picture
<1>5. RestOK'
      BY SameRest DEF UserTypes, tasks, client, network, picture
<1> QED BY <1>1, <1>2, <1>3, <1>4, <1>5

LEMMA TakeFrameType == ASSUME Typed, UNCHANGED App, TakeFrame PROVE Typed'
<1> USE DEF Typed
<1>1. TP!TypeOK'
      BY TaskType DEF TakeFrame
<1>2. AtOK'
      BY MainMoves, SameAt DEF TakeFrame, MainAt, Ending, Returns
<1>3. WireOK'
      BY SameWire DEF TakeFrame, network
<1>4. FlagsOK'
      BY DEF TakeFrame, tasks, client, network, picture, FlagsOK
<1>5. RestOK'
      BY SameRest DEF TakeFrame, tasks, client, network, picture
<1> QED BY <1>1, <1>2, <1>3, <1>4, <1>5

LEMMA ShowType == ASSUME Typed, UNCHANGED App, Show PROVE Typed'
<1> USE DEF Typed
<1>1. TP!TypeOK'
      BY TaskType DEF Show
<1>2. AtOK'
      BY MainMoves, SameAt DEF Show, MainAt, Ending, Returns
<1>3. WireOK'
      BY SameWire DEF Show, network
<1>4. FlagsOK'
      BY SameFlags DEF Show, tasks, client, network, picture
<1>5. RestOK'
      BY DEF Show, tasks, client, network, picture, RestOK
<1> QED BY <1>1, <1>2, <1>3, <1>4, <1>5

LEMMA PollType == ASSUME Typed, UNCHANGED App, Poll PROVE Typed'
<1> USE DEF Typed
<1>1. TP!TypeOK'
      BY TaskType DEF Poll
<1>2. AtOK'
      BY ListenerMoves, SameAt DEF Poll, ListenerAt
<1>3. WireOK'
      BY SameWire DEF Poll, network
<1>4. FlagsOK'
      BY SameFlags DEF Poll, tasks, client, network, picture
<1>5. RestOK'
      BY SameRest DEF Poll, tasks, client, network, picture
<1> QED BY <1>1, <1>2, <1>3, <1>4, <1>5

LEMMA ListenerReceivesType == ASSUME Typed, UNCHANGED App, ListenerReceives PROVE Typed'
<1> USE DEF Typed
<1>1. TP!TypeOK'
      BY TaskType DEF ListenerReceives
<1>2. AtOK'
      BY ListenerMoves, SameAt DEF ListenerReceives, ListenerAt
<1>3. WireOK'
      BY TakeType DEF ListenerReceives, Holds, WireOK
<1>4. FlagsOK'
      BY SameFlags DEF ListenerReceives, tasks, client, network, picture, Holds
<1>5. RestOK'
      BY TakeType DEF ListenerReceives, tasks, client, network, picture, Holds, RestOK
<1> QED BY <1>1, <1>2, <1>3, <1>4, <1>5

LEMMA ListenerFailsType == ASSUME Typed, UNCHANGED App, ListenerFails PROVE Typed'
<1> USE DEF Typed
<1>1. TP!TypeOK'
      BY TaskType DEF ListenerFails
<1>2. AtOK'
      BY ListenerMoves, SameAt DEF ListenerFails, ListenerAt
<1>3. WireOK'
      BY SameWire DEF ListenerFails, network
<1>4. FlagsOK'
      BY SameFlags DEF ListenerFails, tasks, client, network, picture
<1>5. RestOK'
      BY SameRest DEF ListenerFails, tasks, client, network, picture
<1> QED BY <1>1, <1>2, <1>3, <1>4, <1>5

LEMMA OnReceiveType == ASSUME Typed, UNCHANGED App, OnReceive PROVE Typed'
<1> USE DEF Typed
<1>1. TP!TypeOK'
      BY TaskType DEF OnReceive
<1>2. AtOK'
      BY ListenerMoves, SameAt DEF OnReceive, ListenerAt
<1>3. WireOK'
      BY SameWire DEF OnReceive, network
<1>4. FlagsOK'
      BY DEF OnReceive, tasks, client, network, picture, FlagsOK
<1>5. RestOK'
      BY DEF OnReceive, tasks, client, network, picture, RestOK
<1> QED BY <1>1, <1>2, <1>3, <1>4, <1>5

LEMMA ThreadLoopType == ASSUME Typed, UNCHANGED App, ThreadLoop PROVE Typed'
<1> USE DEF Typed
<1>1. TP!TypeOK'
      BY TaskType DEF ThreadLoop
<1>2. AtOK'
      BY SameAt DEF ThreadLoop
<1>3. WireOK'
      BY SameWire DEF ThreadLoop, network
<1>4. FlagsOK'
      BY SameFlags DEF ThreadLoop, tasks, client, network, picture
<1>5. RestOK'
      BY SameRest DEF ThreadLoop, tasks, client, network, picture
<1> QED BY <1>1, <1>2, <1>3, <1>4, <1>5

LEMMA TestType == ASSUME Typed, UNCHANGED App, NEW t \in Threads, Test(t) PROVE Typed'
<1> USE DEF Typed
<1>1. TP!TypeOK'
      BY TaskType DEF Test
<1>2. AtOK'
      BY ThreadMoves DEF Test, Ending
<1>3. WireOK'
      BY SameWire DEF Test, network
<1>4. FlagsOK'
      BY SameFlags DEF Test, tasks, client, network, picture
<1>5. RestOK'
      BY SameRest DEF Test, tasks, client, network, picture
<1> QED BY <1>1, <1>2, <1>3, <1>4, <1>5

LEMMA StopListenerType == ASSUME Typed, UNCHANGED App, NEW t \in Threads, StopListener(t) PROVE Typed'
<1> USE DEF Typed
<1>1. TP!TypeOK'
      BY TaskType DEF StopListener
<1>2. AtOK'
      BY ThreadMoves DEF StopListener, Ending
<1>3. WireOK'
      BY SameWire DEF StopListener, network
<1>4. FlagsOK'
      BY SameFlags DEF StopListener, tasks, client, network, picture
<1>5. RestOK'
      BY SameRest DEF StopListener, tasks, client, network, picture
<1> QED BY <1>1, <1>2, <1>3, <1>4, <1>5

LEMMA DeleteListenerType == ASSUME Typed, UNCHANGED App, NEW t \in Threads, DeleteListener(t) PROVE Typed'
<1> USE DEF Typed
<1>1. TP!TypeOK'
      BY TaskType DEF DeleteListener
<1>2. AtOK'
      BY ThreadMoves DEF DeleteListener, Ending
<1>3. WireOK'
      BY SameWire DEF DeleteListener, network
<1>4. FlagsOK'
      BY SameFlags DEF DeleteListener, tasks, client, network, picture
<1>5. RestOK'
      BY SameRest DEF DeleteListener, tasks, client, network, picture
<1> QED BY <1>1, <1>2, <1>3, <1>4, <1>5

LEMMA FinishType == ASSUME Typed, UNCHANGED App, NEW t \in Threads, Finish(t) PROVE Typed'
<1> USE DEF Typed
<1>1. TP!TypeOK'
      BY TaskType DEF Finish
<1>2. AtOK'
      BY ThreadMoves DEF Finish, Ending
<1>3. WireOK'
      BY SameWire DEF Finish, network
<1>4. FlagsOK'
      BY DEF Finish, tasks, client, network, picture, FlagsOK
<1>5. RestOK'
      BY SameRest DEF Finish, tasks, client, network, picture
<1> QED BY <1>1, <1>2, <1>3, <1>4, <1>5

-----------------------------------------------------------------------------
LEMMA SameType == ASSUME Typed, UNCHANGED vars PROVE Typed'
  BY SameAt, TaskType, SameWire, SameFlags, SameRest
  DEF Typed, vars, tasks, client, network, picture

LEMMA MisstepType == ASSUME Typed, UNCHANGED App, NEW t \in Threads, Misstep(t) PROVE Typed'
<1>1. TP!TypeOK' /\ AtOK' /\ WireOK' /\ FlagsOK'
      BY SameAt, TaskType, SameWire, SameFlags DEF Typed, Misstep, client, network, picture
<1>2. RestOK'
      BY DEF Typed, Misstep, RestOK, network, picture
<1> QED BY <1>1, <1>2 DEF Typed

LEMMA ServerSendsType == ASSUME Typed, UNCHANGED App, ServerSends PROVE Typed'
<1> DEFINE n == IF peer = "greeting" THEN 0 ELSE IF App = "bcast" THEN cast + 1 ELSE 1
           m == [part |-> "length", n |-> n]
           b == [m EXCEPT !.part = "body"]
<1>1. n \in Frames
      BY BoundsAssumption DEF ServerSends, HasMessage, Typed, RestOK, Frames
<1>2. m \in Parts /\ b \in Parts
      BY <1>1 DEF Parts
<1> HIDE DEF n
<1>3. /\ Append(wire, m) \in Seq(Parts) /\ Len(Append(wire, m)) = Len(wire) + 1
      /\ wire \o <<m, b>> \in Seq(Parts) /\ Len(wire \o <<m, b>>) = Len(wire) + 2
      BY <1>2, AppendProperties, ConcatProperties DEF Typed, WireOK
<1>4. wire' = wire \o <<m, b>> \/ wire' = Append(wire, m)
      BY DEF ServerSends, n
<1>5. Len(wire) <= 2 * (MaxWire - 1) /\ Len(wire) \in Nat
      BY LenProperties DEF ServerSends, Typed, WireOK
<1> HIDE DEF m, b
<1>6. WireOK'
  <2>1. wire' \in Seq(Parts)
        BY <1>3, <1>4
  <2>2. Len(wire') <= Len(wire) + 2 /\ Len(wire') \in Nat
        BY <1>3, <1>4, <1>5
  <2> QED BY <1>5, <2>1, <2>2, BoundsAssumption DEF WireOK
<1>7. RestOK'
      BY <1>1 DEF ServerSends, n, Typed, RestOK, picture
<1>8. TP!TypeOK' /\ AtOK' /\ FlagsOK'
      BY SameAt, TaskType DEF Typed, ServerSends, FlagsOK, client, picture
<1> QED BY <1>6, <1>7, <1>8 DEF Typed

LEMMA ServerEndsType ==
  ASSUME Typed, UNCHANGED App, ServerLeaves \/ ResetArrives PROVE Typed'
<1>1. TP!TypeOK' /\ AtOK' /\ WireOK' /\ FlagsOK'
      BY SameAt, TaskType, SameWire, SameFlags DEF Typed, ServerLeaves, ResetArrives, client, picture
<1>2. RestOK'
      BY DEF Typed, ServerLeaves, ResetArrives, RestOK, picture
<1> QED BY <1>1, <1>2 DEF Typed

LEMMA DisconnectsType ==
  ASSUME Typed, UNCHANGED App, NEW t \in Threads, Disconnects(t) PROVE Typed'
  BY TestType, StopListenerType, DeleteListenerType, FinishType DEF Disconnects

LEMMA ProgressType == ASSUME Typed, NEW t \in Threads, Progress(t) PROVE Typed'
<1>1. UNCHANGED App
      BY DEF Progress, Up
<1>2. CASE Misstep(t)
      BY <1>1, <1>2, MisstepType
<1>3. CASE MainStep /\ t = Main
      BY <1>1, <1>3, ConnectType, StartListenerType, ConnectedType, DisconnectsType, SendType,
         ReceiveLengthType, ReceiveBodyType, AllocateType, LoopType, TakeFrameType, ShowType
      DEF MainStep
<1>4. CASE ListenerStep /\ t = Listener
      BY <1>1, <1>4, PollType, ListenerReceivesType, ListenerFailsType, OnReceiveType,
         ThreadLoopType, DisconnectsType DEF ListenerStep
<1> QED BY <1>2, <1>3, <1>4 DEF Progress

LEMMA NextType == Typed /\ [Next \/ Terminated]_vars => Typed'
<1> SUFFICES ASSUME Typed, [Next \/ Terminated]_vars PROVE Typed'
    OBVIOUS
<1>1. CASE \E t \in Threads : Progress(t)
      BY <1>1, ProgressType
<1>2. CASE Up /\ (UserTypes \/ ServerSends \/ ServerLeaves \/ ResetArrives)
      BY <1>2, UserTypesType, ServerSendsType, ServerEndsType DEF Up
<1>3. CASE UNCHANGED vars
      BY <1>3, SameType
<1> QED BY <1>1, <1>2, <1>3 DEF Next, Terminated

LEMMA AlwaysTyped == Spec => []Typed
  BY InitType, NextType, PTL DEF Spec

\* Every location keeps its type, for any programs and bounds.
THEOREM TypeCorrect == Spec => []TypeOK
<1>1. Typed => TypeOK
  <2> SUFFICES ASSUME Typed PROVE TypeOK
      OBVIOUS
  <2>1. back \in [Threads -> MainAt \cup {"fail"}]
        BY DEF Typed, AtOK, Returns, MainAt, Ending
  <2>2. wire \in Seq([part : {"length", "body"}, n : Frames]) /\ Len(wire) <= 2 * MaxWire
        BY DEF Typed, WireOK, Parts
  <2> QED BY <2>1, <2>2 DEF Typed, AtOK, FlagsOK, RestOK, TypeOK
<1> QED BY <1>1, AlwaysTyped, PTL

-----------------------------------------------------------------------------
(* The connection and its loss.                                              *)

Early == {"connect", "new", "start", "created", "socket", "flag", "offline"}

\* The client is connected once Main has set the flag; the listener gets past its test
\* of it only then; whoever is about to tell of the loss has cleared it.
LinkOK ==
  /\ mConnected => at[Main] \notin Early
  /\ up <=> at[Main] \notin Early \cup {"hello"}
  /\ at[Listener] \in Ending \ {"test"} => at[Main] \notin Early
  /\ at[Main] = "tell" \/ at[Listener] = "tell" => ~mConnected

\* What moving a thread does to both positions.
LEMMA MainAtAfter ==
  ASSUME AtOK, NEW p, Goes(Main, p) \/ Calls(Main, p)
  PROVE  /\ Goes(Main, p) => at'[Main] = p
         /\ Calls(Main, p) => at'[Main] = "test"
         /\ at'[Listener] = at[Listener]
  BY ThreadsAssumption DEF AtOK, Goes, Calls, Threads

LEMMA ListenerAtAfter ==
  ASSUME AtOK, NEW p, Goes(Listener, p) \/ Calls(Listener, p)
  PROVE  /\ Goes(Listener, p) => at'[Listener] = p
         /\ Calls(Listener, p) => at'[Listener] = "test"
         /\ at'[Main] = at[Main]
  BY ThreadsAssumption DEF AtOK, Goes, Calls, Threads

LEMMA InitLink == Init => LinkOK /\ Link!Init
  BY ThreadsAssumption DEF Init, LinkOK, Early, Ending, Threads, Link!Init

\* A step that moves no thread between the sets of positions that matter here.
LEMMA QuietLink ==
  ASSUME LinkOK, UNCHANGED <<mConnected, up, down>>,
         at'[Main] \in Early <=> at[Main] \in Early,
         at'[Main] = "hello" <=> at[Main] = "hello",
         at'[Listener] \in Ending \ {"test"} => at[Main] \notin Early,
         at'[Main] = "tell" \/ at'[Listener] = "tell" => ~mConnected
  PROVE  LinkOK' /\ UNCHANGED Link!vars
<1>1. LinkOK'
      BY DEF LinkOK
<1>2. UNCHANGED Link!vars
      BY DEF Link!vars, Early
<1> QED BY <1>1, <1>2

LEMMA MainQuiet ==
  ASSUME Typed, LinkOK, UNCHANGED <<mConnected, up, down>>, NEW p,
         Goes(Main, p) \/ Calls(Main, p),
         at[Main] \in Early => Goes(Main, p) /\ p \in Early,
         at[Main] \notin Early => at[Main] # "hello" /\ p \notin Early \cup {"hello", "tell"}
  PROVE  LinkOK' /\ UNCHANGED Link!vars
<1>1. at'[Listener] = at[Listener]
      BY MainAtAfter DEF Typed
<1>2. CASE at[Main] \in Early
      BY <1>1, <1>2, QuietLink, MainAtAfter DEF Typed, Early, LinkOK
<1>3. CASE at[Main] \notin Early
  <2>1. at'[Main] \notin Early \cup {"hello", "tell"}
        BY <1>3, MainAtAfter DEF Typed, Early
  <2> QED BY <1>1, <1>3, <2>1, QuietLink DEF LinkOK
<1> QED BY <1>2, <1>3

LEMMA ListenerQuiet ==
  ASSUME Typed, LinkOK, UNCHANGED <<mConnected, up, down>>, NEW p,
         \/ Goes(Listener, p) /\ p # "tell"
         \/ Calls(Listener, p),
         Goes(Listener, p) /\ p \in Ending \ {"test"} =>
            mConnected \/ at[Listener] \in Ending \ {"test"}
  PROVE  LinkOK' /\ UNCHANGED Link!vars
<1>1. at'[Main] = at[Main]
      BY ListenerAtAfter DEF Typed
<1>2. CASE Goes(Listener, p) /\ p # "tell"
      BY <1>1, <1>2, QuietLink, ListenerAtAfter DEF Typed, LinkOK
<1>3. CASE Calls(Listener, p)
      BY <1>1, <1>3, QuietLink, ListenerAtAfter DEF Typed, LinkOK
<1> QED BY <1>2, <1>3

\* The step is one of the link's, or none.
LinkStep == Link!Next \/ UNCHANGED Link!vars

\* Main, before it is connected and when it becomes so.
LEMMA ConnectLink ==
  ASSUME Typed, LinkOK, Connect \/ StartListener PROVE LinkOK' /\ LinkStep
<1>1. UNCHANGED <<mConnected, up, down>> /\ at[Main] \in Early
      BY DEF Connect, StartListener, client, At, Early
<1>2. PICK p \in Early : Goes(Main, p)
      BY DEF Connect, StartListener, Early
<1> QED BY <1>1, <1>2, MainQuiet DEF LinkStep

LEMMA ConnectedLink == ASSUME Typed, LinkOK, Connected PROVE LinkOK' /\ LinkStep
<1>1. CASE At(Main, "socket")
  <2>1. UNCHANGED <<mConnected, up, down>> /\ Goes(Main, "flag") /\ at[Main] \in Early
        BY <1>1 DEF Connected, At, Early
  <2> QED BY <2>1, MainQuiet DEF LinkStep, Early
<1>2. CASE At(Main, "flag")
  <2>1. mConnected' /\ Goes(Main, "hello") /\ UNCHANGED <<up, down>> /\ at[Main] = "flag"
        BY <1>2 DEF Connected, At
  <2>2. at'[Main] = "hello" /\ at'[Listener] = at[Listener]
        BY <2>1, MainAtAfter DEF Typed
  <2>3. at[Listener] \notin Ending \ {"test"} /\ ~up /\ ~mConnected
        BY <2>1 DEF LinkOK, Early
  <2>4. LinkOK'
        BY <2>1, <2>2, <2>3 DEF LinkOK, Early, Ending
  <2>5. Link!Make
        BY <2>1, <2>2, <2>3 DEF Link!Make, Early
  <2> QED BY <2>4, <2>5 DEF LinkStep, Link!Next
<1>3. CASE At(Main, "hello")
  <2>1. up' /\ UNCHANGED <<mConnected, down>> /\ at[Main] = "hello"
        BY <1>3 DEF Connected, At
  <2>2. at'[Main] \in {"sendLength", "sizeLength"} /\ at'[Listener] = at[Listener]
        BY <1>3, MainAtAfter DEF Connected, Typed, At
  <2>3. LinkOK'
        BY <2>1, <2>2 DEF LinkOK, Early, Ending
  <2>4. Link!TellUp
        BY <2>1, <2>2 DEF Link!TellUp, Early, LinkOK
  <2> QED BY <2>3, <2>4 DEF LinkStep, Link!Next
<1> QED BY <1>1, <1>2, <1>3 DEF Connected

\* Main, once it is connected.
LEMMA ProgramLink ==
  ASSUME Typed, LinkOK,
         \/ Send \/ ReceiveLength \/ ReceiveBody \/ Allocate \/ Loop \/ UserTypes
         \/ TakeFrame \/ Show
  PROVE  LinkOK' /\ LinkStep
<1>1. UNCHANGED <<mConnected, up, down>>
      BY DEF Send, ReceiveLength, ReceiveBody, Allocate, Loop, UserTypes, TakeFrame, Show, client
<1>2. at[Main] \notin Early \cup {"hello"}
      BY DEF Send, ReceiveLength, ReceiveBody, Allocate, Loop, UserTypes, TakeFrame, Show, At, Early
<1>3. \/ \E p \in MainAt \ (Early \cup {"hello", "tell"}) : Goes(Main, p) \/ Calls(Main, p)
      \/ UNCHANGED <<at, back>>
      BY DEF Send, AfterSend, ReceiveLength, ReceiveBody, Allocate, Loop, Continue, UserTypes,
             TakeFrame, Show, MainAt, Early, Ending
<1>4. CASE UNCHANGED <<at, back>>
      BY <1>1, <1>4, QuietLink DEF LinkStep, LinkOK
<1> QED BY <1>1, <1>2, <1>3, <1>4, MainQuiet DEF LinkStep

LEMMA ListenerLink ==
  ASSUME Typed, LinkOK, Poll \/ ListenerReceives \/ ListenerFails \/ OnReceive \/ ThreadLoop
  PROVE  LinkOK' /\ LinkStep
<1>1. UNCHANGED <<mConnected, up, down>>
      BY DEF Poll, ListenerReceives, ListenerFails, OnReceive, ThreadLoop, client
<1>2. \/ \E p \in ListenerAt \ Ending : Goes(Listener, p)
      \/ Calls(Listener, "fail")
      \/ UNCHANGED <<at, back>>
      BY DEF Poll, ListenerReceives, ListenerFails, OnReceive, ThreadLoop, ListenerAt, Ending
<1>3. CASE UNCHANGED <<at, back>>
      BY <1>1, <1>3, QuietLink DEF LinkStep, LinkOK
<1> QED BY <1>1, <1>2, <1>3, ListenerQuiet DEF LinkStep, Ending

\* disconnected() and Disconnect(), by either thread.
LEMMA MovesLink ==
  ASSUME Typed, LinkOK, NEW t \in Threads, Test(t) \/ StopListener(t) \/ DeleteListener(t)
  PROVE  LinkOK' /\ LinkStep
<1>1. UNCHANGED <<mConnected, up, down>>
      BY DEF Test, StopListener, DeleteListener, client
<1>2. at[t] \in Ending
      BY DEF Test, StopListener, DeleteListener, At, Ending
<1>3. \/ \E p \in Ending \ {"tell"} : Goes(t, p) /\ (mConnected \/ at[t] \in Ending \ {"test"})
      \/ Goes(t, back[t])
      BY DEF Test, StopListener, DeleteListener, At, Ending
<1>4. CASE t = Main
  <2>1. \E p : Goes(Main, p) /\ p \notin Early \cup {"hello", "tell"}
        BY <1>3, <1>4 DEF Typed, AtOK, Returns, Early, Ending
  <2>2. at[Main] \notin Early \cup {"hello"}
        BY <1>2, <1>4 DEF Early, Ending
  <2> QED BY <1>1, <2>1, <2>2, MainQuiet DEF LinkStep
<1>5. CASE t = Listener
  <2>1. \E p : /\ Goes(Listener, p) /\ p # "tell"
               /\ p \in Ending \ {"test"} => mConnected \/ at[Listener] \in Ending \ {"test"}
        BY <1>3, <1>5 DEF Typed, AtOK, Ending
  <2> QED BY <1>1, <2>1, ListenerQuiet DEF LinkStep
<1> QED BY <1>4, <1>5 DEF Threads

LEMMA FinishLink ==
  ASSUME Typed, LinkOK, NEW t \in Threads, Finish(t) PROVE LinkOK' /\ LinkStep
<1>1. at[t] \in Ending \ {"test"} /\ UNCHANGED up
      BY DEF Finish, At, Ending
<1>2. at[Main] \notin Early \cup {"hello"} \/ (t = Listener /\ at[Main] \notin Early)
      BY <1>1 DEF LinkOK, Threads, Early, Ending
<1>3. \E p \in {"clear", "tell", back[t]} : Goes(t, p)
      BY DEF Finish
<1>4. \/ t = Main /\ at'[Listener] = at[Listener] /\ at'[Main] \in {"clear", "tell"} \cup Returns
      \/ t = Listener /\ at'[Main] = at[Main]
      BY <1>3, MainAtAfter, ListenerAtAfter DEF Typed, AtOK, Threads
<1>5. CASE At(t, "close")
  <2>1. UNCHANGED <<mConnected, up, down>> /\ Goes(t, "clear") /\ at[t] = "close"
        BY <1>5 DEF Finish, At
  <2>2. CASE t = Main
        BY <2>1, <2>2, MainQuiet DEF LinkStep, Early
  <2>3. CASE t = Listener
        BY <2>1, <2>3, ListenerQuiet DEF LinkStep, Ending
  <2> QED BY <2>2, <2>3 DEF Threads
<1>6. CASE At(t, "clear")
  <2>1. ~mConnected' /\ UNCHANGED <<up, down>> /\ at[t] = "clear"
        BY <1>6 DEF Finish, At
  <2>2. at'[Main] \notin Early /\ (at'[Main] = "hello" <=> at[Main] = "hello") /\ at[Main] \notin Early
        BY <1>2, <1>4, <2>1 DEF Early, Returns
  <2>3. LinkOK'
        BY <2>1, <2>2 DEF LinkOK
  <2>4. Link!Lose \/ UNCHANGED Link!vars
        BY <2>1, <2>2 DEF Link!Lose, Link!vars, Early
  <2> QED BY <2>3, <2>4 DEF LinkStep, Link!Next
<1>7. CASE At(t, "tell")
  <2>1. down' /\ UNCHANGED <<up, mConnected>> /\ at[t] = "tell"
        BY <1>7 DEF Finish, At
  <2>2. ~mConnected
        BY <2>1 DEF LinkOK, Threads
  <2>3. at'[Main] \notin Early /\ (at'[Main] = "hello" <=> at[Main] = "hello") /\ at[Main] \notin Early
        BY <1>2, <1>4, <2>1 DEF Early, Returns
  <2>4. LinkOK'
        BY <2>1, <2>2, <2>3 DEF LinkOK
  <2>5. Link!TellDown \/ UNCHANGED Link!vars
        BY <2>1, <2>2, <2>3 DEF Link!TellDown, Link!vars, Early, Typed, FlagsOK
  <2> QED BY <2>4, <2>5 DEF LinkStep, Link!Next
<1> QED BY <1>5, <1>6, <1>7 DEF Finish

\* Steps that touch neither.
LEMMA OtherLink ==
  ASSUME LinkOK, UNCHANGED <<mConnected, up, down, at>> PROVE LinkOK' /\ LinkStep
  BY QuietLink DEF LinkStep, LinkOK

LEMMA NextLink == ASSUME Typed, LinkOK, [Next \/ Terminated]_vars PROVE LinkOK' /\ LinkStep
<1>1. ASSUME NEW t \in Threads, Progress(t) PROVE LinkOK' /\ LinkStep
  <2>1. CASE Misstep(t)
        BY <2>1, OtherLink DEF Misstep, client
  <2>2. CASE Disconnects(t)
        BY <2>2, MovesLink, FinishLink DEF Disconnects
  <2>3. CASE MainStep /\ ~Disconnects(t) /\ t = Main
        BY <2>3, ConnectLink, ConnectedLink, ProgramLink DEF MainStep
  <2>4. CASE ListenerStep /\ ~Disconnects(t) /\ t = Listener
        BY <2>4, ListenerLink DEF ListenerStep
  <2> QED BY <1>1, <2>1, <2>2, <2>3, <2>4 DEF Progress
<1>2. CASE Up /\ (UserTypes \/ ServerSends \/ ServerLeaves \/ ResetArrives)
      BY <1>2, ProgramLink, OtherLink DEF ServerSends, ServerLeaves, ResetArrives, client
<1>3. CASE UNCHANGED vars
      BY <1>3, OtherLink DEF vars, client
<1> QED BY <1>1, <1>2, <1>3 DEF Next, Terminated

\* A connection and its loss are told once each, after they have happened.
THEOREM LinkImplementation == Spec => LinkSpec
<1>1. Typed /\ LinkOK /\ [Next \/ Terminated]_vars => LinkOK' /\ [Link!Next]_Link!vars
      BY NextLink DEF LinkStep
<1> QED BY <1>1, InitLink, AlwaysTyped, PTL DEF Spec, LinkSpec, Link!Spec

-----------------------------------------------------------------------------
(* The listener's task.                                                      *)

\* The listener has not found the end of the connection.
Clean == at[Listener] \notin Ending \cup {"fail"}

Unborn == {"connect", "new", "offline"}

\* Until then the task is Main's alone, as ThreadedProcess has it, and Main deletes it
\* once: when it has done so, mConnected keeps it from coming back.
TaskOK ==
  /\ App = "video" =>
       /\ call[Listener] = "absent" /\ pc[Listener] = "none"
       /\ at[Main] \notin {"new", "start", "created", "stop", "join", "delete"}
  /\ Clean /\ App # "video" =>
       /\ call[Listener] = "absent" <=> at[Main] \in Unborn
       /\ call[Listener] = "starting" <=> at[Main] = "created"
       /\ call[Listener] = "stopping" <=> at[Main] = "join"
       /\ call[Listener] = "deleted" =>
            /\ at[Main] \notin Early \cup {"stop", "delete"}
            /\ mConnected => at[Main] \in {"close", "clear"}
       /\ call[Listener] = "idle" => (mRunning[Listener] <=> pc[Listener] # "none")
       /\ call[Listener] \in {"starting", "stopping"} =>
            ~mRunning[Listener] /\ pc[Listener] # "none"
       /\ call[Listener] \in {"absent", "deleted"} =>
            ~mRunning[Listener] /\ pc[Listener] = "none"
       /\ at[Main] = "delete" => pc[Listener] = "none" /\ ~mRunning[Listener]

LEMMA InitTask == Init => TaskOK
  BY ThreadsAssumption DEF Init, TaskOK, TP!Init, Clean, Ending, Unborn, Early, Threads, Tasks

\* The listener does not come back from what it has begun.
LEMMA CleanBefore == ASSUME Typed, NEW p, Goes(Listener, p) \/ Calls(Listener, p),
                            ~Clean => Goes(Listener, p) /\ p \in Ending \cup {"fail"}
                     PROVE  Clean' => Clean
  BY ListenerAtAfter DEF Typed, Clean

\* What the task's variables hold after a step.
LEMMA TaskAfter ==
  ASSUME Typed
  PROVE  /\ TP!New(Listener) => call[Listener] = "absent" /\ call'[Listener] = "idle"
                                /\ ~mRunning'[Listener] /\ pc' = pc
         /\ TP!Create(Listener) => call[Listener] = "idle" /\ ~mRunning[Listener]
                                   /\ call'[Listener] = "starting" /\ mRunning' = mRunning
                                   /\ pc'[Listener] = "start"
         /\ TP!CreateFails(Listener) => call[Listener] = "idle" /\ ~mRunning[Listener]
                                        /\ UNCHANGED tasks
         /\ TP!SetRunning(Listener) => call[Listener] = "starting" /\ call'[Listener] = "idle"
                                       /\ mRunning'[Listener] /\ pc' = pc
         /\ TP!ClearRunning(Listener) => call[Listener] = "idle" /\ mRunning[Listener]
                                         /\ call'[Listener] = "stopping"
                                         /\ ~mRunning'[Listener] /\ pc' = pc
         /\ TP!Join(Listener) => call[Listener] = "stopping" /\ call'[Listener] = "idle"
                                 /\ pc'[Listener] = "none" /\ mRunning' = mRunning
         /\ TP!StartFunction(Listener) \/ TP!LoopTest(Listener) \/ TP!StopFunction(Listener)
              \/ TP!InnerReturns(Listener) \/ TP!InnerFails(Listener)
              => pc[Listener] # "none" /\ pc'[Listener] # "none" /\ mRunning' = mRunning /\ call' = call
  BY DEF Typed, TP!TypeOK, TP!New, TP!Create, TP!CreateFails, TP!SetRunning, TP!ClearRunning,
         TP!Join, TP!StartFunction, TP!LoopTest, TP!StopFunction, TP!InnerReturns, TP!InnerFails,
         TP!vars, TP!Positions, Tasks, tasks

\* Steps that change none of what TaskOK is about.
LEMMA OtherTask ==
  ASSUME TaskOK, UNCHANGED <<App, mRunning, pc, call, mConnected, at>> PROVE TaskOK'
  BY DEF TaskOK, Clean

LEMMA ConnectTask == ASSUME Typed, TaskOK, UNCHANGED App, Connect PROVE TaskOK'
<1>1. at[Main] = "connect" /\ UNCHANGED <<mRunning, pc, call, mConnected>>
      BY DEF Connect, At, tasks
<1>2. at'[Listener] = at[Listener] /\ at'[Main] \in {"offline", IF App = "video" THEN "socket" ELSE "new"}
      BY MainAtAfter DEF Connect, Typed, NoThread
<1> QED BY <1>1, <1>2 DEF TaskOK, Clean, Unborn, Early

LEMMA StartListenerTask == ASSUME Typed, TaskOK, UNCHANGED App, StartListener PROVE TaskOK'
<1>1. at'[Listener] = at[Listener] /\ UNCHANGED mConnected
      BY MainAtAfter DEF StartListener, Typed, client
<1>2. CASE at[Main] = "new" /\ TP!New(Listener) /\ at'[Main] = "start"
      BY <1>1, <1>2, TaskAfter DEF TaskOK, Clean, Unborn, Early
<1>3. CASE at[Main] = "start" /\ TP!Create(Listener) /\ at'[Main] = "created"
      BY <1>1, <1>3, TaskAfter DEF TaskOK, Clean, Unborn, Early
<1>4. CASE at[Main] = "start" /\ TP!CreateFails(Listener) /\ at'[Main] = "socket"
      BY <1>1, <1>4, TaskAfter DEF TaskOK, Clean, Unborn, Early, tasks
<1>5. CASE at[Main] = "created" /\ TP!SetRunning(Listener) /\ at'[Main] = "socket"
      BY <1>1, <1>5, TaskAfter DEF TaskOK, Clean, Unborn, Early
<1> QED BY <1>2, <1>3, <1>4, <1>5, MainAtAfter DEF StartListener, At, Typed

LEMMA ConnectedTask == ASSUME Typed, TaskOK, UNCHANGED App, Connected PROVE TaskOK'
<1>1. at'[Listener] = at[Listener] /\ UNCHANGED <<mRunning, pc, call>>
      BY MainAtAfter DEF Connected, Typed, tasks
<1>2. \/ at[Main] \in {"socket", "flag"} /\ at'[Main] \in {"flag", "hello"}
      \/ at[Main] = "hello" /\ at'[Main] \in {"sendLength", "sizeLength"}
      BY MainAtAfter DEF Connected, At, Typed
<1>3. at[Main] \notin Early => UNCHANGED mConnected
      BY DEF Connected, At, Early
<1> QED BY <1>1, <1>2, <1>3 DEF TaskOK, Clean, Unborn, Early

LEMMA ProgramTask ==
  ASSUME Typed, TaskOK, UNCHANGED App,
         \/ Send \/ ReceiveLength \/ ReceiveBody \/ Allocate \/ Loop \/ UserTypes
         \/ TakeFrame \/ Show
  PROVE  TaskOK'
<1>1. UNCHANGED <<mRunning, pc, call, mConnected>>
      BY DEF Send, ReceiveLength, ReceiveBody, Allocate, Loop, UserTypes, TakeFrame, Show, client, tasks
<1>2. at[Main] \notin Early \cup Ending
      BY DEF Send, ReceiveLength, ReceiveBody, Allocate, Loop, UserTypes, TakeFrame, Show, At, Early,
             Ending
<1>3. \/ \E p \in MainAt \ (Early \cup Ending) : Goes(Main, p) \/ Calls(Main, p)
      \/ UNCHANGED <<at, back>>
      BY DEF Send, AfterSend, ReceiveLength, ReceiveBody, Allocate, Loop, Continue, UserTypes,
             TakeFrame, Show, MainAt, Early, Ending
<1>4. CASE UNCHANGED <<at, back>>
      BY <1>1, <1>4, OtherTask
<1>5. CASE \E p \in MainAt \ (Early \cup Ending) : Goes(Main, p) \/ Calls(Main, p)
  <2>1. at'[Listener] = at[Listener] /\ at'[Main] \notin Early \cup (Ending \ {"test"})
        BY <1>5, MainAtAfter DEF Typed, Early, Ending
  <2>2. at[Main] \notin Unborn \cup {"created", "join", "close", "clear", "delete"}
        BY <1>2 DEF Early, Ending, Unborn
  <2>3. at'[Main] \notin Unborn \cup {"new", "start", "created", "stop", "join", "delete"}
        BY <2>1 DEF Early, Ending, Unborn
  <2> QED BY <1>1, <2>1, <2>2, <2>3 DEF TaskOK, Clean, Early, Unborn
<1> QED BY <1>3, <1>4, <1>5

\* The listener's own steps.
LEMMA ListenerTask ==
  ASSUME Typed, TaskOK, UNCHANGED App, Poll \/ ListenerReceives \/ ListenerFails \/ OnReceive \/ ThreadLoop
  PROVE  TaskOK'
<1>1. /\ UNCHANGED mConnected /\ call' = call /\ mRunning' = mRunning
      /\ pc' = pc \/ (pc[Listener] # "none" /\ pc'[Listener] # "none")
      BY TaskAfter DEF Poll, ListenerReceives, ListenerFails, OnReceive, ThreadLoop, client, tasks
<1>2. pc[Listener] # "none"
      BY TaskAfter DEF Poll, ListenerReceives, ListenerFails, OnReceive, ThreadLoop, At
<1>3. at'[Main] = at[Main] /\ (Clean' => Clean)
  <2>1. CASE UNCHANGED <<at, back>>
        BY <2>1 DEF Clean
  <2>2. CASE at[Listener] \in ListenerAt \ (Ending \cup {"fail"}) /\ \E p : Goes(Listener, p) \/ Calls(Listener, p)
        BY <2>2, ListenerAtAfter DEF Typed, Clean
  <2> QED BY <2>1, <2>2 DEF Poll, ListenerReceives, ListenerFails, OnReceive, ThreadLoop, At, ListenerAt,
                            Ending
<1> QED BY <1>1, <1>2, <1>3 DEF TaskOK

LEMMA MainEndsTask ==
  ASSUME Typed, TaskOK, UNCHANGED App, Disconnects(Main) PROVE TaskOK'
<1>1. at'[Listener] = at[Listener]
      BY MainAtAfter DEF Disconnects, Test, StopListener, DeleteListener, Finish, Typed
<1> USE DEF TaskOK, Clean, Unborn, Early
<1>2. CASE Test(Main)
  <2>1. UNCHANGED <<mRunning, pc, call, mConnected>> /\ at[Main] = "test"
        BY <1>2 DEF Test, At, tasks, client
  <2>2. \/ ~mConnected /\ at'[Main] \in Returns
        \/ mConnected /\ App # "video" /\ at'[Main] = "stop"
        \/ mConnected /\ App = "video" /\ at'[Main] \in {"close", "clear"}
        BY <1>2, MainAtAfter DEF Test, NoThread, Typed, AtOK
  <2> QED BY <1>1, <2>1, <2>2 DEF Returns
<1>3. CASE StopListener(Main)
  <2>1. Main # Listener /\ UNCHANGED mConnected
        BY <1>3, ThreadsAssumption DEF StopListener, client
  <2>2. \/ at[Main] = "stop" /\ ~mRunning[Listener] /\ at'[Main] = "delete" /\ UNCHANGED <<mRunning, pc, call>>
        \/ at[Main] = "stop" /\ TP!ClearRunning(Listener) /\ at'[Main] = "join"
        \/ at[Main] = "join" /\ TP!Join(Listener) /\ at'[Main] = "delete"
        BY <1>3, <2>1, MainAtAfter DEF StopListener, At, Typed, tasks
  <2>3. call[Listener] \in TP!Calls
        BY DEF Typed, TP!TypeOK, Tasks
  <2>4. CASE at[Main] = "stop" /\ ~mRunning[Listener] /\ at'[Main] = "delete" /\ UNCHANGED <<mRunning, pc, call>>
        BY <1>1, <2>1, <2>3, <2>4 DEF TP!Calls
  <2>5. CASE at[Main] = "stop" /\ TP!ClearRunning(Listener) /\ at'[Main] = "join"
        BY <1>1, <2>1, <2>5, TaskAfter
  <2>6. CASE at[Main] = "join" /\ TP!Join(Listener) /\ at'[Main] = "delete"
        BY <1>1, <2>1, <2>6, TaskAfter
  <2> QED BY <2>2, <2>4, <2>5, <2>6
<1>4. CASE DeleteListener(Main)
  <2>1. at[Main] = "delete" /\ at'[Main] \in {"close", "clear"} /\ UNCHANGED <<mRunning, pc, mConnected>>
        BY <1>4, MainAtAfter DEF DeleteListener, At, Typed, client
  <2>2. call'[Listener] = "deleted"
        BY <1>4 DEF DeleteListener, Typed, TP!TypeOK, Tasks
  <2> QED BY <1>1, <2>1, <2>2
<1>5. CASE Finish(Main)
  <2>1. UNCHANGED <<mRunning, pc, call>>
        BY <1>5 DEF Finish, tasks
  <2>2. \/ at[Main] = "close" /\ at'[Main] = "clear" /\ UNCHANGED mConnected
        \/ at[Main] = "clear" /\ at'[Main] = "tell" /\ ~mConnected'
        \/ at[Main] = "tell" /\ at'[Main] \in Returns /\ UNCHANGED mConnected
        BY <1>5, MainAtAfter DEF Finish, At, Typed, AtOK
  <2> QED BY <1>1, <2>1, <2>2 DEF Returns
<1> QED BY <1>2, <1>3, <1>4, <1>5 DEF Disconnects

\* In disconnected() the listener is not Clean, and stays so.
LEMMA ListenerEndsTask ==
  ASSUME Typed, TaskOK, UNCHANGED App, Disconnects(Listener) PROVE TaskOK'
<1>1. at[Listener] \in Ending /\ pc[Listener] = "inner"
      BY DEF Disconnects, Test, StopListener, DeleteListener, Finish, At, Ending
<1>2. \E p \in Ending \cup {"fail"} : Goes(Listener, p)
      BY DEF Disconnects, Test, StopListener, DeleteListener, Finish, Ending, Typed, AtOK
<1>3. ~Clean' /\ App # "video"
      BY <1>1, <1>2, ListenerAtAfter DEF Typed, Clean, TaskOK
<1> QED BY <1>3 DEF TaskOK

LEMMA NextTask == ASSUME Typed, TaskOK, [Next \/ Terminated]_vars PROVE TaskOK'
<1>1. ASSUME NEW t \in Threads, Progress(t) PROVE TaskOK'
  <2>1. UNCHANGED App
        BY <1>1 DEF Progress, Up
  <2>2. CASE Misstep(t)
        BY <2>1, <2>2, OtherTask DEF Misstep, client, tasks
  <2>3. CASE MainStep /\ t = Main
        BY <2>1, <2>3, ConnectTask, StartListenerTask, ConnectedTask, ProgramTask, MainEndsTask DEF MainStep
  <2>4. CASE ListenerStep /\ t = Listener
        BY <2>1, <2>4, ListenerTask, ListenerEndsTask DEF ListenerStep
  <2> QED BY <1>1, <2>2, <2>3, <2>4 DEF Progress
<1>2. CASE Up /\ (UserTypes \/ ServerSends \/ ServerLeaves \/ ResetArrives)
      BY <1>2, ProgramTask, OtherTask DEF ServerSends, ServerLeaves, ResetArrives, client, tasks, Up
<1>3. CASE UNCHANGED vars
      BY <1>3, OtherTask DEF vars, client, tasks
<1> QED BY <1>1, <1>2, <1>3 DEF Next, Terminated

\* No thread uses the task after its deletion but the listener that has ended the
\* connection itself.
LEMMA NotDangling == ASSUME Typed, TaskOK, Clean, NEW t \in Threads PROVE ~Dangling(t)
  BY DEF Dangling, TaskOK, Clean, Threads, At, Ending

-----------------------------------------------------------------------------
(* What is on its way, and who reads it, but under "bcast".                  *)

Pictures == {"sizeLength", "sizeBody", "allocate", "frameLength", "frameBody", "await", "taken",
             "process", "show", "shown"}

\* Where the threads of each program can be.
PlaceOK ==
  /\ mSocket => at[Main] \notin {"connect", "new", "start", "created", "socket", "offline"}
  /\ at[Listener] = "body" => mSocket
  /\ App # "bcast" => at[Listener] \notin {"wait", "copy", "copying", "signal"}
  /\ App = "chat" => at[Main] \notin Pictures /\ back[Main] \notin Pictures

\* The part that the reader of the connection is about to receive.
Expected ==
  IF (App = "chat" /\ at[Listener] = "body") \/ (App = "video" /\ at[Main] \in {"sizeBody", "frameBody"})
  THEN "body" ELSE "length"

Other(e) == IF e = "length" THEN "body" ELSE "length"

\* Lengths and bodies alternate, the reader's part in front; whole messages.
FlowsIn(w, e) ==
  /\ w # <<>> => w[1].part = e
  /\ \A i \in 1 .. Len(w) - 1 : w[i].part # w[i + 1].part

Whole(w, e) == IF w = <<>> THEN e = "length" ELSE w[Len(w)].part = "body"

FlowOK ==
  App # "bcast" =>
    /\ FlowsIn(wire, Expected)
    /\ peer \in {"none", "greeting", "open"} => Whole(wire, Expected)
    /\ at[Main] = "connect" => peer = "none"

First == Early \cup {"hello", "sizeLength", "sizeBody"}

\* The size comes first, and mCurrentFrame has memory, if anything comes, when frames do.
SizeOK ==
  App = "video" =>
    /\ at[Main] \in First => ~asked /\ \A i \in 1 .. Len(wire) : wire[i].n = 0
    /\ at[Main] \notin First \cup {"allocate"} => canvas \/ (Gone /\ wire = <<>>)

LEMMA TailAt ==
  ASSUME NEW w \in Seq(Parts), w # <<>>
  PROVE  /\ Tail(w) \in Seq(Parts) /\ Len(w) \in Nat \ {0} /\ Len(Tail(w)) = Len(w) - 1
         /\ \A i \in 1 .. Len(w) - 1 : Tail(w)[i] = w[i + 1]
         /\ Head(w) = w[1]
         /\ \A i \in 1 .. Len(w) : w[i].part \in {"length", "body"}
         /\ Tail(w) = <<>> <=> Len(w) = 1
<1>1. Tail(w) \in Seq(Parts) /\ Len(w) \in Nat \ {0} /\ Len(Tail(w)) = Len(w) - 1
      BY HeadTailProperties, EmptySeq, LenProperties
<1>2. \A i \in 1 .. Len(w) - 1 : Tail(w)[i] = w[i + 1]
      BY <1>1
<1>3. \A i \in 1 .. Len(w) : w[i].part \in {"length", "body"}
  <2> TAKE i \in 1 .. Len(w)
  <2>1. w[i] \in Parts
        BY ElementOfSeq
  <2> QED BY <2>1 DEF Parts
<1>4. Tail(w) = <<>> <=> Len(w) = 1
      BY <1>1, EmptySeq
<1> QED BY <1>1, <1>2, <1>3, <1>4

LEMMA TakeFlow ==
  ASSUME NEW w \in Seq(Parts), w # <<>>, NEW e \in {"length", "body"}, FlowsIn(w, e)
  PROVE  /\ FlowsIn(Tail(w), Other(e))
         /\ Whole(w, e) => Whole(Tail(w), Other(e))
<1>1. Tail(w) # <<>> => Tail(w)[1].part = Other(e)
  <2> SUFFICES ASSUME Tail(w) # <<>> PROVE Tail(w)[1].part = Other(e)
      OBVIOUS
  <2>1. 1 \in 1 .. Len(w) - 1 /\ 2 \in 1 .. Len(w)
        BY TailAt
  <2> QED BY <2>1, TailAt DEF FlowsIn, Other
<1>2. \A i \in 1 .. Len(Tail(w)) - 1 : Tail(w)[i].part # Tail(w)[i + 1].part
  <2> SUFFICES ASSUME NEW i \in 1 .. Len(Tail(w)) - 1 PROVE Tail(w)[i].part # Tail(w)[i + 1].part
      OBVIOUS
  <2>1. i \in 1 .. Len(w) - 1 /\ i + 1 \in 1 .. Len(w) - 1
        BY TailAt
  <2> QED BY <2>1, TailAt DEF FlowsIn
<1>3. Whole(w, e) => Whole(Tail(w), Other(e))
  <2>1. CASE Len(w) = 1
        BY <2>1, TailAt DEF Whole, Other, FlowsIn
  <2>2. CASE Len(w) # 1
    <3>1. Len(w) - 1 \in 1 .. Len(w) - 1 /\ Tail(w) # <<>>
          BY <2>2, TailAt
    <3>2. Tail(w)[Len(Tail(w))] = w[Len(w)]
          BY <3>1, TailAt
    <3> QED BY <3>1, <3>2 DEF Whole
  <2> QED BY <2>1, <2>2
<1> QED BY <1>1, <1>2, <1>3 DEF FlowsIn

LEMMA AppendAt ==
  ASSUME NEW w \in Seq(Parts), NEW l \in Parts
  PROVE  /\ Append(w, l) \in Seq(Parts) /\ Len(Append(w, l)) = Len(w) + 1 /\ Append(w, l) # <<>>
         /\ \A i \in 1 .. Len(w) : Append(w, l)[i] = w[i]
         /\ Append(w, l)[Len(w) + 1] = l
         /\ Len(w) \in Nat /\ (w = <<>> <=> Len(w) = 0)
  BY AppendProperties, EmptySeq, LenProperties

LEMMA AppendFlow ==
  ASSUME NEW w \in Seq(Parts), NEW e, FlowsIn(w, e), NEW l \in Parts,
         IF w = <<>> THEN l.part = e ELSE l.part # w[Len(w)].part
  PROVE  FlowsIn(Append(w, l), e)
<1>1. Append(w, l)[1].part = e
  <2>1. CASE w = <<>>
        BY <2>1, AppendAt
  <2>2. CASE w # <<>>
    <3>1. 1 \in 1 .. Len(w)
          BY <2>2, AppendAt
    <3> QED BY <2>2, <3>1, AppendAt DEF FlowsIn
  <2> QED BY <2>1, <2>2
<1>2. ASSUME NEW i \in 1 .. Len(w) PROVE Append(w, l)[i].part # Append(w, l)[i + 1].part
  <2>1. CASE i = Len(w)
        BY <2>1, AppendAt
  <2>2. CASE i # Len(w)
    <3>1. i \in 1 .. Len(w) - 1 /\ i + 1 \in 1 .. Len(w)
          BY <2>2, AppendAt
    <3> QED BY <3>1, AppendAt DEF FlowsIn
  <2> QED BY <2>1, <2>2
<1>3. Len(Append(w, l)) - 1 = Len(w)
      BY AppendAt
<1> QED BY <1>1, <1>2, <1>3 DEF FlowsIn

\* The server sends whole messages while it sends.
LEMMA SendFlow ==
  ASSUME NEW w \in Seq(Parts), NEW e, FlowsIn(w, e), Whole(w, e),
         NEW l \in Parts, NEW b \in Parts, l.part = "length", b.part = "body"
  PROVE  /\ FlowsIn(Append(w, l), e)
         /\ FlowsIn(w \o <<l, b>>, e) /\ Whole(w \o <<l, b>>, e)
<1>1. FlowsIn(Append(w, l), e)
      BY AppendFlow DEF Whole
<1>2. FlowsIn(Append(Append(w, l), b), e)
  <2> DEFINE v == Append(w, l)
  <2>1. v \in Seq(Parts) /\ v # <<>> /\ v[Len(v)].part = "length"
        BY AppendAt
  <2> HIDE DEF v
  <2>2. FlowsIn(v, e) => FlowsIn(Append(v, b), e)
        BY <2>1, AppendFlow
  <2> QED BY <1>1, <2>2 DEF v
<1>3. Whole(Append(Append(w, l), b), e)
      BY AppendAt DEF Whole
<1>4. w \o <<l, b>> = Append(Append(w, l), b)
      OBVIOUS
<1> QED BY <1>1, <1>2, <1>3, <1>4

LEMMA InitPlace == Init => PlaceOK /\ FlowOK /\ SizeOK
  BY ThreadsAssumption
  DEF Init, PlaceOK, Pictures, FlowOK, FlowsIn, Whole, Expected, SizeOK, First, Early, Threads

\* The positions.
LEMMA OtherPlace ==
  ASSUME PlaceOK, UNCHANGED <<App, mSocket, at, back>> PROVE PlaceOK'
  BY DEF PlaceOK

LEMMA MainPlace ==
  ASSUME Typed, PlaceOK, UNCHANGED App, MainStep \/ UserTypes PROVE PlaceOK'
<1>1. at'[Listener] = at[Listener] /\ back'[Listener] = back[Listener]
  <2>1. \/ \E p : Goes(Main, p) \/ Calls(Main, p)
        \/ UNCHANGED <<at, back>>
        BY DEF MainStep, Connect, StartListener, Connected, Disconnects, Test, StopListener,
               DeleteListener, Finish, Send, ReceiveLength, ReceiveBody, Allocate, Loop, UserTypes,
               TakeFrame, Show
  <2>2. \A p : Goes(Main, p) \/ Calls(Main, p) => back'[Listener] = back[Listener]
        BY ThreadsAssumption DEF Typed, AtOK, Goes, Calls, Threads
  <2> QED BY <2>1, <2>2, MainAtAfter DEF Typed
<1>2. CASE Connect \/ StartListener
  <2>1. UNCHANGED mSocket /\ at[Main] \in {"connect", "new", "start", "created"}
        BY <1>2 DEF Connect, StartListener, client, At
  <2>2. \E p \in {"offline", "socket", "new", "start", "created"} : Goes(Main, p)
        BY <1>2 DEF Connect, StartListener
  <2>3. at'[Main] \in {"offline", "socket", "new", "start", "created"} /\ back' = back
        BY <2>2, MainAtAfter DEF Typed, Goes
  <2> QED BY <1>1, <2>1, <2>3 DEF PlaceOK, Pictures
<1>3. CASE Connected
  <2>1. at'[Main] \in {"flag", "hello"} \cup (IF App = "chat" THEN {"sendLength"} ELSE {"sizeLength"})
        /\ back' = back
        BY <1>3, MainAtAfter DEF Connected, Typed, Goes
  <2>2. mSocket => mSocket'
        BY <1>3 DEF Connected
  <2> QED BY <1>1, <2>1, <2>2 DEF PlaceOK, Pictures
<1>4. CASE Disconnects(Main)
  <2>1. UNCHANGED mSocket /\ at[Main] \in Ending
        BY <1>4 DEF Disconnects, Test, StopListener, DeleteListener, Finish, client, At, Ending
  <2>2. \E p \in Ending \cup {back[Main]} : Goes(Main, p)
        BY <1>4 DEF Disconnects, Test, StopListener, DeleteListener, Finish, Ending
  <2>3. at'[Main] \in Ending \cup {back[Main]} /\ back' = back
        BY <2>2, MainAtAfter DEF Typed, Goes
  <2> QED BY <1>1, <2>1, <2>3 DEF PlaceOK, Pictures, Ending, Typed, AtOK, Returns
<1>5. CASE Send \/ ReceiveLength \/ ReceiveBody \/ Allocate \/ Loop \/ UserTypes \/ TakeFrame \/ Show
  <2>1. UNCHANGED mSocket
        BY <1>5 DEF Send, ReceiveLength, ReceiveBody, Allocate, Loop, UserTypes, TakeFrame, Show, client
  <2>2. at[Main] \notin Early \cup Ending
        BY <1>5 DEF Send, ReceiveLength, ReceiveBody, Allocate, Loop, UserTypes, TakeFrame, Show, At,
                    Early, Ending
  <2>3. \/ \E p \in MainAt \ Early : /\ Goes(Main, p) \/ Calls(Main, p)
                                     /\ App = "chat" => at[Main] \in Pictures \/ p \notin Pictures
        \/ UNCHANGED <<at, back>>
        BY <1>5 DEF Send, AfterSend, ReceiveLength, ReceiveBody, Allocate, Loop, Continue, UserTypes,
                    TakeFrame, Show, At, MainAt, Early, Ending, Pictures
  <2>4. CASE UNCHANGED <<at, back>>
        BY <2>1, <2>4, OtherPlace
  <2>5. ASSUME NEW p \in MainAt \ Early, Goes(Main, p) \/ Calls(Main, p),
               App = "chat" => at[Main] \in Pictures \/ p \notin Pictures
        PROVE  PlaceOK'
    <3>1. at'[Main] \in {p, "test"} /\ back'[Main] \in {p, back[Main]}
          BY <2>5, MainAtAfter DEF Typed, AtOK, Goes, Calls, Threads
    <3> QED BY <1>1, <2>1, <2>2, <2>5, <3>1 DEF PlaceOK, Early, Pictures
  <2> QED BY <2>3, <2>4, <2>5
<1> QED BY <1>2, <1>3, <1>4, <1>5 DEF MainStep

LEMMA ListenerPlace ==
  ASSUME Typed, PlaceOK, UNCHANGED App, ListenerStep PROVE PlaceOK'
<1>1. UNCHANGED mSocket
      BY DEF ListenerStep, Poll, ListenerReceives, ListenerFails, OnReceive, ThreadLoop, Disconnects, Test,
             StopListener, DeleteListener, Finish, client
<1>2. \/ UNCHANGED <<at, back>>
      \/ \E p \in ListenerAt :
           /\ Goes(Listener, p) \/ Calls(Listener, p)
           /\ p = "body" => mSocket
           /\ p = "wait" => App = "bcast"
           /\ p \in {"copy", "copying", "signal"} => at[Listener] \in {"wait", "copy", "copying"}
      BY DEF ListenerStep, Poll, ListenerReceives, ListenerFails, OnReceive, ThreadLoop, Disconnects, Test,
             StopListener, DeleteListener, Finish, Typed, AtOK, At, ListenerAt, Ending
<1>3. CASE UNCHANGED <<at, back>>
      BY <1>1, <1>3, OtherPlace
<1>4. ASSUME NEW p \in ListenerAt, Goes(Listener, p) \/ Calls(Listener, p), p = "body" => mSocket,
             p = "wait" => App = "bcast",
             p \in {"copy", "copying", "signal"} => at[Listener] \in {"wait", "copy", "copying"}
      PROVE  PlaceOK'
  <2>1. at'[Main] = at[Main] /\ back'[Main] = back[Main] /\ at'[Listener] \in {p, "test"}
        BY <1>4, ListenerAtAfter, ThreadsAssumption DEF Typed, AtOK, Goes, Calls, Threads
  <2> QED BY <1>1, <1>4, <2>1 DEF PlaceOK
<1> QED BY <1>2, <1>3, <1>4

\* Steps after which the reader is where it was, or there is nothing more to read.
LEMMA OtherFlow ==
  ASSUME FlowOK, UNCHANGED <<App, wire>>,
         App # "bcast" => /\ Expected' = Expected
                          /\ peer' = peer \/ peer' \notin {"none", "greeting", "open"}
                          /\ at'[Main] = "connect" => at[Main] = "connect" /\ peer' = peer
  PROVE  FlowOK'
  BY DEF FlowOK

LEMMA EndFlow ==
  ASSUME UNCHANGED <<App, wire, peer>>, AtEnd, at'[Main] # "connect" PROVE FlowOK'
  BY DEF FlowOK, AtEnd, Gone, FlowsIn

LEMMA ReaderFlow ==
  ASSUME Typed, FlowOK, App # "bcast", UNCHANGED <<App, peer>>, wire # <<>>, wire' = Tail(wire),
         Expected' = Other(Expected), at'[Main] # "connect"
  PROVE  FlowOK'
<1>1. wire \in Seq(Parts) /\ Expected \in {"length", "body"}
      BY DEF Typed, WireOK, Expected
<1> QED BY <1>1, TakeFlow DEF FlowOK

\* Main's steps that do not receive.
LEMMA MainFlow ==
  ASSUME Typed, PlaceOK, FlowOK, UNCHANGED App,
         \/ StartListener \/ Connected \/ Disconnects(Main) \/ Send \/ Allocate \/ Loop \/ UserTypes
         \/ TakeFrame \/ Show
  PROVE  FlowOK'
<1>1. UNCHANGED wire /\ (peer' = peer \/ peer' = "resetting")
      BY DEF StartListener, Connected, Disconnects, Test, StopListener, DeleteListener, Finish, Send, Sends,
             SendFails, Allocate, Loop, UserTypes, TakeFrame, Show, network
<1>2. \/ \E p \in MainAt \ {"sizeBody", "frameBody", "connect"} : Goes(Main, p) \/ Calls(Main, p)
      \/ UNCHANGED <<at, back>>
      BY DEF StartListener, Connected, Disconnects, Test, StopListener, DeleteListener, Finish, Send,
             AfterSend, Allocate, Loop, Continue, UserTypes, TakeFrame, Show, MainAt, Ending, Typed, AtOK,
             Returns
<1>3. at[Main] \notin {"sizeBody", "frameBody", "connect"}
      BY DEF StartListener, Connected, Disconnects, Test, StopListener, DeleteListener, Finish, Send,
             Allocate, Loop, UserTypes, TakeFrame, Show, At
<1>4. CASE UNCHANGED <<at, back>>
      BY <1>1, <1>3, <1>4, OtherFlow DEF Expected
<1>5. ASSUME NEW p \in MainAt \ {"sizeBody", "frameBody", "connect"}, Goes(Main, p) \/ Calls(Main, p)
      PROVE  FlowOK'
  <2>1. at'[Listener] = at[Listener] /\ at'[Main] \notin {"sizeBody", "frameBody", "connect"}
        BY <1>5, MainAtAfter DEF Typed
  <2>2. Expected' = Expected
        BY <1>3, <2>1 DEF Expected
  <2> QED BY <1>1, <2>1, <2>2, OtherFlow
<1> QED BY <1>2, <1>4, <1>5

LEMMA ConnectFlow == ASSUME Typed, PlaceOK, FlowOK, UNCHANGED App, Connect PROVE FlowOK'
<1>1. UNCHANGED wire /\ at[Main] = "connect"
      BY DEF Connect, At
<1>2. at'[Listener] = at[Listener] /\ at'[Main] \in {"offline", "socket", "new"}
      BY MainAtAfter DEF Connect, Typed
<1>3. App # "bcast" => Expected' = Expected
      BY <1>1, <1>2 DEF Expected, PlaceOK
<1> QED BY <1>1, <1>2, <1>3 DEF FlowOK

LEMMA ReceiveFlow ==
  ASSUME Typed, PlaceOK, FlowOK, UNCHANGED App, ReceiveLength \/ ReceiveBody PROVE FlowOK'
<1> SUFFICES ASSUME App # "bcast" PROVE FlowOK'
    BY DEF FlowOK
<1>1. UNCHANGED peer /\ at[Main] \in {"sizeLength", "sizeBody", "frameLength", "frameBody"}
      BY DEF ReceiveLength, ReceiveBody, At
<1>2. App = "video"
      BY <1>1, AppsAssumption DEF PlaceOK, Pictures, Typed, RestOK
<1>3. at'[Main] # "connect" /\ at'[Listener] = at[Listener]
      BY MainAtAfter DEF ReceiveLength, ReceiveBody, Typed
<1>4. CASE AtEnd /\ UNCHANGED wire
      BY <1>1, <1>3, <1>4, EndFlow
<1>5. CASE Holds("length") /\ wire' = Tail(wire) /\ at[Main] \in {"sizeLength", "frameLength"}
           /\ at'[Main] \in {"sizeBody", "frameBody"}
      BY <1>1, <1>2, <1>3, <1>5, ReaderFlow DEF Expected, Other, Holds
<1>6. CASE Holds("body") /\ wire' = Tail(wire) /\ at[Main] \in {"sizeBody", "frameBody"}
           /\ at'[Main] \in {"allocate", "show"}
      BY <1>1, <1>2, <1>3, <1>6, ReaderFlow DEF Expected, Other, Holds
<1> QED BY <1>4, <1>5, <1>6, MainAtAfter DEF ReceiveLength, ReceiveBody, At, Typed

LEMMA ListenerFlow ==
  ASSUME Typed, TaskOK, PlaceOK, FlowOK, UNCHANGED App, ListenerStep PROVE FlowOK'
<1> SUFFICES ASSUME App # "bcast" PROVE FlowOK'
    BY DEF FlowOK
<1>1. pc[Listener] # "none" /\ UNCHANGED peer
      BY TaskAfter DEF ListenerStep, Poll, ListenerReceives, ListenerFails, OnReceive, ThreadLoop,
                       Disconnects, Test, StopListener, DeleteListener, Finish, At, network
<1>2. App = "chat"
      BY <1>1, AppsAssumption DEF TaskOK, Typed, RestOK
<1>3. at'[Main] = at[Main]
      BY ListenerAtAfter DEF ListenerStep, Poll, ListenerReceives, ListenerFails, OnReceive, ThreadLoop,
                       Disconnects, Test, StopListener, DeleteListener, Finish, Typed
<1>4. CASE UNCHANGED wire /\ at[Listener] # "body" /\ at'[Listener] # "body"
      BY <1>1, <1>2, <1>3, <1>4, OtherFlow DEF Expected
<1>5. CASE AtEnd /\ UNCHANGED wire /\ at[Main] # "connect"
      BY <1>1, <1>3, <1>5, EndFlow
<1>6. CASE ListenerReceives
  <2>1. wire # <<>> /\ wire' = Tail(wire) /\ mSocket
        BY <1>6 DEF ListenerReceives, Holds
  <2>2. \/ at[Listener] = "length" /\ at'[Listener] = "body"
        \/ at[Listener] = "body" /\ at'[Listener] = "poll"
        BY <1>2, <1>6, ListenerAtAfter DEF ListenerReceives, At, Typed
  <2>3. Expected' = Other(Expected)
        BY <1>2, <2>2 DEF Expected, Other
  <2> QED BY <1>1, <1>3, <2>1, <2>3, ReaderFlow DEF PlaceOK
<1>7. CASE ListenerFails
  <2>1. UNCHANGED wire
        BY <1>7 DEF ListenerFails, network
  <2>2. CASE at[Listener] = "body" /\ AtEnd
    <3>1. at[Main] # "connect"
          BY <2>2 DEF PlaceOK
    <3> QED BY <1>5, <2>1, <2>2, <3>1
  <2>3. CASE at[Listener] \in {"length", "fail"} /\ at'[Listener] # "body"
        BY <1>4, <2>1, <2>3
  <2>4. \/ at[Listener] = "body" /\ AtEnd
        \/ at[Listener] \in {"length", "fail"} /\ at'[Listener] # "body"
        BY <1>7, ListenerAtAfter DEF ListenerFails, At, Typed, PlaceOK
  <2> QED BY <2>2, <2>3, <2>4
<1>8. CASE OnReceive
      BY <1>2, <1>8 DEF OnReceive, At, PlaceOK
<1>9. CASE Poll \/ ThreadLoop \/ Disconnects(Listener)
  <2>1. UNCHANGED wire
        BY <1>9 DEF Poll, ThreadLoop, Disconnects, Test, StopListener, DeleteListener, Finish, network
  <2>2. \/ UNCHANGED at
        \/ at[Listener] # "body" /\ \E p \in {"length", "fail"} \cup Ending : Goes(Listener, p)
        BY <1>9 DEF Poll, ThreadLoop, Disconnects, Test, StopListener, DeleteListener, Finish, At, Typed,
                    AtOK, Ending
  <2>3. CASE UNCHANGED at
        BY <1>1, <2>1, <2>3, OtherFlow DEF Expected
  <2>4. CASE at[Listener] # "body" /\ \E p \in {"length", "fail"} \cup Ending : Goes(Listener, p)
        BY <1>4, <2>1, <2>4, ListenerAtAfter DEF Typed, Ending
  <2> QED BY <2>2, <2>3, <2>4
<1> QED BY <1>6, <1>7, <1>8, <1>9 DEF ListenerStep

LEMMA ServerFlow ==
  ASSUME Typed, FlowOK, UNCHANGED App, ServerSends \/ ServerLeaves \/ ResetArrives PROVE FlowOK'
<1> SUFFICES ASSUME App # "bcast" PROVE FlowOK'
    BY DEF FlowOK
<1>1. CASE ServerLeaves \/ ResetArrives
      BY <1>1, OtherFlow DEF ServerLeaves, ResetArrives, Expected, FlowOK
<1>2. CASE ServerSends
  <2> DEFINE n == IF peer = "greeting" THEN 0 ELSE IF App = "bcast" THEN cast + 1 ELSE 1
             m == [part |-> "length", n |-> n]
             b == [m EXCEPT !.part = "body"]
  <2>1. m \in Parts /\ b \in Parts /\ m.part = "length" /\ b.part = "body"
        BY BoundsAssumption DEF Parts, Frames
  <2>2. \/ peer' = "open" /\ wire' = wire \o <<m, b>>
        \/ peer' \in {"mute", "closed", "reset"} /\ wire' = Append(wire, m)
        BY <1>2 DEF ServerSends
  <2>3. UNCHANGED at /\ peer \in {"greeting", "open"}
        BY <1>2 DEF ServerSends, HasMessage
  <2>4. Expected' = Expected
        BY <2>3 DEF Expected
  <2> HIDE DEF m, b
  <2>5. FlowsIn(wire, Expected) /\ Whole(wire, Expected) /\ wire \in Seq(Parts)
        BY <2>3 DEF FlowOK, Typed, WireOK
  <2>6. FlowsIn(Append(wire, m), Expected) /\ FlowsIn(wire \o <<m, b>>, Expected)
        /\ Whole(wire \o <<m, b>>, Expected)
        BY <2>1, <2>5, SendFlow
  <2>7. at[Main] # "connect"
        BY <2>3 DEF FlowOK
  <2> QED BY <2>2, <2>3, <2>4, <2>6, <2>7 DEF FlowOK
<1> QED BY <1>1, <1>2

\* The size of the video.
LEMMA OtherSize ==
  ASSUME SizeOK, UNCHANGED <<App, wire>>,
         App = "video" => /\ at'[Main] \in First => at[Main] \in First /\ asked' = asked
                          /\ at'[Main] \notin First \cup {"allocate"} => at[Main] \notin First \cup {"allocate"}
                          /\ canvas' = canvas /\ (Gone => Gone')
  PROVE  SizeOK'
  BY DEF SizeOK

LEMMA ListenerSize == ASSUME Typed, TaskOK, UNCHANGED App, ListenerStep PROVE SizeOK'
<1>1. pc[Listener] # "none"
      BY TaskAfter DEF ListenerStep, Poll, ListenerReceives, ListenerFails, OnReceive, ThreadLoop,
                       Disconnects, Test, StopListener, DeleteListener, Finish, At
<1> QED BY <1>1 DEF TaskOK, SizeOK

\* Main's steps that do not receive.
LEMMA MainSize ==
  ASSUME Typed, TaskOK, SizeOK, UNCHANGED App,
         \/ Connect \/ StartListener \/ Connected \/ Disconnects(Main) \/ Send \/ Allocate \/ Loop
         \/ UserTypes \/ TakeFrame \/ Show
  PROVE  SizeOK'
<1> SUFFICES ASSUME App = "video" PROVE SizeOK'
    BY DEF SizeOK
<1>1. UNCHANGED wire
      BY DEF Connect, StartListener, Connected, Disconnects, Test, StopListener, DeleteListener, Finish,
             Send, Allocate, Loop, UserTypes, TakeFrame, Show, network
<1>2. CASE Connect \/ Connected
  <2>1. UNCHANGED <<asked, canvas>> /\ at[Main] \in First
        BY <1>2 DEF Connect, Connected, At, First, Early, network, picture
  <2>2. at'[Main] \in First
        BY <1>2, MainAtAfter DEF Connect, Connected, NoThread, First, Early, Typed
  <2> QED BY <1>1, <2>1, <2>2, AppsAssumption DEF SizeOK
<1>3. CASE StartListener
      BY <1>3 DEF StartListener, At, TaskOK
<1>4. CASE Allocate
  <2>1. canvas' /\ at'[Main] = "loop"
        BY <1>4, MainAtAfter DEF Allocate, Typed
  <2> QED BY <2>1 DEF SizeOK, First, Early
<1>5. CASE Send
  <2>1. UNCHANGED canvas /\ at[Main] \in {"sendLength", "sendBody"} /\ (Gone => Gone')
        BY <1>5 DEF Send, At, picture, Sends, SendFails, Gone
  <2>2. at'[Main] \in {"sendBody", "frameLength", "test"}
        BY <1>5, MainAtAfter DEF Send, AfterSend, Typed
  <2> QED BY <1>1, <2>1, <2>2, OtherSize DEF First, Early
<1>6. CASE Disconnects(Main) \/ Loop \/ UserTypes \/ TakeFrame \/ Show
  <2>1. UNCHANGED <<canvas, asked, peer>>
        BY <1>6 DEF Disconnects, Test, StopListener, DeleteListener, Finish, Loop, UserTypes, TakeFrame,
                    Show, picture, network
  <2>2. \/ UNCHANGED at
        \/ at[Main] \notin First \cup {"allocate"}
           /\ \E p \in MainAt \ (First \cup {"allocate"}) : Goes(Main, p) \/ Calls(Main, p)
        BY <1>6 DEF Disconnects, Test, StopListener, DeleteListener, Finish, Loop, Continue, UserTypes,
                    TakeFrame, Show, At, First, Early, MainAt, Ending, Typed, AtOK, Returns
  <2>3. UNCHANGED at \/ (at[Main] \notin First \cup {"allocate"} /\ at'[Main] \notin First \cup {"allocate"})
        BY <2>2, MainAtAfter DEF Typed, First, Early
  <2> QED BY <1>1, <2>1, <2>3, OtherSize DEF Gone
<1> QED BY <1>2, <1>3, <1>4, <1>5, <1>6

LEMMA ReceiveSize ==
  ASSUME Typed, SizeOK, UNCHANGED App, ReceiveLength \/ ReceiveBody PROVE SizeOK'
<1> SUFFICES ASSUME App = "video" PROVE SizeOK'
    BY DEF SizeOK
<1>1. UNCHANGED <<asked, canvas, peer>>
      BY DEF ReceiveLength, ReceiveBody, picture
<1>2. CASE AtEnd /\ UNCHANGED wire
      BY <1>1, <1>2, MainAtAfter DEF ReceiveLength, ReceiveBody, Typed, At, SizeOK, AtEnd, Gone, First, Early
<1>3. CASE wire # <<>> /\ wire' = Tail(wire)
  <2>1. \/ at[Main] = "sizeLength" /\ at'[Main] = "sizeBody"
        \/ at[Main] = "sizeBody" /\ at'[Main] = "allocate"
        \/ at[Main] = "frameLength" /\ at'[Main] = "frameBody"
        \/ at[Main] = "frameBody" /\ at'[Main] = "show"
        BY <1>3, MainAtAfter DEF ReceiveLength, ReceiveBody, Typed, At, AtEnd
  <2>2. at[Main] \in First => \A i \in 1 .. Len(wire') : wire'[i].n = 0
    <3> SUFFICES ASSUME at[Main] \in First, NEW i \in 1 .. Len(wire') PROVE wire'[i].n = 0
        OBVIOUS
    <3>1. wire'[i] = wire[i + 1] /\ i + 1 \in 1 .. Len(wire)
          BY <1>3, TailAt DEF Typed, WireOK
    <3> QED BY <3>1 DEF SizeOK
  <2> QED BY <1>1, <1>3, <2>1, <2>2 DEF SizeOK, First, Early
<1> QED BY <1>2, <1>3 DEF ReceiveLength, ReceiveBody, Holds

LEMMA ServerSize ==
  ASSUME Typed, SizeOK, UNCHANGED App, ServerSends \/ ServerLeaves \/ ResetArrives PROVE SizeOK'
<1> SUFFICES ASSUME App = "video" PROVE SizeOK'
    BY DEF SizeOK
<1>1. UNCHANGED <<at, canvas>>
      BY DEF ServerSends, ServerLeaves, ResetArrives, picture
<1>2. CASE ServerLeaves \/ ResetArrives
      BY <1>1, <1>2, OtherSize DEF ServerLeaves, ResetArrives, Gone
<1>3. CASE ServerSends
  <2>1. ~Gone /\ ~asked' /\ (at[Main] \in First => peer = "greeting")
        BY <1>3 DEF ServerSends, HasMessage, Gone, SizeOK
  <2>2. CASE at[Main] \notin First
        BY <1>1, <2>1, <2>2 DEF SizeOK
  <2>3. CASE at[Main] \in First
    <3> DEFINE m == [part |-> "length", n |-> 0]
               b == [m EXCEPT !.part = "body"]
    <3>1. wire' = Append(wire, m) \/ wire' = wire \o <<m, b>>
          BY <1>3, <2>1, <2>3 DEF ServerSends
    <3>2. m \in Parts /\ b \in Parts /\ m.n = 0 /\ b.n = 0 /\ wire \in Seq(Parts)
          BY BoundsAssumption DEF Parts, Frames, Typed, WireOK
    <3> HIDE DEF m, b
    <3>3. \A w \in Seq(Parts), l \in Parts :
            l.n = 0 /\ (\A i \in 1 .. Len(w) : w[i].n = 0)
              => \A i \in 1 .. Len(Append(w, l)) : Append(w, l)[i].n = 0
      <4> TAKE w \in Seq(Parts), l \in Parts
      <4> HAVE l.n = 0 /\ (\A i \in 1 .. Len(w) : w[i].n = 0)
      <4> TAKE i \in 1 .. Len(Append(w, l))
      <4> QED BY AppendAt
    <3>4. wire \o <<m, b>> = Append(Append(wire, m), b)
          BY <3>2
    <3>5. Append(wire, m) \in Seq(Parts)
          BY <3>2, AppendAt
    <3>6. \A i \in 1 .. Len(Append(wire, m)) : Append(wire, m)[i].n = 0
          BY <2>3, <3>2, <3>3 DEF SizeOK
    <3>7. \A i \in 1 .. Len(wire') : wire'[i].n = 0
          BY <3>1, <3>2, <3>3, <3>4, <3>5, <3>6
    <3> QED BY <1>1, <2>1, <2>3, <3>7 DEF SizeOK
  <2> QED BY <2>2, <2>3
<1> QED BY <1>2, <1>3

-----------------------------------------------------------------------------
(* Undefined behaviour.                                                      *)

IInv == Typed /\ TaskOK /\ PlaceOK /\ FlowOK /\ SizeOK /\ NoUndefinedBehaviour

\* But under "bcast" every part is received as what it is.
LEMMA NoGarbage ==
  ASSUME Typed, TaskOK, PlaceOK, FlowOK, SizeOK, NEW t \in Threads, Garbage(t) PROVE App = "bcast"
<1> SUFFICES ASSUME App # "bcast" PROVE FALSE
    OBVIOUS
<1>1. App \in {"chat", "video"}
      BY AppsAssumption DEF Typed, RestOK
<1>2. ~At(t, "copy")
      BY DEF At, PlaceOK, Threads, Typed, AtOK, MainAt, Ending
<1>3. wire # <<>> /\ Head(wire) = wire[1] /\ wire[1].part = Expected /\ 1 \in 1 .. Len(wire)
      BY <1>2, TailAt DEF Garbage, Typed, WireOK, FlowOK, FlowsIn
<1>4. CASE t = Listener
  <2>1. App = "chat" /\ (at[Listener] = "length" \/ at[Listener] = "body")
        BY <1>1, <1>2, <1>4 DEF Garbage, At, TaskOK, Typed, AtOK, ListenerAt, Ending
  <2> QED BY <1>2, <1>3, <1>4, <2>1 DEF Garbage, At, Holds, Expected
<1>5. CASE t = Main
  <2>1. App = "video" /\ at[Main] \in {"sizeLength", "frameLength", "sizeBody", "frameBody"}
        BY <1>1, <1>2, <1>5 DEF Garbage, At, PlaceOK, Pictures, Typed, AtOK, MainAt, Ending
  <2>2. at[Main] = "sizeBody" => Head(wire).n = 0
        BY <1>3, <2>1 DEF SizeOK, First
  <2>3. at[Main] = "frameBody" => canvas
        BY <1>3, <2>1 DEF SizeOK, First, Early
  <2> QED BY <1>2, <1>3, <1>5, <2>1, <2>2, <2>3 DEF Garbage, At, Holds, Expected
<1> QED BY <1>4, <1>5 DEF Threads

LEMMA OtherFate ==
  ASSUME NoUndefinedBehaviour, UNCHANGED App, fate' \in {fate, "killed", "aborted"},
         ~Clean => ~Clean'
  PROVE  NoUndefinedBehaviour'
  BY DEF NoUndefinedBehaviour, Clean

LEMMA StaysUnclean == ASSUME Typed, [Next \/ Terminated]_vars, ~Clean PROVE ~Clean'
<1>1. \/ at'[Listener] = at[Listener]
      \/ \E p \in Ending \cup {"fail"} : Goes(Listener, p)
  <2>1. CASE UNCHANGED at
        BY <2>1
  <2>2. CASE \E p : Goes(Main, p) \/ Calls(Main, p)
        BY <2>2, MainAtAfter DEF Typed
  <2>3. CASE ListenerStep
        BY <2>3 DEF ListenerStep, Poll, ListenerReceives, ListenerFails, OnReceive, ThreadLoop,
                    Disconnects, Test, StopListener, DeleteListener, Finish, Typed, AtOK, At, Clean, Ending
  <2>4. MainStep \/ UserTypes => UNCHANGED at \/ \E p : Goes(Main, p) \/ Calls(Main, p)
        BY DEF MainStep, Connect, StartListener, Connected, Disconnects, Test, StopListener,
               DeleteListener, Finish, Send, ReceiveLength, ReceiveBody, Allocate, Loop, UserTypes,
               TakeFrame, Show
  <2> QED BY <2>1, <2>2, <2>3, <2>4
          DEF Next, Progress, Misstep, ServerSends, ServerLeaves, ResetArrives, Terminated, vars
<1> QED BY <1>1, ListenerAtAfter DEF Clean, Typed

LEMMA InitInv == Init => IInv
  BY InitType, InitTask, InitPlace DEF IInv, Init, NoUndefinedBehaviour

LEMMA NextPlace ==
  ASSUME IInv, [Next \/ Terminated]_vars PROVE PlaceOK' /\ FlowOK' /\ SizeOK'
<1> USE DEF IInv
<1>1. ASSUME NEW t \in Threads, Progress(t) PROVE PlaceOK' /\ FlowOK' /\ SizeOK'
  <2>1. UNCHANGED App
        BY <1>1 DEF Progress, Up
  <2>2. CASE Misstep(t)
        BY <2>1, <2>2, OtherPlace, OtherFlow, OtherSize
        DEF Misstep, client, network, picture, Expected, Gone
  <2>3. CASE MainStep /\ t = Main
        BY <2>1, <2>3, MainPlace, MainFlow, ConnectFlow, ReceiveFlow, MainSize, ReceiveSize DEF MainStep
  <2>4. CASE ListenerStep /\ t = Listener
        BY <2>1, <2>4, ListenerPlace, ListenerFlow, ListenerSize
  <2> QED BY <1>1, <2>2, <2>3, <2>4 DEF Progress
<1>2. CASE Up /\ UserTypes
      BY <1>2, MainPlace, MainFlow, MainSize DEF Up
<1>3. CASE Up /\ (ServerSends \/ ServerLeaves \/ ResetArrives)
      BY <1>3, OtherPlace, ServerFlow, ServerSize DEF Up, ServerSends, ServerLeaves, ResetArrives, client
<1>4. CASE UNCHANGED vars
      BY <1>4, OtherPlace, OtherFlow, OtherSize DEF vars, client, network, picture, Expected, Gone
<1> QED BY <1>1, <1>2, <1>3, <1>4 DEF Next, Terminated

LEMMA NextFate == ASSUME IInv, [Next \/ Terminated]_vars PROVE NoUndefinedBehaviour'
<1> USE DEF IInv
<1>1. UNCHANGED App
      BY DEF Next, Progress, Up, Terminated, vars
<1>2. ASSUME NEW t \in Threads, Misstep(t) PROVE NoUndefinedBehaviour'
  <2>1. UNCHANGED at
        BY <1>2 DEF Misstep
  <2>2. CASE Dangling(t) /\ fate' = "dangling"
        BY <2>1, <2>2, NotDangling DEF NoUndefinedBehaviour, Clean
  <2>3. CASE Garbage(t) /\ fate' = "garbage"
        BY <1>1, <2>3, NoGarbage DEF NoUndefinedBehaviour
  <2> QED BY <1>2, <2>2, <2>3 DEF Misstep
<1>3. (\E t \in Threads : Misstep(t)) \/ fate' \in {fate, "killed", "aborted"}
      BY DEF Next, Progress, MainStep, ListenerStep, Connect, StartListener, Connected, Disconnects, Test,
             StopListener, DeleteListener, Finish, Send, ReceiveLength, ReceiveBody, Allocate, Loop,
             UserTypes, TakeFrame, Show, Poll, ListenerReceives, ListenerFails, OnReceive, ThreadLoop,
             ServerSends, ServerLeaves, ResetArrives, Terminated, vars
<1> QED BY <1>1, <1>2, <1>3, OtherFate, StaysUnclean

\* The listener's task is never used after its deletion but by a listener that has ended the
\* connection itself, and nothing is received for something else but under "bcast".
THEOREM NothingUndefined == Spec => []NoUndefinedBehaviour
<1>1. IInv /\ [Next \/ Terminated]_vars => IInv'
      BY NextType, NextTask, NextPlace, NextFate DEF IInv
<1>2. IInv => NoUndefinedBehaviour
      BY DEF IInv
<1> QED BY <1>1, <1>2, InitInv, PTL DEF Spec
=============================================================================
