--------------------------- MODULE TcpServer_proofs ---------------------------
(***************************************************************************)
(* Proofs about TcpServer, for any number of clients, any message counts and  *)
(* any ways of leaving of the peers.                                          *)
(*                                                                         *)
(* IInv holds under the three programs.  Besides the types it says who may   *)
(* be calling on each task and that a thread is at home outside its inner    *)
(* function (TasksOK); which of its three places holds a client object       *)
(* (ListsOK); and that what was read of a connection ends with a whole       *)
(* message but for the one thread between two parts (Aligned).               *)
(*                                                                         *)
(* FInv adds what holds of the video servers only, where nothing calls       *)
(* Update(): who sends to whom (Orderly), the life of each listener's task   *)
(* along its client's (Lives), and one writer per connection (Framed).       *)
(***************************************************************************)
EXTENDS TcpServer, FiniteSetTheorems, TLAPS

\* A step of Spec.
Step == [Next \/ Terminated]_vars

\* Acceptor and Main are two threads, and neither is a client.
LEMMA Apart ==
  /\ Acceptor # Main /\ Acceptor # NoOne /\ Main # NoOne
  /\ Acceptor \notin Clients /\ Main \notin Clients /\ NoOne \notin Clients
<1>1. ASSUME NEW x, NEW y PROVE Cardinality({x, y}) # 3
  <2>1. IsFiniteSet({x}) /\ Cardinality({x}) = 1
        BY FS_Singleton
  <2>2. {x, y} = {x} \cup {y}
        OBVIOUS
  <2> QED BY <2>1, <2>2, FS_AddElement
<1>2. \A x, y : {Acceptor, Main, NoOne} # {x, y}
      BY <1>1, ConstantsAssumption
<1>3. Acceptor # Main
  <2>1. {Acceptor, Main, NoOne} # {Main, NoOne}
        BY <1>2
  <2> QED BY <2>1
<1>4. Acceptor # NoOne
  <2>1. {Acceptor, Main, NoOne} # {Main, NoOne}
        BY <1>2
  <2> QED BY <2>1
<1>5. Main # NoOne
  <2>1. {Acceptor, Main, NoOne} # {Acceptor, Main}
        BY <1>2
  <2> QED BY <2>1
<1> QED BY <1>3, <1>4, <1>5, ConstantsAssumption

-----------------------------------------------------------------------------
(* Which steps write what. *)

LEMMA StepCases ==
  ASSUME Step
  PROVE  \/ UNCHANGED vars
         \/ /\ fate = "up" /\ UNCHANGED App
            /\ \/ Defined(Main) /\ MainStep
               \/ Defined(Acceptor) /\ AcceptorStep
               \/ \E c \in Clients : Defined(c) /\ ListenerStep(c)
               \/ Cast \/ Quit
               \/ \E t \in Threads : Misstep(t)
               \/ \E c \in Clients : PeerStep(c)
  BY Apart DEF Step, Next, Terminated, Progress, Threads

LEMMA Writers ==
  ASSUME Step
  PROVE  /\ UNCHANGED <<mReady, running>> \/ Reserve \/ Start \/ Stop
         /\ listening' = listening \/ listening' \in BOOLEAN
         /\ vec' = vec \/ PushEnds \/ EraseEnds \/ ReleaseReturns
         /\ changing' \in {changing, Main, Acceptor, NoOne}
         /\ UNCHANGED <<mem, fd>> \/ (\E c \in Clients : Accept(c)) \/ DeleteClient
         /\ mError' = mError \/ \E c \in Clients \cup {newcomer} : mError' = [mError EXCEPT ![c] = TRUE]
         /\ UNCHANGED <<peer, sent>> \/ \E c \in Clients : PeerStep(c)
         /\ got' = got \/ ReceiveName \/ \E c \in Clients : ReceiveLength(c) \/ ReceiveBody(c)
         /\ last' = last \/ \E t \in Threads : SendLength(t) \/ SendBody(t)
         /\ newcomer' = newcomer \/ (\E c \in Clients : Accept(c)) \/ AcceptorReturns
         /\ idx' = idx \/ Scan \/ EraseEnds
         /\ doomed' = doomed \/ Scan \/ DeleteClient \/ Stop
         /\ casts' = casts \/ Cast
         /\ fate' = fate \/ (\E t \in Threads : Misstep(t) \/ SendLength(t) \/ SendBody(t))
         /\ App' = App
<1> USE StepCases DEF MainStep, AcceptorStep, ListenerStep, PeerStep, Loop, Send, SendLength, SendBody, PickClient,
   AcceptorStarts, NoConnection, Accept, ReceiveName, ReceivePart, PushBegins, PushEnds, StartListener, AcceptorReturns, 
   NoData, ReceiveLength, ReceiveBody, OnReceiveReturns, ListenerFails, Reserve, Start, Cast, Quit, Scan, EraseBegins, EraseEnds, ReleaseReturns, Announce, UpdateReturns, StopListener, DeleteClient, Stop, Connect, PeerSends, PeerLeaves, Misstep, vars, server, objects, network, control
<1>1. UNCHANGED <<mReady, running>> \/ Reserve \/ Start \/ Stop
      OBVIOUS
<1>2. listening' = listening \/ listening' \in BOOLEAN
      OBVIOUS
<1>3. vec' = vec \/ PushEnds \/ EraseEnds \/ ReleaseReturns
      OBVIOUS
<1>4. changing' \in {changing, Main, Acceptor, NoOne}
      OBVIOUS
<1>5. UNCHANGED <<mem, fd>> \/ (\E c \in Clients : Accept(c)) \/ DeleteClient
      OBVIOUS
<1>6. mError' = mError \/ \E c \in Clients \cup {newcomer} : mError' = [mError EXCEPT ![c] = TRUE]
      OBVIOUS
<1>7. UNCHANGED <<peer, sent>> \/ \E c \in Clients : PeerStep(c)
      OBVIOUS
<1>8. got' = got \/ ReceiveName \/ \E c \in Clients : ReceiveLength(c) \/ ReceiveBody(c)
      OBVIOUS
<1>9. last' = last \/ \E t \in Threads : SendLength(t) \/ SendBody(t)
      BY DEF Threads
<1>10. newcomer' = newcomer \/ (\E c \in Clients : Accept(c)) \/ AcceptorReturns
      OBVIOUS
<1>11. idx' = idx \/ Scan \/ EraseEnds
      OBVIOUS
<1>12. doomed' = doomed \/ Scan \/ DeleteClient \/ Stop
      OBVIOUS
<1>13. casts' = casts \/ Cast
      OBVIOUS
<1>14. fate' = fate \/ (\E t \in Threads : Misstep(t) \/ SendLength(t) \/ SendBody(t))
      BY DEF Threads
<1>15. App' = App
      OBVIOUS
<1> QED BY <1>1, <1>2, <1>3, <1>4, <1>5, <1>6, <1>7, <1>8, <1>9, <1>10, <1>11, <1>12, <1>13,
           <1>14, <1>15
-----------------------------------------------------------------------------
(* Types, by groups of variables. *)

\* A message being sent: to a client, or to all from the first of the vector on.
MessageOK(w) ==
  /\ w \in Writes
  /\ w.step = "none" => w = Nothing
  /\ w.step # "none" => w.kind \in Kinds
  /\ w.step \in {"len", "body"} => w.to \in Clients
  /\ w.all => w.i >= 1
  /\ w.step = "pick" => w.all

ServerTypes ==
  /\ mReady \in BOOLEAN /\ running \in BOOLEAN /\ listening \in BOOLEAN
  /\ vec \in Seq(Clients) /\ changing \in {Main, Acceptor, NoOne}

ObjectTypes ==
  /\ mem \in [Clients -> {"none", "live", "deleted"}]
  /\ fd \in [Clients -> {"none", "open", "bad", "closed"}]
  /\ mError \in [Clients -> BOOLEAN]

NetworkTypes ==
  /\ peer \in [Clients -> {"idle", "open", "mute", "closed", "reset"}]
  /\ sent \in [Clients -> Nat] /\ got \in [Clients -> Nat]
  /\ \A c \in Clients : got[c] <= sent[c] /\ sent[c] <= MaxSent(c)

\* A peer that is still there has sent whole messages.
WholeMessages == \A c \in Clients : peer[c] \in {"idle", "open"} => sent[c] % 2 = 0

LastTypes == last \in [Clients -> Chunks \cup {NoChunk}]

PositionTypes ==
  /\ at \in [Threads -> MainAt \cup AcceptorAt \cup ListenerAt]
  /\ at[Main] \in MainAt /\ at[Acceptor] \in AcceptorAt
  /\ \A c \in Clients : at[c] \in ListenerAt

NewcomerTypes ==
  /\ newcomer \in Clients \cup {NoOne}
  /\ at[Acceptor] = "poll" <=> newcomer = NoOne

WritingTypes ==
  /\ writing \in [Threads -> Writes]
  /\ \A t \in Threads : MessageOK(writing[t])

LoopTypes ==
  /\ idx \in Nat \ {0} /\ doomed \in Seq(Clients) /\ casts \in 0..MaxCasts
  /\ at[Main] \in {"dropping", "releasing"} => doomed # <<>>

FateTypes == fate \in {"up", "killed", "dangling", "garbage", "torn"}

Typed ==
  /\ App \in Apps /\ TP!TypeOK /\ ServerTypes /\ ObjectTypes /\ NetworkTypes
  /\ WholeMessages /\ LastTypes /\ PositionTypes /\ NewcomerTypes /\ WritingTypes
  /\ LoopTypes /\ FateTypes

LEMMA InitTyped == Init => Typed
<1> SUFFICES ASSUME Init PROVE Typed
    OBVIOUS
<1>1. TP!TypeOK
      BY DEF Init, TP!Init, TP!TypeOK, TP!Positions, TP!Calls
<1>2. ServerTypes
  <2>1. vec \in Seq(Clients) /\ changing \in {Main, Acceptor, NoOne}
        BY DEF Init
  <2> QED BY <2>1 DEF Init, ServerTypes
<1>7. ObjectTypes
      BY DEF Init, ObjectTypes
<1>8. LastTypes /\ FateTypes /\ App \in Apps
      BY DEF Init, LastTypes, FateTypes
<1>3. NetworkTypes /\ WholeMessages
      BY ConstantsAssumption DEF Init, NetworkTypes, WholeMessages, MaxSent
<1>4. PositionTypes /\ NewcomerTypes
      BY Apart DEF Init, PositionTypes, NewcomerTypes, Threads, MainAt, AcceptorAt, ListenerAt
<1>5. WritingTypes
      BY DEF Init, WritingTypes, MessageOK, Nothing, Writes
<1>6. LoopTypes
      BY ConstantsAssumption, Apart DEF Init, LoopTypes, Threads
<1> QED BY <1>1, <1>2, <1>3, <1>4, <1>5, <1>6, <1>7, <1>8 DEF Typed

\* The messages that are begun.
LEMMA Messages ==
  /\ MessageOK(Nothing) /\ Nothing.step = "none" /\ ~Nothing.all
  /\ \A c \in Clients, k \in Kinds :
       /\ MessageOK(ToOne(c, k)) /\ ToOne(c, k).step = "len" /\ ToOne(c, k).to = c
       /\ ToOne(c, k).kind = k /\ ~ToOne(c, k).all
  /\ \A k \in Kinds : MessageOK(ToAll(k)) /\ ToAll(k).step = "pick" /\ ToAll(k).kind = k /\ ToAll(k).all
  BY DEF MessageOK, Nothing, ToOne, ToAll, Writes, Kinds

\* How a step of Send moves the message on.
Sent(t, m) ==
  /\ MessageOK(m) /\ writing' = [writing EXCEPT ![t] = m] /\ at' = at
  /\ writing[t].step # "none"
  /\ m.step # "none" => m.kind = writing[t].kind /\ (m.all <=> writing[t].all)

LEMMA SendMoves ==
  ASSUME Typed, NEW t \in Threads
  PROVE  /\ SendLength(t) =>
              \E m : Sent(t, m) /\ writing[t].step = "len" /\ m.step = "body" /\ m.to = writing[t].to
         /\ SendBody(t) =>
              \E m : /\ Sent(t, m) /\ writing[t].step = "body"
                     /\ IF writing[t].all THEN m.step = "pick" ELSE m = Nothing
         /\ PickClient(t) =>
              \E m : /\ Sent(t, m) /\ writing[t].step = "pick"
                     /\ m = Nothing \/ (m.step = "len" /\ m.to \in Range(vec))
<1> USE DEF Typed, WritingTypes, MessageOK, Sent
<1>1. ASSUME SendLength(t)
      PROVE \E m : Sent(t, m) /\ writing[t].step = "len" /\ m.step = "body" /\ m.to = writing[t].to
  <2> DEFINE m == [writing[t] EXCEPT !.step = "body"]
  <2>1. writing' = [writing EXCEPT ![t] = m] /\ at' = at /\ writing[t].step = "len"
        BY <1>1 DEF SendLength
  <2>2. MessageOK(m) /\ m.step = "body" /\ m.to = writing[t].to /\ m.kind = writing[t].kind /\ (m.all <=> writing[t].all)
        BY <2>1 DEF Writes
  <2> QED BY <2>1, <2>2
<1>2. ASSUME SendBody(t)
      PROVE \E m : /\ Sent(t, m) /\ writing[t].step = "body"
                   /\ IF writing[t].all THEN m.step = "pick" ELSE m = Nothing
  <2> DEFINE w == writing[t]
             n == [w EXCEPT !.step = "pick", !.i = w.i + 1, !.to = NoOne]
             m == IF w.all THEN n ELSE Nothing
  <2>1. writing' = [writing EXCEPT ![t] = m] /\ at' = at /\ w.step = "body"
        BY <1>2 DEF SendBody
  <2>2. w \in Writes /\ w.kind \in Kinds
        BY <2>1
  <2>3. CASE w.all
    <3>1. m = n
          BY <2>3
    <3>2. w.i \in Nat /\ w.all = TRUE
          BY <2>2, <2>3 DEF Writes
    <3>5. w.i + 1 \in Nat /\ w.i + 1 >= 1
          BY <3>2
    <3>3. n \in Writes /\ n.step = "pick" /\ n.i = w.i + 1 /\ n.kind = w.kind /\ n.all = w.all
          BY <2>2, <3>5 DEF Writes
    <3>4. MessageOK(m)
          BY <2>2, <3>1, <3>2, <3>3
    <3> QED BY <2>1, <2>3, <3>1, <3>3, <3>4
  <2>4. CASE ~w.all
        BY <2>1, <2>4, Messages
  <2> QED BY <2>3, <2>4
<1>3. ASSUME PickClient(t)
      PROVE \E m : /\ Sent(t, m) /\ writing[t].step = "pick"
                   /\ m = Nothing \/ (m.step = "len" /\ m.to \in Range(vec))
  <2> DEFINE w == writing[t]
             m == IF w.i <= Len(vec) THEN [w EXCEPT !.step = "len", !.to = vec[w.i]] ELSE Nothing
  <2>1. writing' = [writing EXCEPT ![t] = m] /\ at' = at /\ w.step = "pick"
        BY <1>3 DEF PickClient, control
  <2>2. w \in Writes /\ w.all /\ w.i >= 1 /\ w.i \in Nat /\ w.kind \in Kinds
        BY <2>1 DEF Writes
  <2>3. CASE w.i <= Len(vec)
    <3>1. vec[w.i] \in Range(vec) /\ vec[w.i] \in Clients
          BY <2>2, <2>3 DEF Range, ServerTypes
    <3>2. m = [w EXCEPT !.step = "len", !.to = vec[w.i]]
          BY <2>3
    <3>3. MessageOK(m) /\ m.step = "len" /\ m.to = vec[w.i] /\ m.kind = w.kind /\ m.all = w.all
          BY <2>2, <3>1, <3>2 DEF Writes
    <3> QED BY <2>1, <3>1, <3>3
  <2>4. CASE ~(w.i <= Len(vec))
        BY <2>1, <2>4, Messages
  <2> QED BY <2>3, <2>4
<1> QED BY <1>1, <1>2, <1>3
-----------------------------------------------------------------------------
(* A step moves one thread. *)

PlaceOf(t) == IF t = Main THEN MainAt ELSE IF t = Acceptor THEN AcceptorAt ELSE ListenerAt

Move(t) == \E p \in PlaceOf(t) : \E m : Goto(t, p, m) /\ MessageOK(m)

LEMMA Still ==
  ASSUME Typed, NEW t \in Threads, UNCHANGED <<at, writing>>
  PROVE  Move(t)
<1>1. at[t] \in PlaceOf(t) /\ MessageOK(writing[t])
      BY DEF Typed, PositionTypes, WritingTypes, PlaceOf, Threads
<1>2. Goto(t, at[t], writing[t])
      BY DEF Goto, Typed, PositionTypes, WritingTypes
<1> QED BY <1>1, <1>2 DEF Move

LEMMA SendMove ==
  ASSUME Typed, NEW t \in Threads, Send(t)
  PROVE  Move(t)
<1>1. PICK m : Sent(t, m)
      BY SendMoves DEF Send
<1>2. Goto(t, at[t], m) /\ at[t] \in PlaceOf(t)
      BY <1>1 DEF Sent, Goto, Typed, PositionTypes, PlaceOf, Threads
<1> QED BY <1>1, <1>2 DEF Move, Sent

LEMMA MainMoves ==
  ASSUME Typed, MainStep \/ Cast \/ Quit
  PROVE  Move(Main) /\ newcomer' = newcomer
<1>1. CASE Send(Main)
  <2>1. newcomer' = newcomer
        BY <1>1 DEF Send, SendLength, SendBody, PickClient
  <2> QED BY <1>1, <2>1, SendMove DEF Threads
<1>2. CASE UNCHANGED <<at, writing>> /\ Scan
      BY <1>2, Still DEF Threads, Scan
<1>3. CASE (MainStep \/ Cast \/ Quit) /\ ~Send(Main) /\ ~(UNCHANGED <<at, writing>> /\ Scan)
  <2>1. newcomer' = newcomer /\ \E p \in MainAt, m \in {Nothing, ToAll("cast"), ToAll("chat")} : Goto(Main, p, m)
        BY <1>3 DEF MainStep, Reserve, Start, Scan, EraseBegins, EraseEnds, Announce, UpdateReturns,
             StopListener, DeleteClient, Stop, ReleaseReturns, Cast, Quit, MainGoes, MainAt
  <2>2. PlaceOf(Main) = MainAt
        BY DEF PlaceOf
  <2>3. \A m \in {Nothing, ToAll("cast"), ToAll("chat")} : MessageOK(m)
        BY Messages DEF Kinds
  <2> QED BY <2>1, <2>2, <2>3 DEF Move
<1> QED BY <1>1, <1>2, <1>3 DEF MainStep

LEMMA AcceptorMoves == ASSUME Typed, AcceptorStep PROVE Move(Acceptor) /\ NewcomerTypes'
<1> USE Apart DEF Typed, NewcomerTypes, PositionTypes
<1>0. Acceptor \in Threads /\ PlaceOf(Acceptor) = AcceptorAt
      BY DEF Threads, PlaceOf
<1>1. CASE Send(Acceptor)
  <2>1. newcomer' = newcomer /\ at' = at
        BY <1>1 DEF Send, SendLength, SendBody, PickClient
  <2> QED BY <1>0, <1>1, <2>1, SendMove
<1>2. CASE Loop(Acceptor) \/ AcceptorStarts \/ NoConnection
      BY <1>0, <1>2, Still DEF Loop, AcceptorStarts, NoConnection, control
<1>3. ASSUME NEW c \in Clients, Accept(c) PROVE Move(Acceptor) /\ NewcomerTypes'
  <2>1. newcomer' = c /\ \E p \in {"hello", "push"}, m \in {Nothing, ToOne(c, "size")} : Goto(Acceptor, p, m)
        BY <1>3 DEF Accept
  <2>2. at'[Acceptor] \in {"hello", "push"}
        BY <1>0, <2>1 DEF Goto
  <2>3. \A m \in {Nothing, ToOne(c, "size")} : MessageOK(m)
        BY Messages DEF Kinds
  <2> QED BY <1>0, <2>1, <2>2, <2>3 DEF Move, AcceptorAt
<1>4. CASE ReceiveName \/ PushBegins \/ PushEnds \/ StartListener
  <2>1. /\ newcomer' = newcomer /\ at[Acceptor] # "poll"
        /\ \E p \in AcceptorAt \ {"poll"}, m \in {Nothing, ToAll("chat")} : Goto(Acceptor, p, m)
        BY <1>4 DEF ReceiveName, ReceivePart, PushBegins, PushEnds, StartListener, At, AcceptorAt
  <2>2. at'[Acceptor] # "poll"
        BY <1>0, <2>1 DEF Goto
  <2>3. \A m \in {Nothing, ToAll("chat")} : MessageOK(m)
        BY Messages DEF Kinds
  <2> QED BY <1>0, <2>1, <2>2, <2>3 DEF Move
<1>5. CASE AcceptorReturns
  <2>1. newcomer' = NoOne /\ Goto(Acceptor, "poll", Nothing)
        BY <1>5 DEF AcceptorReturns
  <2>2. at'[Acceptor] = "poll"
        BY <1>0, <2>1 DEF Goto
  <2> QED BY <1>0, <2>1, <2>2, Messages DEF Move, AcceptorAt
<1> QED BY <1>1, <1>2, <1>3, <1>4, <1>5 DEF AcceptorStep

LEMMA ListenerMoves ==
  ASSUME Typed, NEW c \in Clients, ListenerStep(c)
  PROVE  Move(c) /\ newcomer' = newcomer
<1>0. c \in Threads /\ PlaceOf(c) = ListenerAt
      BY Apart DEF Threads, PlaceOf
<1>1. CASE Send(c)
  <2>1. newcomer' = newcomer
        BY <1>1 DEF Send, SendLength, SendBody, PickClient
  <2> QED BY <1>0, <1>1, <2>1, SendMove
<1>2. CASE Loop(c) \/ NoData(c)
      BY <1>0, <1>2, Still DEF Loop, NoData, control
<1>3. CASE ReceiveLength(c) \/ ReceiveBody(c) \/ OnReceiveReturns(c) \/ ListenerFails(c)
  <2>1. newcomer' = newcomer /\ \E p \in ListenerAt, m \in {Nothing, ToAll("chat"), ToOne(c, "reply")} : Goto(c, p, m)
        BY <1>3 DEF ReceiveLength, ReceiveBody, OnReceiveReturns, ListenerFails, ListenerAt
  <2>2. \A m \in {Nothing, ToAll("chat"), ToOne(c, "reply")} : MessageOK(m)
        BY Messages DEF Kinds
  <2> QED BY <1>0, <2>1, <2>2 DEF Move
<1> QED BY <1>1, <1>2, <1>3 DEF ListenerStep

LEMMA OthersStill ==
  ASSUME UNCHANGED vars \/ (\E t \in Threads : Misstep(t)) \/ (\E c \in Clients : PeerStep(c))
  PROVE  UNCHANGED <<tasks, server, objects, control>> /\ (UNCHANGED network \/ \E c \in Clients : PeerStep(c))
  BY DEF vars, Misstep, PeerStep, Connect, PeerSends, PeerLeaves, network

\* What a move leaves alone.
LEMMA OneMoves ==
  ASSUME Typed, NEW t \in Threads, Move(t)
  PROVE  /\ PositionTypes' /\ WritingTypes'
         /\ \A u \in Threads : u # t => at'[u] = at[u] /\ writing'[u] = writing[u]
<1> USE DEF Typed, PositionTypes, WritingTypes
<1>1. PICK p, m : p \in PlaceOf(t) /\ Goto(t, p, m) /\ MessageOK(m)
      BY DEF Move
<1>2. at' = [at EXCEPT ![t] = p] /\ writing' = [writing EXCEPT ![t] = m]
      BY <1>1 DEF Goto
<1>3. \A u \in Threads : /\ u # t => at'[u] = at[u] /\ writing'[u] = writing[u]
                         /\ u = t => at'[u] = p /\ writing'[u] = m
      BY <1>2
<1>4. WritingTypes'
      BY <1>1, <1>2, <1>3 DEF MessageOK
<1>5. PositionTypes'
      BY <1>1, <1>2, <1>3, Apart DEF PlaceOf, Threads
<1> QED BY <1>3, <1>4, <1>5
-----------------------------------------------------------------------------
(* What the steps of each thread do to the tasks. *)

LEMMA MainTasks ==
  ASSUME Typed, MainStep \/ Cast \/ Quit
  PROVE  \/ UNCHANGED tasks
         \/ (Start \/ Stop) /\ TP!Owner(Acceptor)
         \/ /\ StopListener
            /\ doomed # <<>> /\ (TP!ClearRunning(Head(doomed)) \/ TP!Join(Head(doomed)))
         \/ DeleteClient
<1>1. CASE Send(Main)
      BY <1>1 DEF Send, SendLength, SendBody, PickClient
<1>2. CASE Start \/ Stop
      BY <1>2 DEF Start, Stop, TP!Owner, tasks
<1>3. CASE StopListener
      BY <1>3 DEF StopListener, Typed, LoopTypes, At
<1>4. CASE (MainStep \/ Cast \/ Quit) /\ ~Send(Main) /\ ~Start /\ ~Stop /\ ~StopListener
      BY <1>4 DEF MainStep, Reserve, Scan, EraseBegins, EraseEnds, Announce, UpdateReturns,
             ReleaseReturns, Cast, Quit
<1> QED BY <1>1, <1>2, <1>3, <1>4

LEMMA AcceptorTasks ==
  ASSUME Typed, AcceptorStep
  PROVE  \/ UNCHANGED tasks
         \/ TP!Thread(Acceptor)
         \/ /\ StartListener /\ newcomer \in Clients
            /\ TP!New(newcomer) \/ TP!Create(newcomer) \/ TP!CreateFails(newcomer) \/ TP!SetRunning(newcomer)
<1>1. CASE Send(Acceptor)
      BY <1>1 DEF Send, SendLength, SendBody, PickClient
<1>2. CASE Loop(Acceptor) \/ AcceptorStarts \/ NoConnection \/ AcceptorReturns
      BY <1>2, Apart DEF Loop, AcceptorStarts, NoConnection, AcceptorReturns, TP!Thread
<1>3. CASE StartListener
      BY <1>3 DEF StartListener, Typed, NewcomerTypes, At
<1>4. CASE ReceiveName \/ PushBegins \/ PushEnds \/ \E c \in Clients : Accept(c)
      BY <1>4 DEF ReceiveName, ReceivePart, PushBegins, PushEnds, Accept
<1> QED BY <1>1, <1>2, <1>3, <1>4 DEF AcceptorStep

LEMMA ListenerTasks ==
  ASSUME NEW c \in Clients, ListenerStep(c)
  PROVE  UNCHANGED tasks \/ TP!Thread(c)
  BY DEF ListenerStep, Send, SendLength, SendBody, PickClient, Loop, NoData, ReceiveLength,
         ReceiveBody, OnReceiveReturns, ListenerFails, TP!Thread

-----------------------------------------------------------------------------
(* Every step keeps the types. *)

LEMMA HeadTail ==
  ASSUME NEW S, NEW s \in Seq(S), s # <<>>
  PROVE  /\ Head(s) \in S /\ Tail(s) \in Seq(S) /\ Head(s) \in Range(s)
         /\ Len(s) \in Nat /\ Len(s) >= 1 /\ Len(Tail(s)) = Len(s) - 1
         /\ \A i \in 1..(Len(s) - 1) : Tail(s)[i] = s[i + 1]
         /\ Head(s) = s[1]
  BY DEF Range

LEMMA OwnerType ==
  ASSUME TP!TypeOK, NEW t \in Tasks, TP!Owner(t) \/ TP!Thread(t)
  PROVE  TP!TypeOK'
  BY DEF TP!TypeOK, TP!Owner, TP!Thread, TP!New, TP!Create, TP!CreateFails, TP!SetRunning,
         TP!ClearRunning, TP!Join, TP!Delete, TP!StartFunction, TP!LoopTest, TP!StopFunction,
         TP!InnerReturns, TP!InnerFails, TP!vars, TP!Positions, TP!Calls

LEMMA TaskTypes == ASSUME Typed, Step PROVE TP!TypeOK'
<1> USE DEF Typed
<1>1. CASE UNCHANGED tasks
      BY <1>1 DEF tasks, TP!TypeOK
<1>2. CASE MainStep \/ Cast \/ Quit
  <2>1. CASE DeleteClient
    <3>1. doomed # <<>>
          BY <2>1 DEF DeleteClient
    <3>2. Head(doomed) \in Tasks
          BY <3>1, HeadTail DEF LoopTypes, Tasks
    <3> QED BY <2>1, <3>2 DEF DeleteClient, TP!TypeOK, TP!Calls
  <2>2. CASE doomed # <<>> /\ (TP!ClearRunning(Head(doomed)) \/ TP!Join(Head(doomed)))
    <3>1. Head(doomed) \in Tasks
          BY <2>2, HeadTail DEF LoopTypes, Tasks
    <3> QED BY <2>2, <3>1, OwnerType DEF TP!Owner
  <2> QED BY <1>1, <1>2, <2>1, <2>2, MainTasks, OwnerType DEF Tasks
<1>3. CASE AcceptorStep
      BY <1>1, <1>3, AcceptorTasks, OwnerType DEF Tasks, TP!Owner
<1>4. ASSUME NEW c \in Clients, ListenerStep(c) PROVE TP!TypeOK'
      BY <1>1, <1>4, ListenerTasks, OwnerType DEF Tasks
<1> QED BY <1>1, <1>2, <1>3, <1>4, StepCases, OthersStill

\* One place of the vector less.
LEMMA Shorter ==
  ASSUME NEW S, NEW s \in Seq(S), NEW k \in 1..Len(s), NEW t,
         t = [i \in 1..(Len(s) - 1) |-> s[IF i < k THEN i ELSE i + 1]]
  PROVE  /\ t \in Seq(S) /\ Len(t) = Len(s) - 1
         /\ \A i \in 1..(Len(s) - 1) : t[i] = s[IF i < k THEN i ELSE i + 1]
  OBVIOUS

LEMMA ServerTyped == ASSUME Typed, Step PROVE ServerTypes'
<1> USE DEF Typed, ServerTypes
<1>1. mReady' \in BOOLEAN /\ running' \in BOOLEAN
  <2>1. CASE UNCHANGED <<mReady, running>>
        BY <2>1
  <2>2. CASE Reserve \/ Start \/ Stop
        BY <2>2 DEF Reserve, Start, Stop
  <2> QED BY <2>1, <2>2, Writers
<1>2. vec' \in Seq(Clients)
  <2>1. CASE PushEnds
    <3>1. newcomer \in Clients
          BY <2>1 DEF PushEnds, At, NewcomerTypes
    <3> QED BY <2>1, <3>1 DEF PushEnds
  <2>2. CASE EraseEnds
    <3>1. PICK k \in 1..Len(vec) : vec' = [i \in 1..(Len(vec) - 1) |-> vec[IF i < k THEN i ELSE i + 1]]
          BY <2>2 DEF EraseEnds
    <3> QED BY <3>1, Shorter
  <2>3. CASE ReleaseReturns
        BY <2>3 DEF ReleaseReturns
  <2> QED BY <2>1, <2>2, <2>3, Writers
<1>3. listening' \in BOOLEAN
      BY Writers
<1>4. changing' \in {Main, Acceptor, NoOne}
      BY Writers
<1> QED BY <1>1, <1>2, <1>3, <1>4

LEMMA ObjectTyped == ASSUME Typed, Step PROVE ObjectTypes'
<1> USE DEF Typed, ObjectTypes
<1>1. mem' \in [Clients -> {"none", "live", "deleted"}] /\ fd' \in [Clients -> {"none", "open", "bad", "closed"}]
  <2>1. CASE UNCHANGED <<mem, fd>>
        BY <2>1
  <2>2. CASE \E c \in Clients : Accept(c)
        BY <2>2 DEF Accept
  <2>3. CASE DeleteClient
        BY <2>3 DEF DeleteClient
  <2> QED BY <2>1, <2>2, <2>3, Writers
<1>2. mError' \in [Clients -> BOOLEAN]
      BY Writers
<1> QED BY <1>1, <1>2

LEMMA NetworkTyped == ASSUME Typed, Step PROVE NetworkTypes' /\ WholeMessages'
<1> USE DEF Typed, NetworkTypes, WholeMessages
<1>0. App' = App
      BY Writers
<1>1. CASE got' = got
  <2>1. CASE UNCHANGED <<peer, sent>>
        BY <1>0, <1>1, <2>1 DEF MaxSent
  <2>2. ASSUME NEW c \in Clients, PeerStep(c) PROVE NetworkTypes' /\ WholeMessages'
    <3>0. MaxSent(c) \in Nat /\ MaxSent(c) % 2 = 0 /\ \A d \in Clients : MaxSent(d)' = MaxSent(d)
          BY <1>0, ConstantsAssumption DEF MaxSent
    <3>1. CASE Connect(c)
          BY <1>0, <1>1, <3>0, <3>1 DEF Connect
    <3>2. CASE PeerSends(c)
          BY <1>0, <1>1, <3>0, <3>2 DEF PeerSends
    <3>3. CASE PeerLeaves(c)
      <4>1. PICK how \in {"mute", "closed", "reset"} : peer' = [peer EXCEPT ![c] = how]
            BY <3>3, ConstantsAssumption DEF PeerLeaves
      <4>2. sent' = sent \/ (sent[c] < MaxSent(c) /\ sent' = [sent EXCEPT ![c] = @ + 1])
            BY <3>3 DEF PeerLeaves
      <4>3. /\ sent' \in [Clients -> Nat]
            /\ \A d \in Clients : sent[d] <= sent'[d] /\ sent'[d] <= MaxSent(d)
            BY <3>0, <4>2
      <4>4. \A d \in Clients : d # c => sent'[d] = sent[d] /\ peer'[d] = peer[d]
            BY <4>1, <4>2
      <4>5. /\ peer' \in [Clients -> {"idle", "open", "mute", "closed", "reset"}]
            /\ peer'[c] \notin {"idle", "open"}
            BY <4>1
      <4>6. WholeMessages'
            BY <4>4, <4>5
      <4>7. \A d \in Clients : got'[d] <= sent'[d] /\ got' \in [Clients -> Nat]
            BY <1>1, <4>3
      <4> QED BY <3>0, <4>3, <4>5, <4>6, <4>7
    <3> QED BY <2>2, <3>1, <3>2, <3>3 DEF PeerStep
  <2> QED BY <2>1, <2>2, Writers
<1>2. CASE ReceiveName \/ \E c \in Clients : ReceiveLength(c) \/ ReceiveBody(c)
  <2>1. UNCHANGED <<peer, sent>>
        BY <1>2 DEF ReceiveName, ReceivePart, ReceiveLength, ReceiveBody
  <2>2. \A d \in Clients : MaxSent(d)' = MaxSent(d)
        BY <1>0 DEF MaxSent
  <2>3. got' = got \/ \E c \in Clients : got[c] < sent[c] /\ got' = [got EXCEPT ![c] = @ + 1]
        BY <1>2 DEF ReceiveName, ReceivePart, ReceiveLength, ReceiveBody, At, NewcomerTypes
  <2> QED BY <2>1, <2>2, <2>3
<1> QED BY <1>1, <1>2, Writers

LEMMA LastTyped == ASSUME Typed, Step PROVE LastTypes'
<1>1. ASSUME NEW t \in Threads, SendLength(t) \/ SendBody(t) PROVE LastTypes'
  <2>1. writing[t].kind \in Kinds /\ writing[t].to \in Clients
        BY <1>1 DEF Typed, WritingTypes, MessageOK, SendLength, SendBody
  <2>2. \A part \in {"len", "body"} : [by |-> t, part |-> part, kind |-> writing[t].kind] \in Chunks
        BY <2>1 DEF Chunks
  <2>3. last' = last \/ \E part \in {"len", "body"} :
           last' = [last EXCEPT ![writing[t].to] = [by |-> t, part |-> part, kind |-> writing[t].kind]]
        BY <1>1 DEF SendLength, SendBody, SocketSend
  <2> QED BY <2>1, <2>2, <2>3 DEF Typed, LastTypes
<1> QED BY <1>1, Writers DEF Typed, LastTypes

LEMMA LoopTyped == ASSUME Typed, Step PROVE LoopTypes'
<1> USE DEF Typed, LoopTypes
<1>1. idx' \in Nat \ {0}
      BY Writers DEF Scan, EraseEnds
<1>2. casts' \in 0..MaxCasts
      BY Writers, ConstantsAssumption DEF Cast
<1>3. doomed' \in Seq(Clients)
  <2>1. CASE Scan
    <3>1. idx <= Len(vec) => vec[idx] \in Clients
          BY DEF ServerTypes
    <3>2. doomed' = doomed \/ (idx <= Len(vec) /\ doomed' = Append(doomed, vec[idx]))
          BY <2>1 DEF Scan
    <3> QED BY <3>1, <3>2
  <2>2. CASE DeleteClient
        BY <2>2, HeadTail DEF DeleteClient
  <2>3. CASE Stop
        BY <2>3 DEF Stop, ServerTypes
  <2> QED BY <2>1, <2>2, <2>3, Writers
<1>4. at'[Main] \in {"dropping", "releasing"} => doomed' # <<>>
  <2>1. CASE at'[Main] = at[Main] /\ doomed' = doomed
        BY <2>1
  <2>2. CASE MainStep \/ Cast \/ Quit
    <3>1. CASE Send(Main)
          BY <2>1, <3>1 DEF Send, SendLength, SendBody, PickClient
    <3>2. CASE StopListener
          BY <3>2 DEF StopListener, MainGoes, Goto, PositionTypes, Threads
    <3>3. CASE Scan
          BY <3>3 DEF Scan, MainGoes, Goto, PositionTypes, Threads, At
    <3>4. CASE (MainStep \/ Cast \/ Quit) /\ ~Send(Main) /\ ~StopListener /\ ~Scan
          BY <3>4 DEF MainStep, Reserve, Start, EraseBegins, EraseEnds, Announce, UpdateReturns,
             DeleteClient, Stop, ReleaseReturns, Cast, Quit, MainGoes, Goto, PositionTypes, Threads
    <3> QED BY <2>2, <3>1, <3>2, <3>3, <3>4
  <2>3. CASE AcceptorStep
    <3>1. doomed' = doomed
          BY <2>3 DEF AcceptorStep, Loop, AcceptorStarts, NoConnection, Accept, ReceiveName, ReceivePart, PushBegins,
              PushEnds, StartListener, AcceptorReturns, Send, SendLength, SendBody, PickClient, control
    <3> QED BY <2>1, <2>3, <3>1, AcceptorMoves, OneMoves, Apart DEF Threads
  <2>4. ASSUME NEW c \in Clients, ListenerStep(c) PROVE at'[Main] = at[Main] /\ doomed' = doomed
    <3>1. doomed' = doomed
          BY <2>4 DEF ListenerStep, Loop, NoData, ReceiveLength, ReceiveBody, OnReceiveReturns, ListenerFails,
              Send, SendLength, SendBody, PickClient, control
    <3> QED BY <2>4, <3>1, ListenerMoves, OneMoves, Apart DEF Threads
  <2> QED BY <2>1, <2>2, <2>3, <2>4, StepCases, OthersStill DEF control
<1> QED BY <1>1, <1>2, <1>3, <1>4

LEMMA FateTyped == ASSUME Typed, Step PROVE FateTypes'
  BY Writers DEF Typed, FateTypes, Misstep, SendLength, SendBody, SocketSend

LEMMA NextTyped == ASSUME Typed, Step PROVE Typed'
<1>1. PositionTypes' /\ WritingTypes' /\ NewcomerTypes'
  <2>1. CASE MainStep \/ Cast \/ Quit
        BY <2>1, MainMoves, OneMoves, Apart DEF Threads, Typed, NewcomerTypes
  <2>2. CASE AcceptorStep
        BY <2>2, AcceptorMoves, OneMoves DEF Threads
  <2>3. ASSUME NEW c \in Clients, ListenerStep(c) PROVE PositionTypes' /\ WritingTypes' /\ NewcomerTypes'
        BY <2>3, ListenerMoves, OneMoves, Apart DEF Threads, Typed, NewcomerTypes
  <2>4. CASE UNCHANGED control
        BY <2>4 DEF control, Typed, PositionTypes, WritingTypes, NewcomerTypes
  <2> QED BY <2>1, <2>2, <2>3, <2>4, StepCases, OthersStill
<1>2. App' = App
      BY Writers
<1> QED BY <1>1, <1>2, TaskTypes, ServerTyped, ObjectTyped, NetworkTyped, LastTyped, LoopTyped, FateTyped
        DEF Typed
-----------------------------------------------------------------------------
(* The accept task has one owner, Main, and its thread outlives none of the   *)
(* calls of Stop(); a listener's thread is created once, by the acceptor.      *)

AcceptTask ==
  /\ at[Main] \in {"reserve", "start"} => call[Acceptor] = "absent" /\ ~running
  /\ at[Main] = "create" => call[Acceptor] = "idle" /\ ~running
  /\ at[Main] = "created" => call[Acceptor] = "starting" /\ ~running
  /\ at[Main] \in {"loop", "scan", "erase", "erasing", "announce", "drop", "dropping", "stop"} =>
       call[Acceptor] = (IF running THEN "idle" ELSE "absent")
  /\ at[Main] = "join" => call[Acceptor] = "stopping" /\ running
  /\ at[Main] \in {"release", "releasing", "done"} => call[Acceptor] \in {"absent", "deleted"}

\* ThreadedProcess's FlagTellsThread, for one task.
FlagOf(t) ==
  /\ call[t] = "idle" => (mRunning[t] <=> pc[t] # "none")
  /\ call[t] \in {"starting", "stopping"} => ~mRunning[t] /\ pc[t] # "none"
  /\ call[t] \in {"absent", "deleted"} => ~mRunning[t] /\ pc[t] = "none"

\* A task's thread is at a position of its own only inside threadInnerFunction.
AtHome(t) == pc[t] # "inner" => At(t, "poll")

Unstarted == {"hello", "name", "push", "pushing", "listen"}

ListenerTask(c) ==
  /\ call[c] = "absent" => pc[c] = "none"
  /\ mem[c] = "none" => c # newcomer /\ call[c] = "absent"
  /\ c = newcomer /\ at[Acceptor] \in Unstarted => call[c] = "absent"
  /\ c = newcomer /\ at[Acceptor] = "create" => pc[c] = "none" /\ ~mRunning[c]

TasksOK ==
  /\ AcceptTask /\ FlagOf(Acceptor)
  /\ \A t \in Tasks : AtHome(t)
  /\ \A c \in Clients : ListenerTask(c)

LEMMA InitTasks == Init => TasksOK
  BY Apart DEF Init, TasksOK, AcceptTask, FlagOf, AtHome, At, ListenerTask, TP!Init, Tasks, Threads, Unstarted

\* Where a thread is after Goto, and the others.
LEMMA Gone ==
  ASSUME Typed, NEW t \in Threads, NEW p, NEW m, Goto(t, p, m)
  PROVE  /\ at'[t] = p /\ writing'[t] = m
         /\ \A u \in Threads : u # t => at'[u] = at[u] /\ writing'[u] = writing[u]
  BY DEF Typed, PositionTypes, WritingTypes, Goto

\* A step of one task keeps the flag of every task right.
LEMMA FlagKept ==
  ASSUME TP!TypeOK, NEW t \in Tasks, NEW u \in Tasks, TP!Owner(u) \/ TP!Thread(u), FlagOf(t)
  PROVE  FlagOf(t)'
<1>1. CASE t # u
      BY <1>1 DEF FlagOf, TP!TypeOK, TP!Owner, TP!Thread, TP!New, TP!Create, TP!CreateFails, TP!SetRunning,
         TP!ClearRunning, TP!Join, TP!Delete, TP!StartFunction, TP!LoopTest, TP!StopFunction,
         TP!InnerReturns, TP!InnerFails, TP!vars
<1>2. CASE t = u /\ TP!Owner(u)
      BY <1>2 DEF FlagOf, TP!TypeOK, TP!Owner, TP!New, TP!Create, TP!CreateFails, TP!SetRunning,
         TP!ClearRunning, TP!Join, TP!Delete, TP!vars
<1>3. CASE t = u /\ TP!Thread(u)
      BY <1>3 DEF FlagOf, TP!TypeOK, TP!Thread, TP!StartFunction, TP!LoopTest, TP!StopFunction,
         TP!InnerReturns, TP!InnerFails
<1> QED BY <1>1, <1>2, <1>3

\* A step of another task than t.
LEMMA OtherTask ==
  ASSUME TP!TypeOK, NEW t \in Tasks, NEW u \in Tasks, t # u, TP!Owner(u) \/ TP!Thread(u)
  PROVE  mRunning'[t] = mRunning[t] /\ pc'[t] = pc[t] /\ call'[t] = call[t]
  BY DEF TP!TypeOK, TP!Owner, TP!Thread, TP!New, TP!Create, TP!CreateFails, TP!SetRunning,
         TP!ClearRunning, TP!Join, TP!Delete, TP!StartFunction, TP!LoopTest, TP!StopFunction,
         TP!InnerReturns, TP!InnerFails, TP!vars

\* Deleting a client touches its own task at most.
LEMMA DeleteTouches ==
  ASSUME Typed, DeleteClient
  PROVE  /\ doomed # <<>> /\ Head(doomed) \in Clients
         /\ mRunning' = mRunning /\ pc' = pc
         /\ \A t \in Tasks : t # Head(doomed) => call'[t] = call[t]
         /\ ~NoClientThread => call'[Head(doomed)] = "deleted"
         /\ NoClientThread => call' = call
<1>1. doomed # <<>> /\ Head(doomed) \in Clients
      BY HeadTail DEF DeleteClient, Typed, LoopTypes
<1> QED BY <1>1 DEF DeleteClient, Typed, TP!TypeOK, Tasks

\* Main's loops over the clients leave the accept task alone.
LEMMA AcceptTaskKept ==
  ASSUME Typed, MainStep \/ Cast \/ Quit, ~Start, ~Stop
  PROVE  /\ mRunning'[Acceptor] = mRunning[Acceptor] /\ pc'[Acceptor] = pc[Acceptor]
         /\ call'[Acceptor] = call[Acceptor] /\ running' = running
<1>1. running' = running
  <2>1. CASE Send(Main)
        BY <2>1 DEF Send, SendLength, SendBody, PickClient, server
  <2>2. CASE (MainStep \/ Cast \/ Quit) /\ ~Send(Main)
        BY <2>2 DEF MainStep, Reserve, Scan, EraseBegins, EraseEnds, Announce, UpdateReturns, StopListener,
           DeleteClient, ReleaseReturns, Cast, Quit, server
  <2> QED BY <2>1, <2>2
<1>2. CASE UNCHANGED tasks
      BY <1>1, <1>2 DEF tasks
<1>3. CASE doomed # <<>> /\ (TP!ClearRunning(Head(doomed)) \/ TP!Join(Head(doomed)))
  <2>1. Head(doomed) \in Clients
        BY <1>3, HeadTail DEF Typed, LoopTypes
  <2> QED BY <1>1, <1>3, <2>1, OtherTask, Apart DEF Typed, Tasks, TP!Owner
<1>4. CASE DeleteClient
      BY <1>1, <1>4, DeleteTouches, Apart DEF Tasks
<1> QED BY <1>2, <1>3, <1>4, MainTasks

LEMMA AcceptTaskInv ==
  ASSUME Typed, AcceptTask, FlagOf(Acceptor), Step
  PROVE  AcceptTask' /\ FlagOf(Acceptor)'
<1>0. Acceptor \in Tasks /\ Main \in Threads /\ Acceptor \in Threads /\ TP!TypeOK
      BY DEF Tasks, Threads, Typed
<1>1. CASE /\ mRunning'[Acceptor] = mRunning[Acceptor] /\ pc'[Acceptor] = pc[Acceptor]
           /\ call'[Acceptor] = call[Acceptor] /\ running' = running /\ at'[Main] = at[Main]
      BY <1>1 DEF AcceptTask, FlagOf
<1>2. CASE (MainStep \/ Cast \/ Quit) /\ ~Start /\ ~Stop
  <2>1. FlagOf(Acceptor)'
        BY <1>2, AcceptTaskKept DEF FlagOf
  <2>2. call'[Acceptor] = call[Acceptor] /\ running' = running
        BY <1>2, AcceptTaskKept
  <2>3. CASE at'[Main] = at[Main]
        BY <2>1, <2>2, <2>3 DEF AcceptTask
  <2>4. \/ at'[Main] = at[Main]
        \/ at[Main] = "reserve" /\ at'[Main] = "start"
        \/ /\ at[Main] \in {"loop", "scan", "erase", "erasing", "announce", "drop", "dropping", "stop"}
           /\ at'[Main] \in {"loop", "scan", "erase", "erasing", "announce", "drop", "dropping", "stop"}
        \/ /\ at[Main] \in {"release", "releasing", "done"}
           /\ at'[Main] \in {"release", "releasing", "done"}
    <3>1. CASE Send(Main)
          BY <3>1 DEF Send, SendLength, SendBody, PickClient
    <3>2. CASE Scan /\ UNCHANGED <<at, writing>>
          BY <3>2
    <3>3. CASE (MainStep \/ Cast \/ Quit) /\ ~Send(Main) /\ ~(Scan /\ UNCHANGED <<at, writing>>)
      <4>1. \E p, m : /\ Goto(Main, p, m)
                      /\ \/ p = at[Main]
                         \/ at[Main] = "reserve" /\ p = "start"
                         \/ /\ at[Main] \in {"loop", "scan", "erase", "erasing", "announce", "drop", "dropping", "stop"}
                            /\ p \in {"loop", "scan", "erase", "erasing", "announce", "drop", "dropping", "stop"}
                         \/ /\ at[Main] \in {"release", "releasing", "done"}
                            /\ p \in {"release", "releasing", "done"}
            BY <1>2, <3>3 DEF MainStep, Reserve, Scan, EraseBegins, EraseEnds, Announce, UpdateReturns, StopListener,
               DeleteClient, ReleaseReturns, Cast, Quit, MainGoes, At
      <4> QED BY <1>0, <4>1, Gone
    <3> QED BY <1>2, <3>1, <3>2, <3>3
  <2> QED BY <2>1, <2>2, <2>3, <2>4 DEF AcceptTask
<1>3. CASE Start
  <2> USE <1>0, Gone DEF MainGoes, At
  <2>1. CASE at[Main] = "start" /\ ~mReady /\ MainGoes("loop") /\ UNCHANGED <<tasks, running>>
        BY <2>1 DEF AcceptTask, FlagOf, tasks
  <2>2. CASE at[Main] = "start" /\ TP!New(Acceptor) /\ MainGoes("create") /\ UNCHANGED running
    <3>1. FlagOf(Acceptor)'
          BY <2>2, FlagKept DEF TP!Owner
    <3>2. call'[Acceptor] = "idle"
          BY <2>2 DEF TP!New, TP!TypeOK
    <3> QED BY <2>2, <3>1, <3>2 DEF AcceptTask
  <2>3. CASE at[Main] = "create" /\ TP!Create(Acceptor) /\ MainGoes("created") /\ UNCHANGED running
    <3>1. FlagOf(Acceptor)'
          BY <2>3, FlagKept DEF TP!Owner
    <3>2. call'[Acceptor] = "starting"
          BY <2>3 DEF TP!Create, TP!TypeOK
    <3> QED BY <2>3, <3>1, <3>2 DEF AcceptTask
  <2>4. CASE at[Main] = "create" /\ TP!CreateFails(Acceptor) /\ MainGoes("loop") /\ running' = TRUE
    <3>1. FlagOf(Acceptor)'
          BY <2>4, FlagKept DEF TP!Owner
    <3>2. call'[Acceptor] = "idle"
          BY <2>4 DEF TP!CreateFails, TP!vars
    <3> QED BY <2>4, <3>1, <3>2 DEF AcceptTask
  <2>5. CASE at[Main] = "created" /\ TP!SetRunning(Acceptor) /\ MainGoes("loop") /\ running' = TRUE
    <3>1. FlagOf(Acceptor)'
          BY <2>5, FlagKept DEF TP!Owner
    <3>2. call'[Acceptor] = "idle"
          BY <2>5 DEF TP!SetRunning, TP!TypeOK
    <3> QED BY <2>5, <3>1, <3>2 DEF AcceptTask
  <2> QED BY <1>3, <2>1, <2>2, <2>3, <2>4, <2>5 DEF Start
<1>4. CASE Stop
  <2> USE <1>0, Gone DEF MainGoes, At
  <2>1. CASE at[Main] = "stop" /\ running /\ TP!ClearRunning(Acceptor) /\ MainGoes("join") /\ UNCHANGED running
    <3>1. FlagOf(Acceptor)'
          BY <2>1, FlagKept DEF TP!Owner
    <3>2. call'[Acceptor] = "stopping"
          BY <2>1 DEF TP!ClearRunning, TP!TypeOK
    <3> QED BY <2>1, <3>1, <3>2 DEF AcceptTask
  <2>2. CASE at[Main] = "join" /\ TP!Join(Acceptor) /\ MainGoes("stop") /\ UNCHANGED running
    <3>1. FlagOf(Acceptor)'
          BY <2>2, FlagKept DEF TP!Owner
    <3>2. call'[Acceptor] = "idle"
          BY <2>2 DEF TP!Join, TP!TypeOK
    <3> QED BY <2>2, <3>1, <3>2 DEF AcceptTask
  <2>3. CASE at[Main] = "stop" /\ running /\ TP!Delete(Acceptor) /\ MainGoes("release")
    <3>1. FlagOf(Acceptor)'
          BY <2>3, FlagKept DEF TP!Owner
    <3>2. call'[Acceptor] = "deleted"
          BY <2>3 DEF TP!Delete, TP!TypeOK
    <3> QED BY <2>3, <3>1, <3>2 DEF AcceptTask
  <2>4. CASE at[Main] = "stop" /\ ~running /\ MainGoes("release") /\ UNCHANGED <<tasks, running>>
        BY <2>4 DEF AcceptTask, FlagOf, tasks
  <2> QED BY <1>4, <2>1, <2>2, <2>3, <2>4 DEF Stop
<1>5. CASE AcceptorStep
  <2>1. running' = running
        BY <1>5 DEF AcceptorStep, Loop, AcceptorStarts, NoConnection, Accept, ReceiveName, ReceivePart, PushBegins,
              PushEnds, StartListener, AcceptorReturns, Send, SendLength, SendBody, PickClient, server
  <2>2. at'[Main] = at[Main]
        BY <1>0, <1>5, AcceptorMoves, OneMoves, Apart
  <2>3. CASE UNCHANGED tasks
        BY <1>1, <2>1, <2>2, <2>3 DEF tasks
  <2>4. CASE TP!Thread(Acceptor)
    <3>1. FlagOf(Acceptor)' /\ call' = call
          BY <1>0, <2>4, FlagKept DEF TP!Thread, TP!StartFunction, TP!LoopTest, TP!StopFunction,
             TP!InnerReturns, TP!InnerFails
    <3> QED BY <2>1, <2>2, <3>1 DEF AcceptTask
  <2>5. CASE newcomer \in Clients /\ TP!Owner(newcomer)
        BY <1>0, <1>1, <2>1, <2>2, <2>5, OtherTask, Apart DEF Tasks
  <2> QED BY <1>5, <2>3, <2>4, <2>5, AcceptorTasks DEF TP!Owner
<1>6. ASSUME NEW c \in Clients, ListenerStep(c) PROVE AcceptTask' /\ FlagOf(Acceptor)'
  <2>1. running' = running
        BY <1>6 DEF ListenerStep, Loop, NoData, ReceiveLength, ReceiveBody, OnReceiveReturns, ListenerFails,
              Send, SendLength, SendBody, PickClient, server
  <2>2. at'[Main] = at[Main]
        BY <1>0, <1>6, ListenerMoves, OneMoves, Apart DEF Threads
  <2>3. CASE UNCHANGED tasks
        BY <1>1, <2>1, <2>2, <2>3 DEF tasks
  <2>4. CASE TP!Thread(c)
        BY <1>0, <1>1, <2>1, <2>2, <2>4, OtherTask, Apart DEF Tasks
  <2> QED BY <1>6, <2>3, <2>4, ListenerTasks
<1>7. CASE UNCHANGED <<tasks, server, control>>
      BY <1>1, <1>7 DEF tasks, server, control
<1> QED BY <1>2, <1>3, <1>4, <1>5, <1>6, <1>7, StepCases, OthersStill
\* What a step of a task's own protocol does, seen from the task.
LEMMA TaskEffects ==
  ASSUME TP!TypeOK, NEW t \in Tasks, call[t] = "absent" => pc[t] = "none"
  PROVE  /\ TP!Thread(t) => pc[t] # "none" /\ call' = call /\ mRunning' = mRunning
         /\ TP!New(t) => call[t] = "absent" /\ call'[t] = "idle" /\ pc' = pc /\ ~mRunning'[t]
         /\ TP!Create(t) => call[t] = "idle" /\ ~mRunning[t] /\ call'[t] = "starting"
         /\ TP!CreateFails(t) => UNCHANGED tasks
         /\ TP!SetRunning(t) => call[t] = "starting" /\ call'[t] = "idle" /\ pc' = pc
         /\ TP!ClearRunning(t) => call[t] = "idle" /\ call'[t] = "stopping" /\ mRunning[t] /\ pc' = pc
         /\ TP!Join(t) => call[t] = "stopping" /\ call'[t] = "idle" /\ pc[t] = "exited"
         /\ TP!Owner(t) \/ TP!Thread(t) => (call'[t] = "absent" => pc'[t] = "none")
  BY DEF TP!TypeOK, TP!Owner, TP!Thread, TP!New, TP!Create, TP!CreateFails, TP!SetRunning,
         TP!ClearRunning, TP!Join, TP!Delete, TP!StartFunction, TP!LoopTest, TP!StopFunction,
         TP!InnerReturns, TP!InnerFails, TP!vars, tasks

LEMMA AcceptorHome ==
  ASSUME Typed, TasksOK, AcceptorStep
  PROVE  AtHome(Acceptor)'
<1>0. Acceptor \in Tasks /\ Acceptor \in Threads /\ TP!TypeOK /\ AtHome(Acceptor)
      BY DEF Tasks, Threads, Typed, TasksOK
<1>1. CASE Send(Acceptor)
  <2>1. writing[Acceptor] # Nothing /\ UNCHANGED tasks
        BY <1>1, Messages DEF Send, SendLength, SendBody, PickClient
  <2> QED BY <1>0, <2>1 DEF AtHome, At, tasks
<1>2. CASE Loop(Acceptor) \/ AcceptorStarts \/ NoConnection
      BY <1>0, <1>2, Apart DEF Loop, AcceptorStarts, NoConnection, AtHome, At, control, TP!LoopTest, TP!StopFunction,
         TP!StartFunction
<1>3. CASE \E c \in Clients : Accept(c)
      BY <1>3 DEF Accept, AtHome, tasks
<1>4. CASE ReceiveName \/ PushBegins \/ PushEnds
      BY <1>0, <1>4 DEF ReceiveName, ReceivePart, PushBegins, PushEnds, AtHome, At, tasks
<1>5. CASE StartListener
  <2>1. pc[Acceptor] = "inner" /\ newcomer \in Clients
        BY <1>0, <1>5 DEF StartListener, AtHome, At, Typed, NewcomerTypes
  <2>2. pc'[Acceptor] = pc[Acceptor]
        BY <1>0, <1>5, <2>1, OtherTask, Apart DEF StartListener, TP!Owner, Tasks
  <2> QED BY <2>1, <2>2 DEF AtHome
<1>6. CASE AcceptorReturns
      BY <1>0, <1>6, Gone DEF AcceptorReturns, AtHome, At
<1> QED BY <1>1, <1>2, <1>3, <1>4, <1>5, <1>6 DEF AcceptorStep

LEMMA ListenerHome ==
  ASSUME Typed, TasksOK, NEW c \in Clients, ListenerStep(c)
  PROVE  AtHome(c)'
<1>0. c \in Tasks /\ c \in Threads /\ TP!TypeOK /\ AtHome(c)
      BY DEF Tasks, Threads, Typed, TasksOK
<1>1. CASE Send(c)
  <2>1. writing[c] # Nothing /\ UNCHANGED tasks
        BY <1>1, Messages DEF Send, SendLength, SendBody, PickClient
  <2> QED BY <1>0, <2>1 DEF AtHome, At, tasks
<1>2. CASE Loop(c) \/ NoData(c)
      BY <1>0, <1>2 DEF Loop, NoData, ListenerIn, AtHome, At, control, TP!LoopTest, TP!StopFunction,
         TP!StartFunction
<1>3. CASE ReceiveLength(c) \/ ReceiveBody(c)
      BY <1>3 DEF ReceiveLength, ReceiveBody, ListenerIn, AtHome, tasks
<1>4. CASE OnReceiveReturns(c) \/ ListenerFails(c)
      BY <1>0, <1>4, Gone DEF OnReceiveReturns, ListenerFails, AtHome, At
<1> QED BY <1>1, <1>2, <1>3, <1>4 DEF ListenerStep

\* Main's steps, seen from a client.
LEMMA MainOnClient ==
  ASSUME Typed, TasksOK, (MainStep /\ Defined(Main)) \/ Cast \/ Quit, NEW c \in Clients
  PROVE  \/ mRunning'[c] = mRunning[c] /\ pc'[c] = pc[c] /\ call'[c] = call[c]
         \/ /\ c = Head(doomed) /\ StopListener
            /\ TP!ClearRunning(c) \/ TP!Join(c)
         \/ /\ c = Head(doomed) /\ DeleteClient /\ ~NoClientThread
            /\ pc' = pc /\ mRunning' = mRunning /\ call[c] # "absent" /\ call'[c] = "deleted"
<1>0. c \in Tasks /\ Acceptor \in Tasks /\ TP!TypeOK
      BY DEF Tasks, Typed
<1>1. CASE UNCHANGED tasks
      BY <1>1 DEF tasks
<1>2. CASE TP!Owner(Acceptor)
      BY <1>0, <1>2, OtherTask, Apart
<1>3. CASE /\ StopListener
           /\ doomed # <<>> /\ (TP!ClearRunning(Head(doomed)) \/ TP!Join(Head(doomed)))
  <2>1. Head(doomed) \in Tasks
        BY <1>3, HeadTail DEF Typed, LoopTypes, Tasks
  <2> QED BY <1>0, <1>3, <2>1, OtherTask DEF TP!Owner
<1>4. CASE DeleteClient
  <2>1. CASE NoClientThread \/ c # Head(doomed)
        BY <1>0, <1>4, <2>1, DeleteTouches
  <2>2. CASE ~NoClientThread /\ c = Head(doomed)
    <3>1. call[c] # "absent"
          BY <1>4, <2>2 DEF Defined, Garbage, DeleteClient, Cast, Quit, At
    <3> QED BY <1>4, <2>2, <3>1, DeleteTouches
  <2> QED BY <2>1, <2>2
<1> QED BY <1>1, <1>2, <1>3, <1>4, MainTasks

LEMMA HomeInv ==
  ASSUME Typed, TasksOK, Step, NEW t \in Tasks
  PROVE  AtHome(t)'
<1>0. t \in Threads /\ TP!TypeOK /\ AtHome(t) /\ t # Main /\ Acceptor \in Tasks
      BY Apart DEF Tasks, Threads, Typed, TasksOK
<1>1. CASE pc'[t] = pc[t] /\ at'[t] = at[t] /\ writing'[t] = writing[t]
      BY <1>0, <1>1 DEF AtHome, At
<1>2. CASE (MainStep /\ Defined(Main)) \/ Cast \/ Quit
  <2>1. at'[t] = at[t] /\ writing'[t] = writing[t]
        BY <1>0, <1>2, MainMoves, OneMoves DEF Threads
  <2>2. CASE t \in Clients
    <3>1. CASE TP!ClearRunning(t) \/ TP!Join(t)
          BY <1>0, <2>1, <3>1 DEF TP!ClearRunning, TP!Join, AtHome, At
    <3> QED BY <1>1, <1>2, <2>1, <2>2, <3>1, MainOnClient
  <2>3. CASE t = Acceptor
    <3>1. CASE TP!Owner(Acceptor)
      <4>1. pc'[t] = pc[t] \/ pc[t] \in {"none", "exited"}
            BY <2>3, <3>1, <1>0 DEF TP!Owner, TP!New, TP!Create, TP!CreateFails, TP!SetRunning,
               TP!ClearRunning, TP!Join, TP!Delete, TP!vars, TasksOK, FlagOf
      <4> QED BY <1>0, <2>1, <4>1 DEF AtHome, At
    <3>2. CASE ~Start /\ ~Stop
          BY <1>1, <1>2, <2>1, <2>3, <3>2, AcceptTaskKept
    <3>3. CASE Start \/ Stop
      <4>1. UNCHANGED tasks \/ TP!Owner(Acceptor)
            BY <3>3 DEF Start, Stop, TP!Owner, tasks
      <4> QED BY <1>1, <2>1, <3>1, <4>1 DEF tasks
    <3> QED BY <3>1, <3>2, <3>3
  <2> QED BY <2>2, <2>3 DEF Tasks
<1>3. CASE AcceptorStep
  <2>1. CASE t # Acceptor
    <3>1. at'[t] = at[t] /\ writing'[t] = writing[t]
          BY <1>0, <1>3, <2>1, AcceptorMoves, OneMoves DEF Threads
    <3>2. CASE StartListener /\ newcomer \in Clients /\ TP!Create(newcomer)
      <4>1. CASE t = newcomer
        <5>1. pc[t] = "none"
              BY <2>1, <3>2, <4>1, <1>0 DEF StartListener, TasksOK, ListenerTask, At, TP!New, TP!Create,
                 TP!CreateFails, TP!SetRunning, Unstarted
        <5> QED BY <1>0, <3>1, <5>1 DEF AtHome, At
      <4>2. CASE t # newcomer
            BY <1>0, <1>1, <3>1, <3>2, <4>2, OtherTask DEF TP!Owner, Tasks
      <4> QED BY <4>1, <4>2
    <3>3. CASE newcomer \in Clients /\ (TP!New(newcomer) \/ TP!CreateFails(newcomer) \/ TP!SetRunning(newcomer))
          BY <1>1, <3>1, <3>3 DEF TP!New, TP!CreateFails, TP!SetRunning, TP!vars
    <3>4. CASE TP!Thread(Acceptor)
          BY <1>0, <1>1, <2>1, <3>1, <3>4, OtherTask
    <3>5. CASE UNCHANGED tasks
          BY <1>1, <3>1, <3>5 DEF tasks
    <3> QED BY <1>3, <3>2, <3>3, <3>4, <3>5, AcceptorTasks
  <2>2. CASE t = Acceptor
        BY <1>3, <2>2, AcceptorHome
  <2> QED BY <2>1, <2>2
<1>4. ASSUME NEW c \in Clients, ListenerStep(c) PROVE AtHome(t)'
  <2>0. c \in Tasks /\ c \in Threads
        BY DEF Tasks, Threads
  <2>1. CASE t # c
    <3>1. at'[t] = at[t] /\ writing'[t] = writing[t]
          BY <1>0, <1>4, <2>0, <2>1, ListenerMoves, OneMoves
    <3>2. pc'[t] = pc[t]
          BY <1>0, <1>4, <2>0, <2>1, ListenerTasks, OtherTask DEF tasks
    <3> QED BY <1>1, <3>1, <3>2
  <2>2. CASE t = c
        BY <1>4, <2>2, ListenerHome
  <2> QED BY <2>1, <2>2
<1>5. CASE UNCHANGED <<tasks, control>>
      BY <1>1, <1>5 DEF tasks, control
<1> QED BY <1>2, <1>3, <1>4, <1>5, StepCases, OthersStill

LEMMA ListenerTaskInv ==
  ASSUME Typed, TasksOK, Step, NEW c \in Clients
  PROVE  ListenerTask(c)'
<1>0. c \in Threads /\ c \in Tasks /\ TP!TypeOK /\ ListenerTask(c) /\ c # Acceptor /\ c # Main
      BY Apart DEF Tasks, Threads, Typed, TasksOK
<1>1. CASE /\ mRunning'[c] = mRunning[c] /\ pc'[c] = pc[c] /\ call'[c] = call[c]
           /\ mem'[c] = mem[c] /\ at'[Acceptor] = at[Acceptor] /\ newcomer' = newcomer
      BY <1>0, <1>1 DEF ListenerTask
<1>2. CASE (MainStep /\ Defined(Main)) \/ Cast \/ Quit
  <2>1. at'[Acceptor] = at[Acceptor] /\ newcomer' = newcomer
        BY <1>2, MainMoves, OneMoves, Apart DEF Threads
  <2>2. mem'[c] = "none" => mem[c] = "none" 
    <3>1. CASE DeleteClient
          BY <3>1 DEF DeleteClient, Typed, ObjectTypes
    <3>2. CASE Send(Main)
          BY <3>2 DEF Send, SendLength, SendBody, PickClient, objects
    <3>3. CASE (MainStep \/ Cast \/ Quit) /\ ~DeleteClient /\ ~Send(Main)
          BY <3>3 DEF MainStep, Reserve, Start, Scan, EraseBegins, EraseEnds, Announce, UpdateReturns,
             StopListener, Stop, ReleaseReturns, Cast, Quit, objects
    <3> QED BY <1>2, <3>1, <3>2, <3>3
  <2>3. CASE mRunning'[c] = mRunning[c] /\ pc'[c] = pc[c] /\ call'[c] = call[c]
        BY <1>0, <2>1, <2>2, <2>3 DEF ListenerTask
  <2>4. CASE TP!ClearRunning(c) \/ TP!Join(c)
        BY <1>0, <2>1, <2>2, <2>4, TaskEffects DEF ListenerTask
  <2>5. CASE /\ pc' = pc /\ mRunning' = mRunning /\ call[c] # "absent" /\ call'[c] = "deleted"
        BY <1>0, <2>1, <2>2, <2>5 DEF ListenerTask
  <2> QED BY <1>2, <2>3, <2>4, <2>5, MainOnClient
<1>3. CASE AcceptorStep
  <2>1. ASSUME NEW d \in Clients, Accept(d) PROVE ListenerTask(c)'
    <3>1. /\ newcomer' = d /\ UNCHANGED tasks /\ mem[d] = "none" /\ at'[Acceptor] \in {"hello", "push"}
          /\ mem' = [mem EXCEPT ![d] = "live"] /\ newcomer = NoOne
          BY <2>1, Gone DEF Accept, At, Threads, Typed, NewcomerTypes
    <3>2. call[d] = "absent" /\ mem'[d] = "live" /\ (c # d => mem'[c] = mem[c])
          BY <3>1 DEF TasksOK, ListenerTask, Typed, ObjectTypes
    <3> QED BY <1>0, <3>1, <3>2 DEF ListenerTask, tasks, Unstarted
  <2>2. CASE Send(Acceptor)
        BY <1>1, <2>2 DEF Send, SendLength, SendBody, PickClient, tasks, objects
  <2>3. CASE Loop(Acceptor) \/ AcceptorStarts \/ NoConnection
    <3>1. /\ mem'[c] = mem[c] /\ at'[Acceptor] = at[Acceptor] /\ newcomer' = newcomer
          /\ TP!Thread(Acceptor)
          BY <2>3, Apart DEF Loop, AcceptorStarts, NoConnection, objects, control, TP!Thread
    <3>2. Acceptor \in Tasks
          BY DEF Tasks
    <3> QED BY <1>0, <1>1, <3>1, <3>2, OtherTask
  <2>4. CASE ReceiveName \/ PushBegins \/ PushEnds
    <3>1. /\ UNCHANGED tasks /\ mem' = mem /\ newcomer' = newcomer
          /\ at[Acceptor] \in Unstarted /\ at'[Acceptor] # "create"
          BY <2>4, Gone DEF ReceiveName, ReceivePart, PushBegins, PushEnds, At, objects, Unstarted, Threads
    <3> QED BY <1>0, <3>1 DEF ListenerTask, tasks
  <2>5. CASE StartListener
    <3>0. newcomer \in Clients /\ newcomer \in Tasks
          BY <2>5 DEF StartListener, At, Typed, NewcomerTypes, Tasks
    <3>1. mem' = mem /\ newcomer' = newcomer
          BY <2>5 DEF StartListener, objects
    <3>2. CASE c # newcomer
      <4>1. mRunning'[c] = mRunning[c] /\ pc'[c] = pc[c] /\ call'[c] = call[c]
            BY <1>0, <2>5, <3>0, <3>2, OtherTask DEF StartListener, TP!Owner
      <4> QED BY <1>0, <3>1, <3>2, <4>1 DEF ListenerTask
    <3>3. CASE c = newcomer
      <4>1. mem[c] # "none"
            BY <1>0, <3>3 DEF ListenerTask
      <4>2. CASE At(Acceptor, "listen") /\ TP!New(newcomer) /\ Goto(Acceptor, "create", Nothing)
        <5>1. at'[Acceptor] = "create"
              BY <4>2, Gone DEF Threads
        <5> QED BY <1>0, <3>1, <3>3, <4>1, <4>2, <5>1, TaskEffects DEF ListenerTask, Unstarted
      <4>3. CASE ~(At(Acceptor, "listen") /\ TP!New(newcomer) /\ Goto(Acceptor, "create", Nothing))
        <5>1. at'[Acceptor] \in {"created", "return"}
              BY <2>5, <4>3, Gone DEF StartListener, Threads
        <5>2. call'[c] = "absent" => pc'[c] = "none"
              BY <1>0, <2>5, <3>3, TaskEffects DEF StartListener, TP!Owner, ListenerTask
        <5> QED BY <3>1, <4>1, <5>1, <5>2 DEF ListenerTask, Unstarted
      <4> QED BY <4>2, <4>3
    <3> QED BY <3>2, <3>3
  <2>6. CASE AcceptorReturns
    <3>1. mem' = mem /\ newcomer' = NoOne /\ TP!Thread(Acceptor) /\ Acceptor \in Tasks
          BY <2>6 DEF AcceptorReturns, objects, TP!Thread, Tasks
    <3>2. mRunning'[c] = mRunning[c] /\ pc'[c] = pc[c] /\ call'[c] = call[c]
          BY <1>0, <3>1, OtherTask
    <3> QED BY <1>0, <3>1, <3>2, Apart DEF ListenerTask
  <2> QED BY <1>3, <2>1, <2>2, <2>3, <2>4, <2>5, <2>6 DEF AcceptorStep
<1>4. ASSUME NEW d \in Clients, ListenerStep(d) PROVE ListenerTask(c)'
  <2>1. at'[Acceptor] = at[Acceptor] /\ newcomer' = newcomer
        BY <1>4, ListenerMoves, OneMoves, Apart DEF Threads
  <2>2. mem' = mem
        BY <1>4 DEF ListenerStep, Loop, NoData, ReceiveLength, ReceiveBody, OnReceiveReturns, ListenerFails,
              Send, SendLength, SendBody, PickClient, objects
  <2>3. CASE UNCHANGED tasks
        BY <1>1, <2>1, <2>2, <2>3 DEF tasks
  <2>4. CASE d # c /\ TP!Thread(d)
        BY <1>0, <1>1, <2>1, <2>2, <2>4, OtherTask DEF Tasks
  <2>5. CASE TP!Thread(c)
        BY <1>0, <2>1, <2>2, <2>5, TaskEffects DEF ListenerTask
  <2> QED BY <1>4, <2>3, <2>4, <2>5, ListenerTasks
<1>5. CASE UNCHANGED <<tasks, objects, control>>
      BY <1>1, <1>5 DEF tasks, objects, control
<1> QED BY <1>2, <1>3, <1>4, <1>5, StepCases, OthersStill

LEMMA NextTasks == ASSUME Typed, TasksOK, Step PROVE TasksOK'
  BY AcceptTaskInv, HomeInv, ListenerTaskInv DEF TasksOK
-----------------------------------------------------------------------------
(* The three places of a client object: the acceptor, the vector, toRemove. *)

IsDistinct(s) == \A i, j \in 1..Len(s) : s[i] = s[j] => i = j

LEMMA RangeOf == ASSUME NEW S, NEW s \in Seq(S) PROVE Range(s) = {s[i] : i \in 1..Len(s)}
  BY DEF Range

LEMMA RangeAppend ==
  ASSUME NEW S, NEW s \in Seq(S), NEW x \in S
  PROVE  /\ Append(s, x) \in Seq(S) /\ Len(Append(s, x)) = Len(s) + 1
         /\ Range(Append(s, x)) = Range(s) \cup {x}
         /\ IsDistinct(s) /\ x \notin Range(s) => IsDistinct(Append(s, x))
<1> DEFINE t == Append(s, x)
<1>1. /\ t \in Seq(S) /\ Len(t) = Len(s) + 1 /\ Len(s) \in Nat
      /\ \A i \in 1..Len(s) : t[i] = s[i]
      /\ t[Len(s) + 1] = x
      OBVIOUS
<1>2. Range(t) = Range(s) \cup {x}
  <2>1. 1..Len(t) = 1..Len(s) \cup {Len(s) + 1}
        BY <1>1
  <2>2. Range(t) = {t[i] : i \in 1..Len(t)} /\ Range(s) = {s[i] : i \in 1..Len(s)}
        BY <1>1, RangeOf
  <2> HIDE DEF t
  <2> QED BY <1>1, <2>1, <2>2
<1>3. ASSUME IsDistinct(s), x \notin Range(s) PROVE IsDistinct(t)
      BY <1>1, <1>3, RangeOf DEF IsDistinct
<1> QED BY <1>1, <1>2, <1>3

LEMMA RangeTail ==
  ASSUME NEW S, NEW s \in Seq(S), s # <<>>
  PROVE  /\ Range(s) = Range(Tail(s)) \cup {Head(s)}
         /\ IsDistinct(s) => IsDistinct(Tail(s)) /\ Head(s) \notin Range(Tail(s))
<1>1. /\ Tail(s) \in Seq(S) /\ Len(s) \in Nat /\ Len(s) >= 1 /\ Len(Tail(s)) = Len(s) - 1
      /\ \A i \in 1..(Len(s) - 1) : Tail(s)[i] = s[i + 1]
      /\ Head(s) = s[1]
      BY HeadTail
<1>5. Range(Tail(s)) = {Tail(s)[i] : i \in 1..Len(Tail(s))} /\ Range(s) = {s[i] : i \in 1..Len(s)}
      BY <1>1, RangeOf
<1>2. \A i \in 1..Len(s) : i = 1 \/ (i - 1 \in 1..(Len(s) - 1) /\ s[i] = Tail(s)[i - 1])
      BY <1>1
<1>3. Range(s) = Range(Tail(s)) \cup {Head(s)}
  <2>1. \A i \in 1..Len(Tail(s)) : i + 1 \in 1..Len(s) /\ Tail(s)[i] = s[i + 1]
        BY <1>1
  <2>2. \A x : x \in Range(s) <=> \E i \in 1..Len(s) : x = s[i]
        BY <1>5
  <2>3. \A x : x \in Range(Tail(s)) <=> \E i \in 1..Len(Tail(s)) : x = Tail(s)[i]
        BY <1>5
  <2>4. ASSUME NEW x, x \in Range(s) PROVE x \in Range(Tail(s)) \cup {Head(s)}
    <3>1. PICK i \in 1..Len(s) : x = s[i]
          BY <2>2, <2>4
    <3>2. CASE i = 1
          BY <1>1, <3>1, <3>2
    <3>3. CASE i # 1
          BY <1>1, <1>2, <2>3, <3>1, <3>3
    <3> QED BY <3>2, <3>3
  <2>5. ASSUME NEW x, x \in Range(Tail(s)) \cup {Head(s)} PROVE x \in Range(s)
        BY <1>1, <2>1, <2>2, <2>3, <2>5
  <2> QED BY <2>4, <2>5
<1>4. ASSUME IsDistinct(s) PROVE IsDistinct(Tail(s)) /\ Head(s) \notin Range(Tail(s))
  <2>1. \A i \in 1..Len(Tail(s)) : i + 1 \in 1..Len(s) /\ i + 1 # 1 /\ Tail(s)[i] = s[i + 1]
        BY <1>1
  <2>2. IsDistinct(Tail(s))
        BY <1>1, <1>4, <2>1 DEF IsDistinct
  <2>3. \A i \in 1..Len(Tail(s)) : Tail(s)[i] # Head(s)
        BY <1>1, <1>4, <2>1 DEF IsDistinct
  <2>4. \A x \in Range(Tail(s)) : \E i \in 1..Len(Tail(s)) : x = Tail(s)[i]
        BY <1>5
  <2> QED BY <2>2, <2>3, <2>4
<1> QED BY <1>3, <1>4

\* What EraseEnds makes of the vector.
LEMMA RangeErase ==
  ASSUME NEW S, NEW s \in Seq(S), NEW k \in 1..Len(s), NEW t \in Seq(S), Len(t) = Len(s) - 1,
         \A i \in 1..(Len(s) - 1) : t[i] = s[IF i < k THEN i ELSE i + 1], IsDistinct(s)
  PROVE  Range(t) = Range(s) \ {s[k]} /\ IsDistinct(t)
<1>1. /\ t \in Seq(S) /\ Len(t) = Len(s) - 1 /\ Len(s) \in Nat
      /\ \A i \in 1..(Len(s) - 1) : t[i] = s[IF i < k THEN i ELSE i + 1]
      OBVIOUS
<1>2. \A j \in 1..Len(s) : j # k => \E i \in 1..(Len(s) - 1) : t[i] = s[j]
  <2> TAKE j \in 1..Len(s)
  <2> HAVE j # k
  <2> DEFINE i == IF j < k THEN j ELSE j - 1
  <2>1. i \in 1..(Len(s) - 1) /\ (IF i < k THEN i ELSE i + 1) = j
        BY <1>1
  <2> QED BY <1>1, <2>1
<1> DEFINE up(i) == IF i < k THEN i ELSE i + 1
<1>6. \A i \in 1..(Len(s) - 1) : up(i) \in 1..Len(s) /\ up(i) # k /\ t[i] = s[up(i)]
      BY <1>1
<1>7. \A i, j \in 1..(Len(s) - 1) : up(i) = up(j) => i = j
      BY <1>1
<1> HIDE DEF up
<1>3. \A i \in 1..(Len(s) - 1) : t[i] \in Range(s) /\ t[i] # s[k]
  <2>1. Range(s) = {s[i] : i \in 1..Len(s)}
        BY RangeOf
  <2> QED BY <1>6, <2>1 DEF IsDistinct
<1>4. Range(t) = Range(s) \ {s[k]}
  <2>1. Range(t) = {t[i] : i \in 1..Len(t)} /\ Range(s) = {s[i] : i \in 1..Len(s)}
        BY RangeOf
  <2>2. ASSUME NEW x, x \in Range(t) PROVE x \in Range(s) \ {s[k]}
        BY <1>1, <1>3, <2>1, <2>2
  <2>3. ASSUME NEW x, x \in Range(s) \ {s[k]} PROVE x \in Range(t)
    <3>1. PICK j \in 1..Len(s) : x = s[j]
          BY <2>1, <2>3
    <3>2. PICK i \in 1..(Len(s) - 1) : t[i] = s[j]
          BY <1>2, <2>3, <3>1
    <3> QED BY <1>1, <2>1, <3>1, <3>2
  <2> QED BY <2>2, <2>3
<1>5. IsDistinct(t)
      BY <1>1, <1>6, <1>7 DEF IsDistinct
<1> QED BY <1>1, <1>4, <1>5

\* The acceptor has an object that is not in the vector yet.
Early(c) == c = newcomer /\ at[Acceptor] \in {"hello", "name", "push", "pushing"}

EarlyOK(c) ==
  /\ Early(c) => mem[c] = "live"
  /\ mem[c] = "none" \/ Early(c) => c \notin Range(vec) /\ c \notin Range(doomed)

Updating  == {"scan", "erase", "erasing", "announce", "drop", "dropping"}
Releasing == {"release", "releasing"}

\* What toRemove holds, by Main's position.
Lists ==
  /\ at[Main] \in {"announce", "drop", "dropping"} => Range(vec) \cap Range(doomed) = {}
  /\ at[Main] \in {"erase", "erasing"} =>
       \A i \in 1..Len(doomed) : i < idx => doomed[i] \notin Range(vec)
  /\ at[Main] = "erasing" => idx <= Len(doomed)
  /\ at[Main] \notin Updating \cup Releasing => doomed = <<>>
  /\ at[Main] \in Releasing => \A c \in Range(vec) : mem[c] = "live" => c \in Range(doomed)
  /\ at[Main] = "done" => vec = <<>>

ListsOK ==
  /\ IsDistinct(vec) /\ Lists /\ NoLostClient /\ VectorLive
  /\ \A c \in Clients : EarlyOK(c)

LEMMA InitLists == Init => ListsOK
<1> SUFFICES ASSUME Init PROVE ListsOK
    OBVIOUS
<1>1. vec = <<>> /\ doomed = <<>> /\ Len(vec) = 0 /\ Range(vec) = {} /\ Range(doomed) = {}
      BY DEF Init, Range
<1>2. at[Main] = "reserve" /\ at[Acceptor] = "poll" /\ newcomer = NoOne
      BY Apart DEF Init, Threads
<1>3. \A c \in Clients : mem[c] = "none"
      BY DEF Init
<1> QED BY <1>1, <1>2, <1>3 DEF ListsOK, IsDistinct, Lists, NoLostClient, VectorLive, EarlyOK, Early, Updating, Releasing

\* After Stop() the accept thread is no more.
LEMMA Retired ==
  ASSUME Typed, TasksOK, at[Main] \in {"release", "releasing", "done"}
  PROVE  /\ pc[Acceptor] = "none" /\ at[Acceptor] = "poll" /\ writing[Acceptor] = Nothing
         /\ newcomer = NoOne
  BY DEF TasksOK, AcceptTask, FlagOf, AtHome, At, Tasks, Typed, NewcomerTypes

LEMMA SameLists ==
  ASSUME ListsOK, UNCHANGED <<vec, doomed, mem, newcomer, idx>>,
         at'[Main] = at[Main], at'[Acceptor] = at[Acceptor]
  PROVE  ListsOK'
  BY DEF ListsOK, Lists, NoLostClient, VectorLive, EarlyOK, Early

\* The acceptor's steps.
LEMMA AcceptorLists ==
  ASSUME Typed, TasksOK, ListsOK, AcceptorStep
  PROVE  ListsOK'
<1>0. /\ at'[Main] = at[Main] /\ Acceptor \in Threads /\ vec \in Seq(Clients)
      /\ mem \in [Clients -> {"none", "live", "deleted"}]
      BY AcceptorMoves, OneMoves, Apart DEF Threads, Typed, ServerTypes, ObjectTypes
<1>1. CASE Send(Acceptor) \/ Loop(Acceptor) \/ AcceptorStarts \/ NoConnection
      BY <1>0, <1>1, SameLists DEF Send, SendLength, SendBody, PickClient, Loop, AcceptorStarts,
         NoConnection, server, objects, control
<1>2. ASSUME NEW d \in Clients, Accept(d) PROVE ListsOK'
  <2>1. /\ newcomer' = d /\ mem[d] = "none" /\ at'[Acceptor] \in {"hello", "push"}
        /\ mem' = [mem EXCEPT ![d] = "live"] /\ UNCHANGED <<vec, doomed, idx>>
        /\ at[Acceptor] = "poll"
        BY <1>0, <1>2, Gone DEF Accept, At, server
  <2>2. newcomer = NoOne /\ at[Main] \notin {"release", "releasing", "done"}
    <3>1. pc[Acceptor] = "inner"
          BY <1>2 DEF Accept
    <3> QED BY <2>1, <3>1, Retired DEF Typed, NewcomerTypes
  <2>3. mem'[d] = "live" /\ \A c \in Clients : c # d => mem'[c] = mem[c]
        BY <1>0, <2>1
  <2>4. d \notin Range(vec) /\ d \notin Range(doomed) /\ Range(vec) \subseteq Clients
        BY <1>0, <2>1, RangeOf DEF ListsOK, EarlyOK
  <2>5. \A c \in Clients : EarlyOK(c)'
        BY <2>1, <2>2, <2>3, <2>4 DEF ListsOK, EarlyOK, Early
  <2>6. NoLostClient' /\ VectorLive'
        BY <1>0, <2>1, <2>2, <2>3, <2>4, Apart DEF ListsOK, NoLostClient, VectorLive
  <2>7. Lists' /\ IsDistinct(vec)'
        BY <1>0, <2>1, <2>2 DEF ListsOK, Lists, Releasing
  <2> QED BY <2>5, <2>6, <2>7 DEF ListsOK
<1>3. CASE ReceiveName \/ PushBegins
  <2>1. /\ UNCHANGED <<vec, doomed, mem, newcomer, idx>>
        /\ at[Acceptor] \in {"hello", "name", "push", "pushing"}
        /\ at'[Acceptor] \in {"hello", "name", "push", "pushing"}
        BY <1>0, <1>3, Gone DEF ReceiveName, ReceivePart, PushBegins, At, server, objects
  <2> QED BY <1>0, <2>1 DEF ListsOK, Lists, NoLostClient, VectorLive, EarlyOK, Early
<1>4. CASE PushEnds
  <2>1. /\ vec' = Append(vec, newcomer) /\ UNCHANGED <<doomed, mem, newcomer, idx>>
        /\ at[Acceptor] = "pushing" /\ at'[Acceptor] \in {"listen", "return"}
        BY <1>0, <1>4, Gone DEF PushEnds, At, objects
  <2>2. newcomer \in Clients /\ Early(newcomer)
        BY <2>1 DEF Typed, NewcomerTypes, Early
  <2>3. mem[newcomer] = "live" /\ newcomer \notin Range(vec) /\ newcomer \notin Range(doomed)
        BY <2>2 DEF ListsOK, EarlyOK
  <2>4. Range(vec') = Range(vec) \cup {newcomer} /\ IsDistinct(vec')
        BY <1>0, <2>1, <2>2, <2>3, RangeAppend DEF ListsOK
  <2>5. at[Main] \notin {"release", "releasing", "done"}
        BY <2>1, Retired
  <2>6. \A c \in Clients : EarlyOK(c)'
        BY <2>1, <2>3, <2>4 DEF ListsOK, EarlyOK, Early
  <2>7. NoLostClient' /\ VectorLive'
        BY <1>0, <2>1, <2>3, <2>4 DEF ListsOK, NoLostClient, VectorLive
  <2>8. Lists'
    <3>1. doomed \in Seq(Clients)
          BY DEF Typed, LoopTypes
    <3>2. \A i \in 1..Len(doomed) : doomed[i] # newcomer
          BY <2>3, <3>1, RangeOf
    <3> QED BY <1>0, <2>1, <2>3, <2>4, <2>5, <3>2 DEF ListsOK, Lists, Releasing
  <2> QED BY <2>4, <2>6, <2>7, <2>8 DEF ListsOK
<1>5. CASE StartListener \/ AcceptorReturns
  <2>1. /\ UNCHANGED <<vec, doomed, mem, idx>> /\ newcomer' \in {newcomer, NoOne}
        /\ at[Acceptor] \notin {"hello", "name", "push", "pushing"}
        /\ at'[Acceptor] \notin {"hello", "name", "push", "pushing"}
        BY <1>0, <1>5, Gone DEF StartListener, AcceptorReturns, At, server, objects
  <2> QED BY <1>0, <2>1 DEF ListsOK, Lists, NoLostClient, VectorLive, EarlyOK, Early
<1> QED BY <1>1, <1>2, <1>3, <1>4, <1>5 DEF AcceptorStep

\* Main's steps.
LEMMA MainLists ==
  ASSUME Typed, TasksOK, ListsOK, MainStep \/ Cast \/ Quit
  PROVE  ListsOK'
<1>0. /\ at'[Acceptor] = at[Acceptor] /\ newcomer' = newcomer /\ Main \in Threads
      /\ vec \in Seq(Clients) /\ doomed \in Seq(Clients) /\ idx \in Nat /\ idx >= 1
      /\ mem \in [Clients -> {"none", "live", "deleted"}]
      BY MainMoves, OneMoves, Apart DEF Threads, Typed, ServerTypes, ObjectTypes, LoopTypes
<1> USE <1>0
<1>1. CASE Send(Main)
      BY <1>1, SameLists DEF Send, SendLength, SendBody, PickClient, server, objects
<1>2. CASE Reserve \/ Start \/ UpdateReturns \/ Cast \/ Quit
  <2>1. /\ UNCHANGED <<vec, doomed, mem, idx>> /\ doomed = <<>>
        /\ at'[Main] \notin Updating \cup Releasing \cup {"done"}
        /\ at[Main] \notin {"release", "releasing"}
        BY <1>2, Gone DEF Reserve, Start, UpdateReturns, Cast, Quit, At, MainGoes, server, objects, ListsOK, Lists,
           Updating, Releasing
  <2> QED BY <2>1 DEF ListsOK, Lists, NoLostClient, VectorLive, EarlyOK, Early, Updating, Releasing
<1>3. CASE Scan
  <2>1. UNCHANGED <<vec, mem>>
        BY <1>3 DEF Scan, server, objects
  <2>2. CASE at[Main] = "loop" /\ at'[Main] = "scan" /\ doomed' = doomed
        BY <2>1, <2>2 DEF ListsOK, Lists, NoLostClient, VectorLive, EarlyOK, Early, Updating, Releasing
  <2>3. CASE at[Main] = "scan" /\ at'[Main] = "scan" /\ doomed' = doomed
        BY <2>1, <2>3 DEF ListsOK, Lists, NoLostClient, VectorLive, EarlyOK, Early, Updating, Releasing
  <2>4. CASE at[Main] = "scan" /\ at'[Main] = "erase" /\ doomed' = doomed /\ idx' = 1
        BY <2>1, <2>4 DEF ListsOK, Lists, NoLostClient, VectorLive, EarlyOK, Early, Updating, Releasing
  <2>5. CASE at[Main] = "scan" /\ at'[Main] = "scan" /\ idx <= Len(vec) /\ doomed' = Append(doomed, vec[idx])
    <3>1. vec[idx] \in Range(vec) /\ vec[idx] \in Clients
          BY <2>5, RangeOf
    <3>2. Range(doomed') = Range(doomed) \cup {vec[idx]}
          BY <2>5, <3>1, RangeAppend
    <3>3. \A c \in Clients : EarlyOK(c)'
          BY <2>1, <2>5, <3>1, <3>2 DEF ListsOK, EarlyOK, Early
    <3>4. NoLostClient' /\ VectorLive'
          BY <2>1, <2>5, <3>2 DEF ListsOK, NoLostClient, VectorLive
    <3>5. Lists' /\ IsDistinct(vec)'
          BY <2>1, <2>5 DEF ListsOK, Lists, Updating, Releasing
    <3> QED BY <3>3, <3>4, <3>5 DEF ListsOK
  <2> QED BY <1>3, <2>2, <2>3, <2>4, <2>5, Gone DEF Scan, At, MainGoes
<1>4. CASE EraseBegins
  <2>1. UNCHANGED <<vec, doomed, mem, idx>> /\ at[Main] = "erase" /\ at'[Main] = "erasing" /\ idx <= Len(doomed)
        BY <1>4, Gone DEF EraseBegins, At, MainGoes, objects
  <2> QED BY <2>1 DEF ListsOK, Lists, NoLostClient, VectorLive, EarlyOK, Early, Updating, Releasing
<1>5. CASE EraseEnds
  <2>1. /\ UNCHANGED <<doomed, mem>> /\ idx' = idx + 1 /\ at[Main] = "erasing" /\ at'[Main] = "erase"
        BY <1>5, Gone DEF EraseEnds, At, MainGoes, objects
  <2>2. PICK k \in 1..Len(vec) :
          vec[k] = doomed[idx] /\ vec' = [i \in 1..(Len(vec) - 1) |-> vec[IF i < k THEN i ELSE i + 1]]
        BY <1>5 DEF EraseEnds
  <2>3. Range(vec') = Range(vec) \ {doomed[idx]} /\ IsDistinct(vec')
    <3>1. IsDistinct(vec)
          BY DEF ListsOK
    <3>2. /\ vec' \in Seq(Clients) /\ Len(vec') = Len(vec) - 1
          /\ \A i \in 1..(Len(vec) - 1) : vec'[i] = vec[IF i < k THEN i ELSE i + 1]
          BY <2>2, Shorter
    <3>3. Range(vec') = Range(vec) \ {vec[k]} /\ IsDistinct(vec')
          BY <3>1, <3>2, RangeErase
    <3> QED BY <2>2, <3>3
  <2>4. idx <= Len(doomed) /\ doomed[idx] \in Range(doomed)
        BY <2>1, RangeOf DEF ListsOK, Lists
  <2>5. \A c \in Clients : EarlyOK(c)'
        BY <2>1, <2>3 DEF ListsOK, EarlyOK, Early
  <2>6. NoLostClient' /\ VectorLive'
        BY <2>1, <2>3, <2>4 DEF ListsOK, NoLostClient, VectorLive
  <2>7. Lists'
    <3>1. \A i \in 1..Len(doomed) : i < idx + 1 => doomed[i] \notin Range(vec')
          BY <2>1, <2>3 DEF ListsOK, Lists
    <3> QED BY <2>1, <3>1 DEF Lists, Updating, Releasing
  <2> QED BY <2>3, <2>5, <2>6, <2>7 DEF ListsOK
<1>6. CASE Announce
  <2>1. UNCHANGED <<vec, doomed, mem, idx>>
        BY <1>6 DEF Announce, server, objects
  <2>2. CASE at[Main] = "erase" /\ idx > Len(doomed) /\ at'[Main] = "announce"
    <3>1. Range(vec) \cap Range(doomed) = {}
          BY <2>2, RangeOf DEF ListsOK, Lists
    <3> QED BY <2>1, <2>2, <3>1 DEF ListsOK, Lists, NoLostClient, VectorLive, EarlyOK, Early, Updating, Releasing
  <2>3. CASE at[Main] = "announce" /\ at'[Main] = "drop"
        BY <2>1, <2>3 DEF ListsOK, Lists, NoLostClient, VectorLive, EarlyOK, Early, Updating, Releasing
  <2> QED BY <1>6, <2>2, <2>3, Gone DEF Announce, At, MainGoes
<1>7. CASE StopListener
  <2>1. /\ UNCHANGED <<vec, doomed, mem, idx>>
        /\ \/ at[Main] \in {"drop", "dropping"} /\ at'[Main] \in {"drop", "dropping"}
           \/ at[Main] \in Releasing /\ at'[Main] \in Releasing
        BY <1>7, Gone DEF StopListener, At, MainGoes, server, objects, Releasing
  <2> QED BY <2>1 DEF ListsOK, Lists, NoLostClient, VectorLive, EarlyOK, Early, Updating, Releasing
<1>8. CASE DeleteClient
  <2> DEFINE d == Head(doomed)
  <2>1. /\ UNCHANGED <<vec, idx>> /\ doomed' = Tail(doomed) /\ mem' = [mem EXCEPT ![d] = "deleted"]
        /\ \/ at[Main] = "drop" /\ at'[Main] = "announce"
           \/ at[Main] = "release" /\ at'[Main] = "release"
        /\ doomed # <<>>
    <3>1. At(Main, "drop") \/ At(Main, "release")
          BY <1>8 DEF DeleteClient
    <3>2. at'[Main] = IF at[Main] = "drop" THEN "announce" ELSE "release"
          BY <1>8, Gone DEF DeleteClient, MainGoes
    <3> QED BY <1>8, <3>1, <3>2 DEF DeleteClient, At, server
  <2>2. d \in Clients /\ Range(doomed) = Range(doomed') \cup {d}
        BY <2>1, RangeTail, HeadTail
  <2>3. mem'[d] = "deleted" /\ \A c \in Clients : c # d => mem'[c] = mem[c]
        BY <2>1, <2>2
  <2>4. \A c \in Clients : EarlyOK(c)'
        BY <2>1, <2>2, <2>3 DEF ListsOK, EarlyOK, Early
  <2>5. NoLostClient'
        BY <2>1, <2>2, <2>3 DEF ListsOK, NoLostClient
  <2>6. Range(vec) \subseteq Clients
        BY RangeOf
  <2>7. VectorLive' /\ Lists'
        BY <2>1, <2>2, <2>3, <2>6 DEF ListsOK, Lists, VectorLive, Updating, Releasing
  <2> QED BY <2>1, <2>4, <2>5, <2>7 DEF ListsOK
<1>9. CASE Stop
  <2>1. UNCHANGED <<vec, mem, idx>>
        BY <1>9 DEF Stop, objects
  <2>2. CASE doomed' = doomed /\ at[Main] \in {"stop", "join"} /\ at'[Main] \in {"stop", "join"}
        BY <2>1, <2>2 DEF ListsOK, Lists, NoLostClient, VectorLive, EarlyOK, Early, Updating, Releasing
  <2>3. CASE doomed' = vec /\ at[Main] = "stop" /\ at'[Main] = "release"
    <3>1. doomed = <<>> /\ Range(doomed) = {}
          BY <2>3 DEF ListsOK, Lists, Updating, Releasing, Range
    <3> QED BY <2>1, <2>3, <3>1 DEF ListsOK, Lists, NoLostClient, VectorLive, EarlyOK, Early, Updating, Releasing
  <2> QED BY <1>9, <2>2, <2>3, Gone DEF Stop, At, MainGoes
<1>10. CASE ReleaseReturns
  <2>1. /\ UNCHANGED <<doomed, mem, idx>> /\ doomed = <<>> /\ vec' = <<>>
        /\ at[Main] = "release" /\ at'[Main] = "done"
        BY <1>10, Gone DEF ReleaseReturns, At, MainGoes, objects
  <2>2. Range(vec') = {} /\ Range(doomed) = {} /\ Len(vec') = 0
        BY <2>1 DEF Range
  <2>3. newcomer = NoOne
        BY <2>1, Retired
  <2>4. \A c \in Clients : EarlyOK(c)'
        BY <2>1, <2>2 DEF ListsOK, EarlyOK, Early
  <2>5. NoLostClient' /\ VectorLive'
        BY <2>1, <2>2, <2>3, Apart DEF ListsOK, Lists, NoLostClient, VectorLive, Releasing
  <2>6. Lists' /\ IsDistinct(vec')
        BY <2>1, <2>2 DEF Lists, IsDistinct, Updating, Releasing
  <2> QED BY <2>4, <2>5, <2>6 DEF ListsOK
<1> QED BY <1>1, <1>2, <1>3, <1>4, <1>5, <1>6, <1>7, <1>8, <1>9, <1>10 DEF MainStep

LEMMA NextLists == ASSUME Typed, TasksOK, ListsOK, Step PROVE ListsOK'
<1>1. ASSUME NEW c \in Clients, ListenerStep(c) PROVE ListsOK'
  <2>1. at'[Acceptor] = at[Acceptor] /\ at'[Main] = at[Main] /\ newcomer' = newcomer
        BY <1>1, ListenerMoves, OneMoves, Apart DEF Threads
  <2>2. UNCHANGED <<vec, doomed, mem, idx>>
        BY <1>1 DEF ListenerStep, Loop, NoData, ReceiveLength, ReceiveBody, OnReceiveReturns, ListenerFails,
              Send, SendLength, SendBody, PickClient, objects, server, control
  <2> QED BY <2>1, <2>2, SameLists
<1>2. CASE UNCHANGED <<server, objects, control>>
      BY <1>2, SameLists DEF server, objects, control
<1> QED BY <1>1, <1>2, MainLists, AcceptorLists, StepCases, OthersStill
-----------------------------------------------------------------------------
(* What has been read of a connection ends with a whole message, unless the    *)
(* one thread that reads it is between the two parts, or the connection ended. *)

Over(c) == got[c] = sent[c] /\ peer[c] \in {"closed", "reset"}
Reading(c) == at[c] = "body" \/ (c = newcomer /\ at[Acceptor] = "name")

Aligned(c) ==
  /\ Over(c) \/ (got[c] % 2 = 1 <=> Reading(c))
  /\ fd[c] = "bad" => peer[c] = "idle"
  /\ peer[c] = "idle" => sent[c] = 0
  /\ mem[c] = "none" => fd[c] = "none" /\ got[c] = 0

LEMMA InitAligned == Init => \A c \in Clients : Aligned(c)
  BY Apart DEF Init, Aligned, Over, Reading, Threads

LEMMA SameAligned ==
  ASSUME NEW c \in Clients, Aligned(c), got'[c] = got[c], sent'[c] = sent[c], peer'[c] = peer[c],
         fd'[c] = fd[c], mem'[c] = mem[c], Reading(c)' <=> Reading(c)
  PROVE  Aligned(c)'
  BY DEF Aligned, Over

LEMMA AcceptorAligned ==
  ASSUME Typed, TasksOK, AcceptorStep, NEW c \in Clients, Aligned(c)
  PROVE  Aligned(c)'
<1>0. /\ c \in Threads /\ Acceptor \in Threads /\ c \in Tasks /\ c # Acceptor /\ at'[c] = at[c]
      /\ got \in [Clients -> Nat] /\ sent \in [Clients -> Nat] /\ got[c] <= sent[c]
      /\ mem \in [Clients -> {"none", "live", "deleted"}]
      /\ fd \in [Clients -> {"none", "open", "bad", "closed"}]
      BY AcceptorMoves, OneMoves, Apart DEF Threads, Tasks, Typed, NetworkTypes, ObjectTypes
<1> USE <1>0
<1>1. CASE Send(Acceptor) \/ Loop(Acceptor) \/ AcceptorStarts \/ NoConnection
      BY <1>1, SameAligned DEF Send, SendLength, SendBody, PickClient, Loop, AcceptorStarts,
         NoConnection, objects, network, control, Reading
<1>2. ASSUME NEW d \in Clients, Accept(d) PROVE Aligned(c)'
  <2>1. /\ newcomer' = d /\ newcomer = NoOne /\ at'[Acceptor] \in {"hello", "push"} /\ UNCHANGED network
        /\ mem[d] = "none" /\ mem' = [mem EXCEPT ![d] = "live"] /\ at[Acceptor] = "poll"
        BY <1>2, Gone DEF Accept, At, Typed, NewcomerTypes
  <2>2. fd' = [fd EXCEPT ![d] = "open"] \/ (peer[d] = "idle" /\ fd' = [fd EXCEPT ![d] = "bad"])
        BY <1>2 DEF Accept
  <2>3. CASE c # d
        BY <2>1, <2>2, <2>3, SameAligned DEF network, Reading
  <2>4. CASE c = d
    <3>1. at[c] = "poll"
          BY <2>1, <2>4 DEF TasksOK, ListenerTask, AtHome, At
    <3> QED BY <2>1, <2>2, <2>4, <3>1 DEF Aligned, Over, Reading, network
  <2> QED BY <2>3, <2>4
<1>3. CASE ReceiveName
  <2>1. /\ newcomer' = newcomer /\ UNCHANGED <<mem, fd, peer, sent>> /\ at[Acceptor] \in {"hello", "name"}
        /\ newcomer \in Clients
        BY <1>3 DEF ReceiveName, ReceivePart, At, Typed, NewcomerTypes
  <2>2. CASE c # newcomer
        BY <1>3, <2>1, <2>2, SameAligned DEF ReceiveName, ReceivePart, Reading
  <2>3. CASE c = newcomer
    <3>1. at[c] = "poll" /\ at'[c] = "poll"
          BY <2>1, <2>3 DEF TasksOK, ListenerTask, AtHome, At, Unstarted
    <3>2. /\ at[Acceptor] = "hello" => at'[Acceptor] \in {"name", "push"}
          /\ at[Acceptor] = "name" => at'[Acceptor] = "push"
          BY <1>3, Gone DEF ReceiveName, ReceivePart, At
    <3>3. Reading(c) <=> at[Acceptor] = "name"
          BY <2>3, <3>1 DEF Reading
    <3>4. Reading(c)' <=> at'[Acceptor] = "name"
          BY <2>1, <2>3, <3>1 DEF Reading
    <3>5. CASE got[c] < sent[c] /\ got' = [got EXCEPT ![c] = @ + 1]
      <4>1. at'[Acceptor] = IF at[Acceptor] = "hello" THEN "name" ELSE "push"
            BY <1>3, <2>3, <3>5, Gone DEF ReceiveName, ReceivePart, At
      <4>2. ~Over(c) /\ got'[c] = got[c] + 1 /\ got[c] \in Nat
            BY <3>5 DEF Over
      <4>3. got[c] % 2 = 1 <=> at[Acceptor] = "name"
            BY <3>3, <4>2 DEF Aligned
      <4>4. got'[c] % 2 = 1 <=> at'[Acceptor] = "name"
            BY <2>1, <4>1, <4>2, <4>3
      <4>5. mem[c] # "none"
            BY <2>1, <2>3 DEF TasksOK, ListenerTask
      <4> QED BY <2>1, <3>4, <4>4, <4>5 DEF Aligned
    <3>6. CASE got' = got /\ got[c] = sent[c] /\ peer[c] \in {"closed", "reset"}
          BY <2>1, <3>6 DEF Aligned, Over
    <3>7. CASE got' = got /\ got[c] = sent[c] /\ fd[c] = "bad" /\ at'[Acceptor] = "push"
      <4>1. got[c] = 0 /\ got'[c] = 0
            BY <3>7 DEF Aligned
      <4> QED BY <2>1, <3>4, <3>7, <4>1 DEF Aligned
    <3> QED BY <1>3, <2>3, <3>5, <3>6, <3>7, Gone DEF ReceiveName, ReceivePart
  <2> QED BY <2>2, <2>3
<1>4. CASE PushBegins \/ PushEnds \/ StartListener \/ AcceptorReturns
  <2>1. /\ UNCHANGED <<objects, network>> /\ at[Acceptor] # "name" /\ at'[Acceptor] # "name"
        BY <1>4, Gone DEF PushBegins, PushEnds, StartListener, AcceptorReturns, At
  <2> QED BY <2>1, SameAligned DEF objects, network, Reading
<1> QED BY <1>1, <1>2, <1>3, <1>4 DEF AcceptorStep

LEMMA ListenerAligned ==
  ASSUME Typed, TasksOK, NEW d \in Clients, ListenerStep(d), NEW c \in Clients, Aligned(c)
  PROVE  Aligned(c)'
<1>0. /\ c \in Threads /\ Acceptor \in Threads /\ c \in Tasks /\ d \in Threads
      /\ at'[Acceptor] = at[Acceptor] /\ newcomer' = newcomer
      /\ c # d => at'[c] = at[c]
      /\ got \in [Clients -> Nat] /\ sent \in [Clients -> Nat] /\ got[c] <= sent[c]
      BY ListenerMoves, OneMoves, Apart DEF Threads, Tasks, Typed, NetworkTypes
<1> USE <1>0
<1>1. CASE Send(d) \/ Loop(d) \/ NoData(d)
      BY <1>1, SameAligned DEF Send, SendLength, SendBody, PickClient, Loop, NoData, objects, network, control, Reading
<1>2. CASE c # d /\ (ReceiveLength(d) \/ ReceiveBody(d) \/ OnReceiveReturns(d) \/ ListenerFails(d))
      BY <1>2, SameAligned DEF ReceiveLength, ReceiveBody, OnReceiveReturns, ListenerFails, objects, network, Reading
<1>3. CASE c = d /\ (ReceiveLength(d) \/ ReceiveBody(d) \/ OnReceiveReturns(d) \/ ListenerFails(d))
  <2>1. pc[c] = "inner" /\ UNCHANGED <<mem, fd, peer, sent>>
        BY <1>3 DEF ReceiveLength, ReceiveBody, OnReceiveReturns, ListenerFails, ListenerIn, objects, network
  <2>2. Reading(c) <=> at[c] = "body"
        BY <2>1 DEF TasksOK, ListenerTask, Reading, Unstarted
  <2>3. Reading(c)' <=> at'[c] = "body"
        BY <2>1 DEF TasksOK, ListenerTask, Reading, Unstarted
  <2>4. mem[c] # "none"
        BY <2>1 DEF TasksOK, ListenerTask
  <2>5. CASE ReceiveLength(d) \/ ReceiveBody(d)
    <3>1. /\ got[c] < sent[c] /\ got'[c] = got[c] + 1 /\ got[c] \in Nat
          /\ at'[c] = "body" <=> at[c] # "body"
          BY <1>3, <2>5, Gone DEF ReceiveLength, ReceiveBody, ListenerIn, At
    <3>2. ~Over(c)
          BY <3>1 DEF Over
    <3>3. got'[c] % 2 = 1 <=> at'[c] = "body"
          BY <2>2, <3>1, <3>2 DEF Aligned
    <3> QED BY <2>1, <2>3, <2>4, <3>3 DEF Aligned
  <2>6. CASE OnReceiveReturns(d)
    <3>1. at[c] = "reply" /\ at'[c] = "poll" /\ got' = got
          BY <1>3, <2>6, Gone DEF OnReceiveReturns, ListenerIn, At, network
    <3> QED BY <2>1, <2>2, <2>3, <3>1, SameAligned
  <2>7. CASE ListenerFails(d)
    <3>1. AtEnd(c) /\ at'[c] = "poll" /\ got' = got
          BY <1>3, <2>7, Gone DEF ListenerFails, network
    <3>2. CASE peer[c] \in {"closed", "reset"}
          BY <2>1, <3>1, <3>2 DEF Aligned, Over, AtEnd
    <3>3. CASE fd[c] = "bad"
      <4>1. got[c] = 0 /\ got'[c] = 0
            BY <3>1, <3>3 DEF Aligned, AtEnd
      <4> QED BY <2>1, <2>3, <3>1, <3>3, <4>1 DEF Aligned
    <3> QED BY <3>1, <3>2, <3>3 DEF AtEnd
  <2> QED BY <1>3, <2>5, <2>6, <2>7
<1> QED BY <1>1, <1>2, <1>3 DEF ListenerStep

LEMMA MainAligned ==
  ASSUME Typed, MainStep \/ Cast \/ Quit, NEW c \in Clients, Aligned(c)
  PROVE  Aligned(c)'
<1>1. at'[c] = at[c] /\ at'[Acceptor] = at[Acceptor] /\ newcomer' = newcomer
      BY MainMoves, OneMoves, Apart DEF Threads
<1>2. Reading(c)' <=> Reading(c)
      BY <1>1 DEF Reading
<1>3. CASE DeleteClient
  <2>1. /\ UNCHANGED network
        /\ mem' = [mem EXCEPT ![Head(doomed)] = "deleted"] /\ fd' = [fd EXCEPT ![Head(doomed)] = "closed"]
        BY <1>3 DEF DeleteClient
  <2>2. \/ mem'[c] = mem[c] /\ fd'[c] = fd[c]
        \/ mem'[c] = "deleted" /\ fd'[c] = "closed"
        BY <2>1 DEF Typed, ObjectTypes
  <2> QED BY <1>2, <2>1, <2>2 DEF Aligned, Over, network
<1>4. CASE Send(Main)
      BY <1>2, <1>4, SameAligned DEF Send, SendLength, SendBody, PickClient, objects, network
<1>5. CASE (MainStep \/ Cast \/ Quit) /\ ~DeleteClient /\ ~Send(Main)
  <2>1. UNCHANGED <<objects, network>>
        BY <1>5 DEF MainStep, Reserve, Start, Scan, EraseBegins, EraseEnds, Announce, UpdateReturns, StopListener,
           Stop, ReleaseReturns, Cast, Quit
  <2> QED BY <1>2, <2>1, SameAligned DEF objects, network
<1> QED BY <1>3, <1>4, <1>5

LEMMA PeerAligned ==
  ASSUME Typed, NEW d \in Clients, PeerStep(d), NEW c \in Clients, Aligned(c)
  PROVE  Aligned(c)'
<1> USE DEF Typed, NetworkTypes
<1>1. UNCHANGED <<objects, control, got>> /\ (Reading(c)' <=> Reading(c))
      BY DEF PeerStep, Connect, PeerSends, PeerLeaves, control, Reading
<1>2. CASE c # d
      BY <1>1, <1>2, SameAligned DEF PeerStep, Connect, PeerSends, PeerLeaves, objects
<1>3. CASE c = d
  <2>1. CASE Connect(d)
        BY <1>1, <1>3, <2>1 DEF Connect, Aligned, Over, objects
  <2>2. CASE PeerSends(d)
    <3>1. ~Over(c) /\ peer' = peer /\ peer[c] = "open"
          BY <1>3, <2>2 DEF PeerSends, Over
    <3> QED BY <1>1, <3>1 DEF Aligned, Over, objects
  <2>3. CASE PeerLeaves(d)
    <3>1. \E how \in {"mute", "closed", "reset"} : peer' = [peer EXCEPT ![d] = how]
          BY <2>3, ConstantsAssumption DEF PeerLeaves
    <3>2. peer'[c] # "idle" /\ peer[c] # "idle" /\ (Over(c) => Over(c)')
          BY <1>1, <1>3, <2>3, <3>1 DEF PeerLeaves, Over
    <3> QED BY <1>1, <3>2 DEF Aligned, objects
  <2> QED BY <1>3, <2>1, <2>2, <2>3 DEF PeerStep
<1> QED BY <1>2, <1>3

LEMMA NextAligned ==
  ASSUME Typed, TasksOK, \A c \in Clients : Aligned(c), Step
  PROVE  \A c \in Clients : Aligned(c)'
<1> TAKE c \in Clients
<1>1. CASE UNCHANGED <<objects, network, control>>
      BY <1>1, SameAligned DEF objects, network, control, Reading
<1> QED BY <1>1, MainAligned, AcceptorAligned, ListenerAligned, PeerAligned, StepCases, OthersStill

-----------------------------------------------------------------------------
(* What holds under every program. *)

IInv == Typed /\ TasksOK /\ ListsOK /\ \A c \in Clients : Aligned(c)

LEMMA InitInv == Init => IInv
  BY InitTyped, InitTasks, InitLists, InitAligned DEF IInv

LEMMA NextInv == IInv /\ Step => IInv'
  BY NextTyped, NextTasks, NextLists, NextAligned DEF IInv

\* IInv is an invariant, whichever of the three programs runs.
THEOREM Invariance == Spec => []IInv
  BY InitInv, NextInv, PTL DEF Spec, Step

\* Every location keeps its type, under all three programs: in particular what a
\* listener or the acceptor has read never exceeds what the peer has sent.
THEOREM TypeCorrect == Spec => []TypeOK
<1>1. IInv => TypeOK
      BY DEF IInv, Typed, TypeOK, ServerTypes, ObjectTypes, NetworkTypes, LastTypes, PositionTypes,
         NewcomerTypes, WritingTypes, LoopTypes, FateTypes
<1> QED BY <1>1, Invariance, PTL

\* TcpServerInternal.cpp:98-117: no client object leaks while the vector grows at the
\* acceptor's hands and shrinks at Main's, ...
THEOREM NoneLost == Spec => []NoLostClient
<1>1. IInv => NoLostClient
      BY DEF IInv, ListsOK
<1> QED BY <1>1, Invariance, PTL

\* ... and none is deleted while it is in the vector.
THEOREM LiveVector == Spec => []VectorLive
<1>1. IInv => VectorLive
      BY DEF IInv, ListsOK
<1> QED BY <1>1, Invariance, PTL

\* TcpServerInternal.cpp:135-146: OnConnect reads its message of a connection before
\* the listener is started, so a listener that waits for a length gets one although
\* two threads have read from the socket.
THEOREM ReadInStep == Spec => []InStep
<1>1. IInv => InStep
  <2> SUFFICES ASSUME IInv, NEW c \in Clients, ListenerIn(c, "poll"), got[c] < sent[c]
               PROVE  got[c] % 2 = 0
      BY DEF InStep
  <2>1. pc[c] = "inner" /\ at[c] = "poll"
        BY DEF ListenerIn, At
  <2>2. ~Reading(c)
        BY <2>1 DEF IInv, TasksOK, ListenerTask, Unstarted, Reading
  <2>3. ~Over(c) /\ got[c] \in Nat
        BY DEF Over, IInv, Typed, NetworkTypes
  <2> QED BY <2>2, <2>3 DEF IInv, Aligned
<1> QED BY <1>1, Invariance, PTL
-----------------------------------------------------------------------------
(* The video servers: no Update(), so Main only ends the clients, once the     *)
(* acceptor is gone, and a listener answers to its own client only.            *)

NotChat == App # "chat"

\* One message, for client c.
Addressed(w, c) == w.step \in {"len", "body"} /\ w.to = c /\ ~w.all

Orderly ==
  /\ at[Main] \notin Updating /\ changing # Main
  /\ writing[Main] # Nothing => App = "bcast" /\ at[Main] = "loop"
  /\ at[Acceptor] \notin {"hello", "name"}
  /\ App = "bcast" => at[Acceptor] \notin {"listen", "create", "created"}
  /\ writing[Acceptor] # Nothing =>
       /\ at[Acceptor] = "push"
       /\ Addressed(writing[Acceptor], newcomer) /\ writing[Acceptor].kind = "size"
  /\ \A c \in Clients : writing[c] # Nothing => Addressed(writing[c], c)

LEMMA InitOrderly == Init /\ NotChat => Orderly
  BY Apart DEF Init, Orderly, Updating, Threads

\* A thread that is sending to one client goes on with it or has done.
LEMMA Alone ==
  ASSUME Typed, NEW t \in Threads, NEW c, Send(t), Addressed(writing[t], c)
  PROVE  /\ at' = at
         /\ writing'[t] # Nothing => Addressed(writing'[t], c) /\ writing'[t].kind = writing[t].kind
<1> USE DEF Typed, WritingTypes
<1>1. CASE SendLength(t)
  <2>1. PICK m : Sent(t, m) /\ m.step = "body" /\ m.to = writing[t].to
        BY <1>1, SendMoves
  <2> QED BY <2>1 DEF Sent, Addressed
<1>2. CASE SendBody(t)
  <2>1. PICK m : Sent(t, m) /\ m = Nothing
        BY <1>2, SendMoves DEF Addressed
  <2> QED BY <2>1 DEF Sent
<1>3. CASE PickClient(t)
      BY <1>3 DEF PickClient, Addressed
<1> QED BY <1>1, <1>2, <1>3 DEF Send

\* Only a change of the vector changes who is changing it.
LEMMA NotChanging ==
  ASSUME Typed, Step, ~EraseBegins, ~EraseEnds, changing # Main
  PROVE  changing' # Main
<1>1. CASE MainStep \/ Cast \/ Quit
      BY <1>1 DEF MainStep, Send, SendLength, SendBody, PickClient, Reserve, Start, Scan, Announce, UpdateReturns, StopListener,
         DeleteClient, Stop, ReleaseReturns, Cast, Quit, server
<1>2. CASE AcceptorStep
      BY <1>2, Apart DEF AcceptorStep, Loop, AcceptorStarts, NoConnection, Accept, ReceiveName, ReceivePart, PushBegins,
              PushEnds, StartListener, AcceptorReturns, Send, SendLength, SendBody, PickClient, server
<1>3. ASSUME NEW c \in Clients, ListenerStep(c) PROVE changing' # Main
      BY <1>3 DEF ListenerStep, Loop, NoData, ReceiveLength, ReceiveBody, OnReceiveReturns, ListenerFails,
              Send, SendLength, SendBody, PickClient, server
<1> QED BY <1>1, <1>2, <1>3, StepCases, OthersStill DEF server

\* Main's place: what its steps that are not a Send leave.
LEMMA MainOrderly ==
  ASSUME Typed, NotChat, Orderly, MainStep \/ Cast \/ Quit
  PROVE  /\ ~EraseBegins /\ ~EraseEnds
         /\ at'[Main] \notin Updating
         /\ writing'[Main] # Nothing => App = "bcast" /\ at'[Main] = "loop"
<1>0. Main \in Threads
      BY DEF Threads
<1>1. ~EraseBegins /\ ~EraseEnds /\ ~Announce /\ ~UpdateReturns /\ ~Scan
      BY DEF EraseBegins, EraseEnds, Announce, UpdateReturns, Scan, At, Orderly, Updating, NotChat
<1>2. CASE Send(Main)
  <2>1. PICK m : Sent(Main, m)
        BY <1>0, <1>2, SendMoves DEF Send
  <2>2. writing[Main] # Nothing /\ at' = at
        BY <2>1, Messages DEF Sent
  <2> QED BY <1>1, <2>2 DEF Orderly
<1>3. CASE Reserve \/ Start \/ Stop \/ ReleaseReturns \/ Quit
  <2>1. at'[Main] \notin Updating /\ writing'[Main] = Nothing
        BY <1>0, <1>3, Gone DEF Reserve, Start, Stop, ReleaseReturns, Quit, MainGoes, Updating
  <2> QED BY <1>1, <2>1
<1>4. CASE StopListener
  <2>1. at[Main] \notin {"drop", "dropping"}
        BY DEF Orderly, Updating
  <2>2. MainGoes("release") \/ MainGoes("releasing")
        BY <1>4, <2>1 DEF StopListener, At
  <2>3. at'[Main] \in {"release", "releasing"} /\ writing'[Main] = Nothing
        BY <1>0, <2>2, Gone DEF MainGoes
  <2> QED BY <1>1, <2>3 DEF Updating
<1>5. CASE DeleteClient
  <2>1. at[Main] = "release"
        BY <1>5 DEF DeleteClient, At, Orderly, Updating
  <2>2. at'[Main] = "release" /\ writing'[Main] = Nothing
        BY <1>0, <1>5, <2>1, Gone DEF DeleteClient, MainGoes
  <2> QED BY <1>1, <2>2 DEF Updating
<1>6. CASE Cast
  <2>1. App = "bcast" /\ at'[Main] = "loop"
        BY <1>0, <1>6, Gone DEF Cast
  <2> QED BY <1>1, <2>1 DEF Updating
<1> QED BY <1>1, <1>2, <1>3, <1>4, <1>5, <1>6 DEF MainStep

LEMMA AcceptorOrderly ==
  ASSUME Typed, NotChat, Orderly, AcceptorStep
  PROVE  /\ at'[Acceptor] \notin {"hello", "name"}
         /\ App = "bcast" => at'[Acceptor] \notin {"listen", "create", "created"}
         /\ writing'[Acceptor] # Nothing =>
              /\ at'[Acceptor] = "push"
              /\ Addressed(writing'[Acceptor], newcomer') /\ writing'[Acceptor].kind = "size"
<1>0. Acceptor \in Threads
      BY DEF Threads
<1>1. CASE Send(Acceptor)
  <2>1. newcomer' = newcomer /\ writing[Acceptor] # Nothing
        BY <1>1, Messages DEF Send, SendLength, SendBody, PickClient
  <2>2. Addressed(writing[Acceptor], newcomer)
        BY <2>1 DEF Orderly
  <2>3. /\ at' = at
        /\ writing'[Acceptor] # Nothing =>
             Addressed(writing'[Acceptor], newcomer) /\ writing'[Acceptor].kind = writing[Acceptor].kind
        BY <1>0, <1>1, <2>2, Alone
  <2> QED BY <2>1, <2>3 DEF Orderly
<1>2. CASE Loop(Acceptor) \/ AcceptorStarts \/ NoConnection
      BY <1>2 DEF Loop, AcceptorStarts, NoConnection, control, Orderly
<1>3. ASSUME NEW c \in Clients, Accept(c)
      PROVE  at'[Acceptor] = "push" /\ newcomer' = c /\ writing'[Acceptor] = ToOne(c, "size")
      BY <1>0, <1>3, Gone DEF Accept, NotChat
<1>4. CASE ReceiveName
      BY <1>4 DEF ReceiveName, ReceivePart, At, Orderly
<1>5. CASE PushBegins \/ PushEnds \/ StartListener \/ AcceptorReturns
  <2>1. writing'[Acceptor] = Nothing /\ at'[Acceptor] \notin {"hello", "name"}
        BY <1>0, <1>5, Gone DEF PushBegins, PushEnds, StartListener, AcceptorReturns
  <2>2. App = "bcast" => at'[Acceptor] \notin {"listen", "create", "created"}
        BY <1>0, <1>5, Gone DEF PushBegins, PushEnds, StartListener, AcceptorReturns, Orderly, At, NoClientThread
  <2> QED BY <2>1, <2>2
<1> QED BY <1>1, <1>2, <1>3, <1>4, <1>5, Messages DEF AcceptorStep, Addressed, Kinds

LEMMA ListenerOrderly ==
  ASSUME Typed, NotChat, Orderly, NEW c \in Clients, ListenerStep(c)
  PROVE  writing'[c] # Nothing => Addressed(writing'[c], c)
<1>0. c \in Threads
      BY DEF Threads
<1>1. CASE Send(c)
  <2>1. writing[c] # Nothing
        BY <1>1, Messages DEF Send, SendLength, SendBody, PickClient
  <2> QED BY <1>0, <1>1, <2>1, Alone DEF Orderly
<1>2. CASE Loop(c) \/ NoData(c)
      BY <1>2 DEF Loop, NoData, control, Orderly
<1>3. CASE ReceiveLength(c) \/ OnReceiveReturns(c) \/ ListenerFails(c)
      BY <1>0, <1>3, Gone DEF ReceiveLength, OnReceiveReturns, ListenerFails
<1>4. CASE ReceiveBody(c)
  <2>1. writing'[c] = Nothing \/ writing'[c] = ToOne(c, "reply")
        BY <1>0, <1>4, Gone DEF ReceiveBody, NotChat
  <2> QED BY <2>1, Messages DEF Addressed, Kinds
<1> QED BY <1>1, <1>2, <1>3, <1>4 DEF ListenerStep

LEMMA NextOrderly == ASSUME Typed, NotChat, Orderly, Step PROVE Orderly'
<1>0. App' = App /\ Main \in Threads /\ Acceptor \in Threads /\ \A c \in Clients : c \in Threads
      BY Writers DEF Threads
<1>1. ASSUME MainStep \/ Cast \/ Quit PROVE Orderly'
  <2>1. newcomer' = newcomer /\ \A u \in Threads : u # Main => at'[u] = at[u] /\ writing'[u] = writing[u]
        BY <1>0, <1>1, MainMoves, OneMoves
  <2>2. changing' # Main
        BY <1>1, MainOrderly, NotChanging DEF Orderly
  <2> QED BY <1>0, <1>1, <2>1, <2>2, MainOrderly, Apart DEF Orderly
<1>2. changing' # Main
  <2>1. CASE MainStep \/ Cast \/ Quit
        BY <1>1, <2>1 DEF Orderly
  <2>2. ~EraseBegins /\ ~EraseEnds
        BY DEF EraseBegins, EraseEnds, At, Orderly, Updating
  <2> QED BY <2>2, NotChanging DEF Orderly
<1>3. CASE AcceptorStep
  <2>1. \A u \in Threads : u # Acceptor => at'[u] = at[u] /\ writing'[u] = writing[u]
        BY <1>0, <1>3, AcceptorMoves, OneMoves
  <2> QED BY <1>0, <1>2, <1>3, <2>1, AcceptorOrderly, Apart DEF Orderly
<1>4. ASSUME NEW c \in Clients, ListenerStep(c) PROVE Orderly'
  <2>1. newcomer' = newcomer /\ \A u \in Threads : u # c => at'[u] = at[u] /\ writing'[u] = writing[u]
        BY <1>0, <1>4, ListenerMoves, OneMoves
  <2> QED BY <1>0, <1>2, <1>4, <2>1, ListenerOrderly, Apart DEF Orderly
<1>5. CASE UNCHANGED control
      BY <1>0, <1>2, <1>5 DEF control, Orderly
<1> QED BY <1>1, <1>3, <1>4, <1>5, StepCases, OthersStill
-----------------------------------------------------------------------------
(* The life of a listener's task follows its client's, so that Stop() finds    *)
(* what it expects and nothing outlives its object.                            *)

\* Where the calls on c's task are.
Expected(c) ==
  IF App = "bcast" \/ mem[c] = "none" \/ (c = newcomer /\ at[Acceptor] \notin {"create", "created", "return"})
    THEN "absent"
  ELSE IF mem[c] = "deleted" THEN "deleted"
  ELSE IF c = newcomer /\ at[Acceptor] = "created" THEN "starting"
  ELSE IF at[Main] = "releasing" /\ c = Head(doomed) THEN "stopping"
  ELSE "idle"

LifeOK(c) ==
  /\ FlagOf(c) /\ call[c] = Expected(c)
  /\ mem[c] = "deleted" => at[Main] \in {"release", "releasing", "done"} /\ c \notin Range(doomed)
  /\ fd[c] = "open" => mem[c] = "live"

Lives == IsDistinct(doomed) /\ \A c \in Clients : LifeOK(c)

LEMMA InitLives == Init => Lives
  BY Apart DEF Init, Lives, IsDistinct, LifeOK, FlagOf, Expected, TP!Init, Tasks

\* A step that leaves c, its task and the accept thread alone.
LEMMA SameLife ==
  ASSUME NEW c \in Clients, LifeOK(c), App' = App, mem'[c] = mem[c], fd'[c] = fd[c], doomed' = doomed,
         mRunning'[c] = mRunning[c], pc'[c] = pc[c], call'[c] = call[c],
         newcomer' = newcomer, at'[Acceptor] = at[Acceptor], at'[Main] = at[Main]
  PROVE  LifeOK(c)'
  BY DEF LifeOK, FlagOf, Expected

\* Whom Main may still release.
LEMMA Doomed ==
  ASSUME IInv, NotChat, Orderly, Lives, doomed # <<>>
  PROVE  /\ at[Main] \in Releasing /\ newcomer = NoOne /\ Head(doomed) \in Clients
         /\ mem[Head(doomed)] = "live" /\ Head(doomed) \in Range(doomed)
<1>1. at[Main] \in Releasing
      BY DEF IInv, ListsOK, Lists, Orderly
<1>2. newcomer = NoOne
      BY <1>1, Retired DEF IInv, Releasing
<1>3. Head(doomed) \in Clients /\ Head(doomed) \in Range(doomed)
      BY HeadTail DEF IInv, Typed, LoopTypes
<1>4. mem[Head(doomed)] # "none" /\ mem[Head(doomed)] # "deleted"
      BY <1>3 DEF IInv, ListsOK, EarlyOK, Lives, LifeOK
<1> QED BY <1>1, <1>2, <1>3, <1>4 DEF IInv, Typed, ObjectTypes

LEMMA MainLives ==
  ASSUME IInv, NotChat, Orderly, Lives, Step, (MainStep /\ Defined(Main)) \/ Cast \/ Quit
  PROVE  Lives'
<1>0. /\ Typed /\ TasksOK /\ Main \in Threads /\ App' = App
      /\ newcomer' = newcomer /\ at'[Acceptor] = at[Acceptor]
      /\ vec \in Seq(Clients) /\ doomed \in Seq(Clients)
      /\ mem \in [Clients -> {"none", "live", "deleted"}]
      /\ fd \in [Clients -> {"none", "open", "bad", "closed"}]
      /\ Clients \subseteq Tasks /\ TP!TypeOK
  <2>1. Typed /\ TasksOK /\ Main \in Threads /\ Acceptor \in Threads /\ Clients \subseteq Tasks
        BY DEF IInv, Threads, Tasks
  <2>2. newcomer' = newcomer /\ at'[Acceptor] = at[Acceptor]
        BY <2>1, MainMoves, OneMoves, Apart
  <2>3. App' = App
        BY Writers
  <2> QED BY <2>1, <2>2, <2>3 DEF Typed, ServerTypes, ObjectTypes, LoopTypes
<1> USE <1>0
<1> DEFINE d == Head(doomed)
<1>1. CASE DeleteClient
  <2>1. /\ doomed # <<>> /\ at[Main] = "release" /\ newcomer = NoOne
        /\ d \in Clients /\ mem[d] = "live" /\ d \in Range(doomed)
        BY <1>1, Doomed DEF DeleteClient, At, Releasing, Orderly, Updating
  <2>2. at'[Main] = "release"
        BY <1>1, <2>1, Gone DEF DeleteClient, MainGoes
  <2>3. doomed' = Tail(doomed) /\ fd' = [fd EXCEPT ![d] = "closed"] /\ mem' = [mem EXCEPT ![d] = "deleted"] /\ ~mRunning[d]
        BY <1>1 DEF DeleteClient
  <2>4. /\ IsDistinct(doomed') /\ d \notin Range(doomed') /\ Range(doomed') \subseteq Range(doomed)
        BY <2>1, <2>3, RangeTail DEF Lives
  <2>5. ASSUME NEW c \in Clients, c # d PROVE LifeOK(c)'
    <3>1. mem'[c] = mem[c] /\ fd'[c] = fd[c] /\ call'[c] = call[c] /\ mRunning' = mRunning /\ pc' = pc
          BY <1>1, <2>3, <2>5, DeleteTouches
    <3> QED BY <2>1, <2>2, <2>4, <3>1 DEF Lives, LifeOK, FlagOf, Expected
  <2>6. ASSUME NEW c \in Clients, c = d PROVE LifeOK(c)'
    <3>1. mem'[c] = "deleted" /\ fd'[c] = "closed"
          BY <2>3, <2>6
    <3>2. IF App = "bcast" THEN call[c] = "absent" ELSE call[c] = "idle"
          BY <2>1, <2>6, Apart DEF Lives, LifeOK, Expected
    <3>3. pc[c] = "none"
          BY <2>3, <2>6, <3>2 DEF Lives, LifeOK, FlagOf
    <3>4. /\ mRunning' = mRunning /\ pc' = pc
          /\ call'[c] = IF App = "bcast" THEN "absent" ELSE "deleted"
          BY <1>1, <2>6, <3>2, DeleteTouches DEF NoClientThread
    <3>5. FlagOf(c)'
          BY <2>3, <2>6, <3>3, <3>4 DEF FlagOf
    <3>6. call'[c] = Expected(c)'
          BY <2>1, <3>1, <3>4, Apart DEF Expected
    <3>7. c \notin Range(doomed')
          BY <2>4, <2>6
    <3> QED BY <2>2, <3>1, <3>5, <3>6, <3>7 DEF LifeOK
  <2> QED BY <2>4, <2>5, <2>6 DEF Lives
<1>2. CASE StopListener
  <2>1. doomed # <<>> /\ (TP!ClearRunning(d) \/ TP!Join(d))
        BY <1>2 DEF StopListener, At, Typed, LoopTypes
  <2>2. /\ at[Main] \in Releasing /\ newcomer = NoOne
        /\ d \in Clients /\ d \in Tasks /\ mem[d] = "live" /\ d \in Range(doomed)
        BY <2>1, Doomed
  <2>3. UNCHANGED <<doomed, mem, fd>>
        BY <1>2 DEF StopListener, objects
  <2>4. \/ TP!ClearRunning(d) /\ at'[Main] = "releasing" /\ call'[d] = "stopping"
        \/ TP!Join(d) /\ at'[Main] = "release" /\ call'[d] = "idle"
    <3>1. \/ TP!ClearRunning(d) /\ MainGoes("releasing")
          \/ TP!Join(d) /\ MainGoes("release")
          BY <1>2, <2>2 DEF StopListener, At, Releasing
    <3>2. TP!ClearRunning(d) => call'[d] = "stopping"
          BY <2>2 DEF TP!ClearRunning, TP!TypeOK
    <3>3. TP!Join(d) => call'[d] = "idle"
          BY <2>2 DEF TP!Join, TP!TypeOK
    <3> QED BY <3>1, <3>2, <3>3, Gone DEF MainGoes
  <2>5. ASSUME NEW c \in Clients, c # d PROVE LifeOK(c)'
    <3>1. mRunning'[c] = mRunning[c] /\ pc'[c] = pc[c] /\ call'[c] = call[c]
          BY <2>1, <2>2, <2>5, OtherTask DEF TP!Owner
    <3> QED BY <2>2, <2>3, <2>4, <2>5, <3>1 DEF Lives, LifeOK, FlagOf, Expected, Releasing
  <2>6. ASSUME NEW c \in Clients, c = d PROVE LifeOK(c)'
    <3>1. FlagOf(c)'
          BY <2>1, <2>6, FlagKept DEF TP!Owner, Lives, LifeOK
    <3>2. App # "bcast"
          BY <2>1, <2>2, <2>6 DEF Lives, LifeOK, Expected, TP!ClearRunning, TP!Join
    <3> QED BY <2>2, <2>3, <2>4, <2>6, <3>1, <3>2, Apart DEF Lives, LifeOK, Expected
  <2> QED BY <2>3, <2>5, <2>6 DEF Lives
<1>3. CASE Stop
  <2>1. /\ UNCHANGED <<vec, mem, fd>> /\ at[Main] \in {"stop", "join"} /\ at'[Main] \in {"stop", "join", "release"}
        /\ doomed' \in {doomed, vec} /\ (UNCHANGED tasks \/ TP!Owner(Acceptor))
        BY <1>3, Gone DEF Stop, At, MainGoes, objects, TP!Owner
  <2>2. IsDistinct(doomed')
        BY <2>1 DEF IInv, ListsOK, Lives, IsDistinct
  <2>3. ASSUME NEW c \in Clients PROVE LifeOK(c)'
    <3>1. mRunning'[c] = mRunning[c] /\ pc'[c] = pc[c] /\ call'[c] = call[c]
          BY <2>1, OtherTask, Apart DEF tasks, Tasks
    <3>2. mem[c] # "deleted"
          BY <2>1 DEF Lives, LifeOK
    <3> QED BY <2>1, <3>1, <3>2 DEF Lives, LifeOK, FlagOf, Expected
  <2> QED BY <2>2, <2>3 DEF Lives
<1>4. CASE (MainStep \/ Cast \/ Quit) /\ ~DeleteClient /\ ~StopListener /\ ~Stop
  <2>1. ~EraseBegins /\ ~EraseEnds /\ ~Announce /\ ~UpdateReturns /\ ~Scan
        BY DEF EraseBegins, EraseEnds, Announce, UpdateReturns, Scan, At, Orderly, Updating, NotChat
  <2>2. UNCHANGED <<doomed, mem, fd>>
        BY <1>4, <2>1 DEF MainStep, Send, SendLength, SendBody, PickClient, Reserve, Start, ReleaseReturns, Cast, Quit, objects
  <2>3. \/ at'[Main] = at[Main]
        \/ at[Main] \notin Releasing \cup {"done"} /\ at'[Main] \notin Releasing \cup {"done"}
        \/ at[Main] = "release" /\ at'[Main] = "done"
    <3>1. CASE Send(Main)
          BY <3>1 DEF Send, SendLength, SendBody, PickClient
    <3>2. CASE Reserve \/ Start \/ ReleaseReturns \/ Cast \/ Quit
          BY <3>2, Gone DEF Reserve, Start, ReleaseReturns, Cast, Quit, At, MainGoes, Releasing
    <3> QED BY <1>4, <2>1, <3>1, <3>2 DEF MainStep
  <2>4. ASSUME NEW c \in Clients PROVE LifeOK(c)'
    <3>1. mRunning'[c] = mRunning[c] /\ pc'[c] = pc[c] /\ call'[c] = call[c]
          BY <1>4, MainOnClient
    <3> QED BY <2>2, <2>3, <3>1 DEF Lives, LifeOK, FlagOf, Expected, Releasing
  <2> QED BY <2>2, <2>4 DEF Lives
<1> QED BY <1>1, <1>2, <1>3, <1>4

LEMMA AcceptorLives ==
  ASSUME IInv, NotChat, Orderly, Lives, Step, AcceptorStep
  PROVE  Lives'
<1>0. /\ Typed /\ TasksOK /\ Acceptor \in Threads /\ App' = App /\ at'[Main] = at[Main]
      /\ mem \in [Clients -> {"none", "live", "deleted"}]
      /\ fd \in [Clients -> {"none", "open", "bad", "closed"}]
      /\ Clients \subseteq Tasks /\ Acceptor \in Tasks /\ TP!TypeOK
  <2>1. Typed /\ TasksOK /\ Main \in Threads /\ Acceptor \in Threads /\ Clients \subseteq Tasks /\ Acceptor \in Tasks
        BY DEF IInv, Threads, Tasks
  <2>2. at'[Main] = at[Main]
        BY <2>1, AcceptorMoves, OneMoves, Apart
  <2>3. App' = App
        BY Writers
  <2> QED BY <2>1, <2>2, <2>3 DEF Typed, ObjectTypes
<1> USE <1>0
<1>1. CASE Send(Acceptor) \/ Loop(Acceptor) \/ AcceptorStarts \/ NoConnection
  <2>1. /\ UNCHANGED <<doomed, mem, fd, newcomer, at>>
        /\ UNCHANGED tasks \/ TP!Thread(Acceptor)
        BY <1>1, Apart DEF Send, SendLength, SendBody, PickClient, Loop, AcceptorStarts, NoConnection, objects, control, TP!Thread
  <2>2. ASSUME NEW c \in Clients PROVE LifeOK(c)'
    <3>1. mRunning'[c] = mRunning[c] /\ pc'[c] = pc[c] /\ call'[c] = call[c]
          BY <2>1, OtherTask, Apart DEF tasks
    <3> QED BY <2>1, <3>1, SameLife DEF Lives
  <2> QED BY <2>1, <2>2 DEF Lives
<1>2. ASSUME NEW d \in Clients, Accept(d) PROVE Lives'
  <2>1. /\ newcomer' = d /\ newcomer = NoOne /\ at'[Acceptor] = "push" /\ UNCHANGED <<tasks, doomed>>
        /\ mem[d] = "none" /\ mem' = [mem EXCEPT ![d] = "live"] /\ at[Acceptor] = "poll"
        BY <1>2, Gone DEF Accept, At, Typed, NewcomerTypes, NotChat
  <2>2. fd' = [fd EXCEPT ![d] = "open"] \/ fd' = [fd EXCEPT ![d] = "bad"]
        BY <1>2 DEF Accept
  <2>3. ASSUME NEW c \in Clients, c # d PROVE LifeOK(c)'
    <3>1. mem'[c] = mem[c] /\ fd'[c] = fd[c] /\ c # newcomer
          BY <2>1, <2>2, <2>3, Apart
    <3> QED BY <2>1, <2>3, <3>1 DEF Lives, LifeOK, FlagOf, Expected, tasks
  <2>4. LifeOK(d)'
    <3>1. mem'[d] = "live" /\ call[d] = "absent"
          BY <2>1 DEF Lives, LifeOK, Expected
    <3> QED BY <2>1, <3>1 DEF Lives, LifeOK, FlagOf, Expected, tasks
  <2> QED BY <2>1, <2>3, <2>4 DEF Lives
<1>3. CASE PushBegins \/ PushEnds
  <2>1. /\ UNCHANGED <<tasks, doomed, mem, fd, newcomer>>
        /\ at[Acceptor] \notin {"create", "created", "return"}
        /\ at'[Acceptor] \notin {"create", "created", "return"} \/ App = "bcast"
        BY <1>3, Gone DEF PushBegins, PushEnds, At, objects, NoClientThread
  <2> QED BY <2>1 DEF Lives, LifeOK, FlagOf, Expected, tasks
<1>4. CASE StartListener
  <2>0. /\ newcomer \in Clients /\ at[Acceptor] \in {"listen", "create", "created"}
        /\ UNCHANGED <<doomed, mem, fd, newcomer>>
        BY <1>4 DEF StartListener, At, Typed, NewcomerTypes, objects
  <2>1. App # "bcast" /\ at[Main] \notin {"release", "releasing", "done"}
        BY <2>0, Retired DEF Orderly
  <2>2. mem[newcomer] = "live"
        BY <2>0, <2>1 DEF Lives, LifeOK, TasksOK, ListenerTask
  <2>3. TP!New(newcomer) \/ TP!Create(newcomer) \/ TP!CreateFails(newcomer) \/ TP!SetRunning(newcomer)
        BY <1>4 DEF StartListener
  <2>4. ASSUME NEW c \in Clients, c # newcomer PROVE LifeOK(c)'
    <3>1. mRunning'[c] = mRunning[c] /\ pc'[c] = pc[c] /\ call'[c] = call[c]
          BY <2>0, <2>3, <2>4, OtherTask DEF TP!Owner
    <3> QED BY <2>0, <2>1, <2>4, <3>1 DEF Lives, LifeOK, FlagOf, Expected
  <2>5. FlagOf(newcomer)'
        BY <2>0, <2>3, FlagKept DEF TP!Owner, Lives, LifeOK
  <2>6. \/ at'[Acceptor] \in {"create", "return"} /\ call'[newcomer] = "idle"
        \/ at'[Acceptor] = "created" /\ call'[newcomer] = "starting"
    <3>1. \/ TP!New(newcomer) /\ at'[Acceptor] = "create"
          \/ TP!Create(newcomer) /\ at'[Acceptor] = "created"
          \/ TP!CreateFails(newcomer) /\ at'[Acceptor] = "return"
          \/ TP!SetRunning(newcomer) /\ at'[Acceptor] = "return"
          BY <1>4, Gone DEF StartListener
    <3> QED BY <2>0, <3>1 DEF TP!New, TP!Create, TP!CreateFails, TP!SetRunning, TP!TypeOK, TP!vars
  <2>7. LifeOK(newcomer)'
        BY <2>0, <2>1, <2>2, <2>5, <2>6 DEF Lives, LifeOK, Expected
  <2> QED BY <2>0, <2>4, <2>7 DEF Lives
<1>5. CASE AcceptorReturns
  <2>1. /\ newcomer' = NoOne /\ at[Acceptor] = "return" /\ UNCHANGED <<doomed, mem, fd>> /\ TP!Thread(Acceptor)
        BY <1>5 DEF AcceptorReturns, At, objects, TP!Thread
  <2>2. ASSUME NEW c \in Clients PROVE LifeOK(c)'
    <3>1. mRunning'[c] = mRunning[c] /\ pc'[c] = pc[c] /\ call'[c] = call[c]
          BY <2>1, OtherTask, Apart
    <3> QED BY <2>1, <3>1, Apart DEF Lives, LifeOK, FlagOf, Expected
  <2> QED BY <2>1, <2>2 DEF Lives
<1>6. ~ReceiveName
      BY DEF ReceiveName, ReceivePart, At, Orderly
<1> QED BY <1>1, <1>2, <1>3, <1>4, <1>5, <1>6 DEF AcceptorStep

LEMMA NextLives == ASSUME IInv, NotChat, Orderly, Lives, Step PROVE Lives'
<1>0. App' = App /\ Clients \subseteq Tasks /\ TP!TypeOK /\ Typed
      BY Writers DEF Tasks, IInv, Typed
<1>1. ASSUME NEW d \in Clients, ListenerStep(d) PROVE Lives'
  <2>1. newcomer' = newcomer /\ at'[Main] = at[Main] /\ at'[Acceptor] = at[Acceptor]
        BY <1>0, <1>1, ListenerMoves, OneMoves, Apart DEF Threads
  <2>2. UNCHANGED <<doomed, mem, fd>>
        BY <1>1 DEF ListenerStep, Loop, NoData, ReceiveLength, ReceiveBody, OnReceiveReturns, ListenerFails,
              Send, SendLength, SendBody, PickClient, objects, control
  <2>3. UNCHANGED tasks \/ TP!Thread(d)
        BY <1>1, ListenerTasks
  <2>4. ASSUME NEW c \in Clients PROVE LifeOK(c)'
    <3>1. call'[c] = call[c] /\ FlagOf(c)'
      <4>1. CASE UNCHANGED tasks
            BY <4>1 DEF tasks, Lives, LifeOK, FlagOf
      <4>2. CASE TP!Thread(d)
            BY <1>0, <4>2, FlagKept DEF Lives, LifeOK, TP!Thread, TP!StartFunction, TP!LoopTest, TP!StopFunction,
               TP!InnerReturns, TP!InnerFails
      <4> QED BY <2>3, <4>1, <4>2
    <3> QED BY <1>0, <2>1, <2>2, <3>1 DEF Lives, LifeOK, Expected
  <2> QED BY <2>2, <2>4 DEF Lives
<1>2. CASE UNCHANGED <<tasks, objects, control>>
  <2>1. ASSUME NEW c \in Clients PROVE LifeOK(c)'
        BY <1>0, <1>2, SameLife DEF Lives, tasks, objects, control
  <2> QED BY <1>2, <2>1 DEF Lives, control
<1> QED BY <1>1, <1>2, MainLives, AcceptorLives, StepCases, OthersStill
-----------------------------------------------------------------------------
(* No thread of a video server meets a deleted object. *)

LEMMA NoMisstep ==
  ASSUME IInv, NotChat, Orderly, Lives, NEW t \in Threads
  PROVE  ~Dangling(t) /\ ~Garbage(t) /\ (Torn(t) => App = "bcast")
<1>0. Typed /\ TasksOK /\ ListsOK
      BY DEF IInv
<1>1. ASSUME NEW c \in Clients, mem[c] = "deleted"
      PROVE  /\ at[Main] \in {"release", "releasing", "done"}
             /\ call[c] \in {"absent", "deleted"} /\ pc[c] = "none" /\ writing[c] = Nothing
  <2>1. at[Main] \in {"release", "releasing", "done"} /\ call[c] \in {"absent", "deleted"} /\ pc[c] = "none"
        BY <1>1 DEF Lives, LifeOK, Expected, FlagOf
  <2> QED BY <1>0, <2>1 DEF TasksOK, AtHome, At, Tasks
<1>2. ~Dangling(t)
  <2>1. ASSUME writing[t].step \in {"len", "body"}, mem[writing[t].to] = "deleted" PROVE FALSE
    <3>1. writing[t] # Nothing /\ writing[t].to \in Clients
          BY <1>0, <2>1, Messages DEF Typed, WritingTypes, MessageOK
    <3>2. at[Main] \in {"release", "releasing", "done"}
          BY <1>1, <2>1, <3>1
    <3>3. t # Main
          BY <3>1, <3>2 DEF Orderly
    <3>4. t # Acceptor
          BY <1>0, <3>1, <3>2, Retired
    <3>5. t \in Clients /\ writing[t].to = t
          BY <3>1, <3>3, <3>4 DEF Threads, Orderly, Addressed
    <3> QED BY <1>1, <2>1, <3>1, <3>5
  <2>2. ASSUME t \in Clients, call[t] = "deleted", pc[t] # "none" PROVE FALSE
        BY <2>2 DEF Lives, LifeOK, FlagOf
  <2>3. ASSUME t = Acceptor, at[t] \in {"pushing", "listen", "create", "created"}, mem[newcomer] = "deleted" PROVE FALSE
    <3>1. newcomer \in Clients
          BY <1>0, <2>3 DEF Typed, NewcomerTypes
    <3>2. at[Main] \in {"release", "releasing", "done"}
          BY <1>1, <2>3, <3>1
    <3> QED BY <1>0, <2>3, <3>2, Retired
  <2> QED BY <2>1, <2>2, <2>3 DEF Dangling
<1>3. ~Garbage(t)
  <2> SUFFICES ASSUME doomed # <<>>, ~NoClientThread, call[Head(doomed)] = "absent" PROVE FALSE
      BY DEF Garbage
  <2>1. /\ at[Main] \in Releasing /\ newcomer = NoOne /\ Head(doomed) \in Clients
        /\ mem[Head(doomed)] = "live"
        BY Doomed
  <2> QED BY <2>1, Apart DEF Lives, LifeOK, Expected, NoClientThread
<1>4. ASSUME Torn(t) PROVE App = "bcast"
  <2>1. changing = Acceptor /\ changing # t
        BY <1>0, <1>4 DEF Torn, Typed, ServerTypes, Orderly
  <2>2. CASE writing[t].step = "pick"
    <3>1. writing[t] # Nothing
          BY <2>2, Messages
    <3>2. t \notin Clients
          BY <2>2, <3>1 DEF Orderly, Addressed
    <3> QED BY <2>1, <3>1, <3>2 DEF Threads, Orderly
  <2>3. CASE t = Main /\ (At(t, "scan") \/ At(t, "erase"))
        BY <2>3 DEF Orderly, Updating, At
  <2> QED BY <1>4, <2>1, <2>2, <2>3 DEF Torn, ReadsVector, ChangesVector
<1> QED BY <1>2, <1>3, <1>4

LEMMA NextFate ==
  ASSUME IInv, NotChat, Orderly, Lives, NoUndefinedBehaviour, Step
  PROVE  NoUndefinedBehaviour'
<1>0. App' = App
      BY Writers
<1>1. ASSUME NEW t \in Threads, Misstep(t) PROVE fate' = "torn" /\ App = "bcast"
      BY <1>1, NoMisstep DEF Misstep
<1>2. fate' \in {fate, "killed", "torn"} /\ (fate' = "torn" => fate = "torn" \/ App = "bcast")
      BY <1>1, Writers DEF SendLength, SendBody, SocketSend
<1> QED BY <1>0, <1>2 DEF NoUndefinedBehaviour, NoDeadObject

VInv == NotChat /\ IInv /\ Orderly /\ Lives /\ NoUndefinedBehaviour

LEMMA InitVideo == Init /\ NotChat => VInv
  BY InitInv, InitOrderly, InitLives DEF VInv, NoUndefinedBehaviour, NoDeadObject, Init

LEMMA NextVideo == VInv /\ Step => VInv'
<1> SUFFICES ASSUME VInv, Step PROVE VInv'
    OBVIOUS
<1>1. NotChat'
      BY Writers DEF VInv, NotChat
<1> QED BY <1>1, NextInv, NextOrderly, NextLives, NextFate DEF VInv, IInv

\* The program does not change, so App # "chat" speaks of the whole behaviour.
THEOREM VideoInvariance == Spec /\ NotChat => []VInv
  BY InitVideo, NextVideo, PTL DEF Spec, Step

\* VideoServer and VideoBcastServer use no deleted client or task and no pointer that
\* was never written, although a peer may end a listener at any time; VideoServer does not
\* use the vector while it changes either (Update is commented out, video-server.cpp:79-140).
THEOREM DefinedBehaviour == Spec /\ NotChat => []NoUndefinedBehaviour
<1>1. VInv => NoUndefinedBehaviour
      BY DEF VInv
<1> QED BY <1>1, VideoInvariance, PTL

\* TcpServerInternal.cpp:64-96: once Stop() and Release() have returned, no thread,
\* task, client object or connection is left, whatever the listeners were doing.
THEOREM NothingLeft == Spec /\ NotChat => []AllReleased
<1>1. VInv => AllReleased
  <2> SUFFICES ASSUME VInv, at[Main] = "done"
               PROVE  /\ \A t \in Tasks : call[t] \in {"absent", "deleted"} /\ pc[t] \in {"none", "exited"}
                      /\ \A c \in Clients : mem[c] # "live" /\ fd[c] # "open"
      BY DEF AllReleased
  <2>0. Typed /\ TasksOK /\ ListsOK /\ newcomer = NoOne
        BY Retired DEF VInv, IInv
  <2>1. call[Acceptor] \in {"absent", "deleted"} /\ pc[Acceptor] = "none"
        BY <2>0, Retired DEF TasksOK, AcceptTask
  <2>2. Range(vec) = {} /\ Range(doomed) = {}
        BY <2>0 DEF ListsOK, Lists, Updating, Releasing, Range
  <2>3. \A c \in Clients : mem[c] # "live"
        BY <2>0, <2>2, Apart DEF ListsOK, NoLostClient
  <2>4. \A c \in Clients : fd[c] # "open" /\ call[c] \in {"absent", "deleted"} /\ pc[c] = "none"
        BY <2>0, <2>3 DEF VInv, Lives, LifeOK, FlagOf, Expected, Typed, ObjectTypes
  <2> QED BY <2>1, <2>3, <2>4 DEF Tasks
<1> QED BY <1>1, VideoInvariance, PTL

-----------------------------------------------------------------------------
(* Every step is a step of ThreadedProcess for the tasks, or none. *)

LEMMA InitProtocol == Init => TP!Init
  BY DEF Init

LEMMA NextProtocol == VInv /\ Step => [TP!Next]_TP!vars
<1> SUFFICES ASSUME VInv, Step PROVE TP!Next \/ UNCHANGED TP!vars
    OBVIOUS
<1>0. Typed /\ tasks = TP!vars /\ Clients \subseteq Tasks /\ Acceptor \in Tasks /\ tasks' = TP!vars'
      BY DEF VInv, IInv, tasks, TP!vars, Tasks
<1>1. ASSUME NEW t \in Tasks, TP!Owner(t) \/ TP!Thread(t) PROVE TP!Next
      BY <1>1 DEF TP!Next
<1>2. CASE (MainStep /\ Defined(Main)) \/ Cast \/ Quit
  <2>1. CASE DeleteClient
    <3>1. CASE NoClientThread
          BY <1>0, <2>1, <3>1 DEF DeleteClient, tasks
    <3>2. CASE ~NoClientThread
      <4>1. /\ Head(doomed) \in Clients /\ mem[Head(doomed)] = "live" /\ newcomer = NoOne
            /\ at[Main] = "release"
            BY <2>1, Doomed DEF DeleteClient, VInv, At, Releasing
      <4>2. call[Head(doomed)] = "idle"
            BY <3>2, <4>1, Apart DEF VInv, Lives, LifeOK, Expected, NoClientThread
      <4>3. TP!Delete(Head(doomed))
            BY <2>1, <3>2, <4>2 DEF DeleteClient, TP!Delete
      <4> QED BY <1>0, <1>1, <4>1, <4>3 DEF TP!Owner
    <3> QED BY <3>1, <3>2
  <2>2. CASE doomed # <<>> /\ (TP!ClearRunning(Head(doomed)) \/ TP!Join(Head(doomed)))
    <3>1. Head(doomed) \in Clients
          BY <1>0, <2>2, HeadTail DEF Typed, LoopTypes
    <3> QED BY <1>0, <1>1, <2>2, <3>1 DEF TP!Owner
  <2> QED BY <1>0, <1>1, <1>2, <2>1, <2>2, MainTasks
<1>3. CASE AcceptorStep
      BY <1>0, <1>1, <1>3, AcceptorTasks DEF TP!Owner
<1>4. ASSUME NEW c \in Clients, ListenerStep(c) PROVE TP!Next \/ UNCHANGED TP!vars
      BY <1>0, <1>1, <1>4, ListenerTasks
<1> QED BY <1>0, <1>2, <1>3, <1>4, StepCases, OthersStill

\* The accept task is Main's, a listener's task the acceptor's first and Main's in the end
\* (TcpRegisteredClientInternal.cpp:47-68): all the same each sees start(), stop() and delete
\* one after the other, as ThreadedProcess wants them.
THEOREM ProtocolKept == Spec /\ NotChat => TaskProtocol
  BY VideoInvariance, InitProtocol, NextProtocol, NextVideo, InitVideo, PTL DEF Spec, Step, TaskProtocol, TP!Spec
-----------------------------------------------------------------------------
(* The frames of a connection: at most one thread is writing to a client.      *)

WritesTo(t, c) == writing[t].step \in {"len", "body"} /\ writing[t].to = c
InBody(t, c)   == writing[t].step = "body" /\ writing[t].to = c

\* Nothing can be written to c any more.
Lost(c) == peer[c] = "reset" \/ fd[c] \in {"bad", "closed"}

\* The last chunk is a length exactly when its sender is about to send the body.
FrameOK(c) ==
  /\ \A t \in Threads :
       InBody(t, c) => Lost(c) \/ last[c] = [by |-> t, part |-> "len", kind |-> writing[t].kind]
  /\ last[c].part = "len" => Lost(c) \/ (last[c].by \in Threads /\ InBody(last[c].by, c))

\* The acceptor has not yet sent the length of the size, or something was sent.
SizeOK(c) ==
  mem[c] = "live" /\ last[c] = NoChunk =>
    Lost(c) \/ (writing[Acceptor].step = "len" /\ writing[Acceptor].to = c)

Framed ==
  /\ writing[Main].step \in {"len", "body"} => writing[Main].to \in Range(vec)
  /\ \A c \in Clients : FrameOK(c) /\ SizeOK(c)

LEMMA InitFramed == Init => Framed
  BY Apart DEF Init, Framed, FrameOK, SizeOK, InBody, NoChunk, Nothing, Threads

LEMMA OneWriter ==
  ASSUME VInv, Framed, NEW c \in Clients, NEW t \in Threads, NEW u \in Threads, WritesTo(t, c), WritesTo(u, c)
  PROVE  t = u
<1>0. Typed /\ TasksOK /\ ListsOK /\ Orderly /\ Lives
      BY DEF VInv, IInv
<1>1. ASSUME NEW v \in Threads, WritesTo(v, c)
      PROVE  \/ v = Main /\ App = "bcast" /\ c \in Range(vec)
             \/ v = Acceptor /\ c = newcomer /\ at[Acceptor] = "push"
             \/ v = c
  <2>1. writing[v] # Nothing
        BY <1>1, Messages DEF WritesTo
  <2>2. CASE v = Main
        BY <1>0, <1>1, <2>1, <2>2 DEF WritesTo, Framed, Orderly
  <2>3. CASE v = Acceptor
        BY <1>0, <1>1, <2>1, <2>3 DEF WritesTo, Orderly, Addressed
  <2>4. CASE v \in Clients
        BY <1>0, <1>1, <2>1, <2>4 DEF WritesTo, Orderly, Addressed
  <2> QED BY <2>2, <2>3, <2>4 DEF Threads
<1>2. ASSUME WritesTo(c, c) PROVE App # "bcast" /\ ~(c = newcomer /\ at[Acceptor] = "push")
  <2>1. writing[c] # Nothing
        BY <1>2, Messages DEF WritesTo
  <2>2. pc[c] # "none"
        BY <1>0, <2>1 DEF TasksOK, AtHome, At, Tasks
  <2>3. call[c] # "absent"
        BY <1>0, <2>2 DEF Lives, LifeOK, FlagOf
  <2> QED BY <1>0, <2>3 DEF Lives, LifeOK, Expected
<1>3. c \in Range(vec) => ~(c = newcomer /\ at[Acceptor] = "push")
      BY <1>0 DEF ListsOK, EarlyOK, Early
<1> QED BY <1>1, <1>2, <1>3, Apart

\* A loss is for good.
LEMMA StaysLost ==
  ASSUME IInv, Step, NEW c \in Clients, Lost(c)
  PROVE  Lost(c)'
<1>0. /\ peer \in [Clients -> {"idle", "open", "mute", "closed", "reset"}]
      /\ fd \in [Clients -> {"none", "open", "bad", "closed"}]
      BY DEF IInv, Typed, NetworkTypes, ObjectTypes
<1>1. peer[c] = "reset" => peer'[c] = "reset"
  <2>1. CASE UNCHANGED <<peer, sent>>
        BY <2>1
  <2>2. ASSUME NEW d \in Clients, PeerStep(d) PROVE peer[c] = "reset" => peer'[c] = "reset"
        BY <1>0, <2>2 DEF PeerStep, Connect, PeerSends, PeerLeaves
  <2> QED BY <2>1, <2>2, Writers
<1>2. fd[c] \in {"bad", "closed"} => fd'[c] \in {"bad", "closed"}
  <2>1. CASE UNCHANGED <<mem, fd>>
        BY <2>1
  <2>2. ASSUME NEW d \in Clients, Accept(d) PROVE fd[c] \in {"bad", "closed"} => fd'[c] = fd[c]
    <3>1. fd[d] = "none"
          BY <2>2 DEF Accept, IInv, Aligned
    <3> QED BY <1>0, <2>2, <3>1 DEF Accept
  <2>3. CASE DeleteClient
        BY <1>0, <2>3 DEF DeleteClient
  <2> QED BY <2>1, <2>2, <2>3, Writers
<1> QED BY <1>1, <1>2 DEF Lost

\* Thread u leaves what it is sending alone, or begins to send.
Begins(u) ==
  \/ writing'[u] = writing[u]
  \/ writing[u] = Nothing /\ writing'[u].step \in {"none", "pick"}
  \/ writing[u] = Nothing /\ writing'[u].step = "len" /\ u # Main

\* A step is one of a Send, or writes nothing.
LEMMA Writings ==
  ASSUME Typed, Step
  PROVE  \/ \E t \in Threads : Send(t)
         \/ /\ last' = last
            /\ \A u \in Threads : Begins(u)
<1>0. Main \in Threads /\ Acceptor \in Threads /\ \A c \in Clients : c \in Threads
      BY DEF Threads
<1>1. last' = last \/ \E t \in Threads : Send(t)
      BY Writers DEF Send
<1>2. ASSUME NEW t \in Threads, NEW p, NEW m, Goto(t, p, m), writing[t] = Nothing,
             m.step \in {"none", "pick"} \/ (t # Main /\ m.step = "len")
      PROVE  \A u \in Threads : Begins(u)
      BY <1>2, Gone DEF Begins
<1>3. CASE (MainStep \/ Cast \/ Quit) /\ ~Send(Main)
  <2>1. \/ writing' = writing
        \/ writing[Main] = Nothing /\ \E p, m : m \in {Nothing, ToAll("cast"), ToAll("chat")} /\ Goto(Main, p, m)
    <3>1. CASE UNCHANGED writing
          BY <3>1
    <3>2. CASE Cast \/ Quit
          BY <3>2 DEF Cast, Quit, MainGoes, At
    <3>3. CASE MainStep /\ ~Send(Main) /\ ~UNCHANGED writing
      <4>1. writing[Main] = Nothing
            BY <3>3 DEF MainStep, Reserve, Start, Scan, EraseBegins, EraseEnds, Announce, UpdateReturns,
               StopListener, DeleteClient, Stop, ReleaseReturns, At
      <4>2. \E p, m : m \in {Nothing, ToAll("chat")} /\ Goto(Main, p, m)
            BY <3>3 DEF MainStep, Reserve, Start, Scan, EraseBegins, EraseEnds, Announce, UpdateReturns,
               StopListener, DeleteClient, Stop, ReleaseReturns, MainGoes
      <4> QED BY <4>1, <4>2
    <3> QED BY <1>3, <3>1, <3>2, <3>3
  <2>2. \A m \in {Nothing, ToAll("cast"), ToAll("chat")} : m.step \in {"none", "pick"}
        BY Messages DEF Kinds
  <2> QED BY <1>0, <1>1, <1>2, <2>1, <2>2, Apart DEF Begins
<1>4. CASE AcceptorStep /\ ~Send(Acceptor)
  <2>1. \/ writing' = writing
        \/ /\ writing[Acceptor] = Nothing
           /\ \E c \in Clients : \E p, m : m \in {Nothing, ToAll("chat"), ToOne(c, "size")} /\ Goto(Acceptor, p, m)
    <3>1. CASE Loop(Acceptor) \/ AcceptorStarts \/ NoConnection
          BY <3>1 DEF Loop, AcceptorStarts, NoConnection, control
    <3>2. CASE \E c \in Clients : Accept(c)
          BY <3>2 DEF Accept, At
    <3>3. CASE ReceiveName \/ PushBegins \/ PushEnds \/ StartListener \/ AcceptorReturns
      <4>1. /\ writing[Acceptor] = Nothing /\ at[Acceptor] # "poll"
            /\ \E p, m : m \in {Nothing, ToAll("chat")} /\ Goto(Acceptor, p, m)
            BY <3>3 DEF ReceiveName, ReceivePart, PushBegins, PushEnds, StartListener, AcceptorReturns, At
      <4>2. newcomer \in Clients
            BY <4>1 DEF Typed, NewcomerTypes
      <4> QED BY <4>1, <4>2
    <3> QED BY <1>4, <3>1, <3>2, <3>3 DEF AcceptorStep
  <2>2. \A c \in Clients : \A m : m \in {Nothing, ToAll("chat"), ToOne(c, "size")} => m.step \in {"none", "len", "pick"}
        BY Messages DEF Kinds
  <2> QED BY <1>0, <1>1, <1>2, <2>1, <2>2, Apart DEF Begins
<1>5. ASSUME NEW c \in Clients, ListenerStep(c), ~Send(c)
      PROVE  \A u \in Threads : Begins(u)
  <2>1. \/ writing' = writing
        \/ writing[c] = Nothing /\ \E p, m : m \in {Nothing, ToAll("chat"), ToOne(c, "reply")} /\ Goto(c, p, m)
        BY <1>5 DEF ListenerStep, Loop, NoData, ReceiveLength, ReceiveBody, OnReceiveReturns, ListenerFails,
           ListenerIn, At, control
  <2>2. \A m : m \in {Nothing, ToAll("chat"), ToOne(c, "reply")} => m.step \in {"none", "len", "pick"}
        BY Messages DEF Kinds
  <2> QED BY <1>0, <1>2, <2>1, <2>2, Apart DEF Begins
<1>6. CASE UNCHANGED control
      BY <1>1, <1>6 DEF control, Begins
<1> QED BY <1>0, <1>1, <1>3, <1>4, <1>5, <1>6, StepCases, OthersStill

\* What a step of Send does to the connections.
LEMMA SendSteps ==
  ASSUME Typed, NEW t \in Threads, Send(t)
  PROVE  /\ UNCHANGED <<mem, fd, peer, vec, at>>
         /\ \A u \in Threads : u # t => writing'[u] = writing[u]
         /\ \/ /\ writing[t].step = "len" /\ writing'[t].step = "body"
               /\ writing'[t].to = writing[t].to /\ writing'[t].kind = writing[t].kind
            \/ writing[t].step = "body" /\ writing'[t].step \in {"none", "pick"}
            \/ writing[t].step = "pick" /\ (writing'[t].step = "len" => writing'[t].to \in Range(vec))
                                        /\ writing'[t].step \in {"none", "len"}
         /\ \A c \in Clients :
              \/ last'[c] = last[c] /\ (WritesTo(t, c) => Lost(c))
              \/ /\ WritesTo(t, c) /\ ~Lost(c) /\ fd[c] = "open"
                 /\ last'[c] = [by |-> t, part |-> writing[t].step, kind |-> writing[t].kind]
<1> USE DEF Typed, WritingTypes
<1>1. UNCHANGED <<mem, fd, peer, vec, at>>
      BY DEF Send, SendLength, SendBody, PickClient, objects, server, network
<1>2. \A u \in Threads : u # t => writing'[u] = writing[u]
      BY DEF Send, SendLength, SendBody, PickClient
<1>3. \/ /\ writing[t].step = "len" /\ writing'[t].step = "body"
         /\ writing'[t].to = writing[t].to /\ writing'[t].kind = writing[t].kind
      \/ writing[t].step = "body" /\ writing'[t].step \in {"none", "pick"}
      \/ writing[t].step = "pick" /\ (writing'[t].step = "len" => writing'[t].to \in Range(vec))
                                  /\ writing'[t].step \in {"none", "len"}
  <2>1. PICK m : /\ Sent(t, m)
                 /\ \/ writing[t].step = "len" /\ m.step = "body" /\ m.to = writing[t].to
                    \/ writing[t].step = "body" /\ IF writing[t].all THEN m.step = "pick" ELSE m = Nothing
                    \/ writing[t].step = "pick" /\ (m = Nothing \/ (m.step = "len" /\ m.to \in Range(vec)))
        BY SendMoves DEF Send
  <2>2. writing'[t] = m
        BY <2>1 DEF Sent
  <2> QED BY <2>1, <2>2, Messages DEF Sent
<1>4. ASSUME NEW c \in Clients
      PROVE  \/ last'[c] = last[c] /\ (WritesTo(t, c) => Lost(c))
             \/ /\ WritesTo(t, c) /\ ~Lost(c) /\ fd[c] = "open"
                /\ last'[c] = [by |-> t, part |-> writing[t].step, kind |-> writing[t].kind]
  <2>1. CASE PickClient(t)
        BY <2>1 DEF PickClient, network, WritesTo
  <2>2. ASSUME NEW part \in {"len", "body"}, writing[t].step = part, SocketSend(t, writing[t].to, part)
        PROVE  \/ last'[c] = last[c] /\ (WritesTo(t, c) => Lost(c))
               \/ /\ WritesTo(t, c) /\ ~Lost(c) /\ fd[c] = "open"
                  /\ last'[c] = [by |-> t, part |-> writing[t].step, kind |-> writing[t].kind]
    <3>1. last \in [Clients -> Chunks \cup {NoChunk}]
          BY DEF LastTypes
    <3> QED BY <2>2, <3>1 DEF SocketSend, WritesTo, Lost
  <2> QED BY <2>1, <2>2 DEF Send, SendLength, SendBody
<1> QED BY <1>1, <1>2, <1>3, <1>4

LEMMA LastParts ==
  ASSUME Typed, NEW c \in Clients
  PROVE  last[c].part \in {"len", "body"} /\ NoChunk \notin Chunks
  BY DEF Typed, LastTypes, Chunks, NoChunk, Kinds

LEMMA NextFrames ==
  ASSUME VInv, Framed, Step, NEW c \in Clients
  PROVE  FrameOK(c)'
<1>0. Typed /\ FrameOK(c) /\ (Lost(c) => Lost(c)')
      BY StaysLost DEF VInv, IInv, Framed
<1>1. ASSUME NEW t \in Threads, Send(t) PROVE FrameOK(c)'
  <2>1. CASE Lost(c)
        BY <1>0, <2>1 DEF FrameOK
  <2>2. CASE ~Lost(c) /\ ~WritesTo(t, c)
    <3>1. last'[c] = last[c]
          BY <1>0, <1>1, <2>2, SendSteps
    <3>2. ~InBody(t, c) /\ ~InBody(t, c)'
          BY <1>0, <1>1, <2>2, SendSteps DEF WritesTo, InBody
    <3>3. \A u \in Threads : u # t => writing'[u] = writing[u]
          BY <1>0, <1>1, SendSteps
    <3> QED BY <1>0, <3>1, <3>2, <3>3 DEF FrameOK, InBody
  <2>3. CASE ~Lost(c) /\ WritesTo(t, c)
    <3>1. last'[c] = [by |-> t, part |-> writing[t].step, kind |-> writing[t].kind]
          BY <1>0, <1>1, <2>3, SendSteps
    <3>2. \A u \in Threads : u # t => writing'[u] = writing[u] /\ ~WritesTo(u, c)
          BY <1>0, <1>1, <2>3, SendSteps, OneWriter
    <3>3. \A u \in Threads : InBody(u, c)' => u = t
          BY <3>2 DEF InBody, WritesTo
    <3>4. CASE writing[t].step = "len"
      <4>1. writing'[t].step = "body" /\ writing'[t].to = c /\ writing'[t].kind = writing[t].kind
            BY <1>0, <1>1, <2>3, <3>4, SendSteps DEF WritesTo
      <4> QED BY <3>1, <3>3, <3>4, <4>1 DEF FrameOK, InBody
    <3>5. CASE writing[t].step = "body"
      <4>1. writing'[t].step # "body"
            BY <1>0, <1>1, <3>5, SendSteps
      <4> QED BY <3>1, <3>3, <3>5, <4>1 DEF FrameOK, InBody
    <3> QED BY <2>3, <3>4, <3>5 DEF WritesTo
  <2> QED BY <2>1, <2>2, <2>3
<1>2. CASE /\ last' = last
           /\ \A u \in Threads : Begins(u)
  <2>1. \A u \in Threads : writing'[u] = writing[u] \/ (~InBody(u, c) /\ ~InBody(u, c)')
        BY <1>2, Messages DEF InBody, Begins
  <2> QED BY <1>0, <1>2, <2>1 DEF FrameOK, InBody
<1> QED BY <1>0, <1>1, <1>2, Writings

LEMMA NextSizes ==
  ASSUME VInv, Framed, Step, NEW c \in Clients
  PROVE  SizeOK(c)'
<1>0. Typed /\ SizeOK(c) /\ (Lost(c) => Lost(c)') /\ Acceptor \in Threads
      BY StaysLost DEF VInv, IInv, Framed, Threads
<1> SUFFICES ASSUME mem'[c] = "live", last'[c] = NoChunk, ~Lost(c)
             PROVE  Lost(c)' \/ (writing'[Acceptor].step = "len" /\ writing'[Acceptor].to = c)
    BY <1>0 DEF SizeOK
<1>1. ASSUME NEW t \in Threads, Send(t)
      PROVE  Lost(c)' \/ (writing'[Acceptor].step = "len" /\ writing'[Acceptor].to = c)
  <2>1. last'[c] = last[c] /\ ~WritesTo(t, c)
    <3>1. writing[t].step \in {"len", "body"} => [by |-> t, part |-> writing[t].step, kind |-> writing[t].kind] # NoChunk
          BY <1>0 DEF Typed, WritingTypes, MessageOK, NoChunk, Kinds
    <3> QED BY <1>0, <1>1, <3>1, SendSteps DEF WritesTo
  <2>2. mem[c] = "live"
        BY <1>0, <1>1, SendSteps
  <2>3. writing[Acceptor].step = "len" /\ writing[Acceptor].to = c
        BY <1>0, <2>1, <2>2 DEF SizeOK
  <2> QED BY <1>0, <1>1, <2>1, <2>3, SendSteps DEF WritesTo
<1>2. CASE /\ last' = last
           /\ \A u \in Threads : Begins(u)
  <2>1. CASE mem[c] = "live"
    <3>1. writing[Acceptor].step = "len" /\ writing[Acceptor].to = c
          BY <1>0, <1>2, <2>1 DEF SizeOK
    <3> QED BY <1>0, <1>2, <3>1, Messages DEF Begins
  <2>2. CASE mem[c] # "live"
    <3>1. Accept(c)
      <4>1. ASSUME NEW d \in Clients, Accept(d) PROVE d = c
            BY <1>0, <2>2, <4>1 DEF Accept, Typed, ObjectTypes
      <4>2. ~DeleteClient
            BY <1>0, <2>2 DEF DeleteClient, Typed, ObjectTypes
      <4> QED BY <2>2, <4>1, <4>2, Writers
    <3>2. writing'[Acceptor] = ToOne(c, "size")
          BY <1>0, <3>1, Gone DEF Accept, VInv, NotChat
    <3> QED BY <3>2, Messages DEF Kinds
  <2> QED BY <2>1, <2>2
<1> QED BY <1>0, <1>1, <1>2, Writings

LEMMA NextFramed == VInv /\ Framed /\ Step => Framed'
<1> SUFFICES ASSUME VInv, Framed, Step PROVE Framed'
    OBVIOUS
<1>0. Typed /\ Main \in Threads /\ vec \in Seq(Clients)
      BY DEF VInv, IInv, Typed, ServerTypes, Threads
<1>1. writing'[Main].step \in {"len", "body"} => writing'[Main].to \in Range(vec')
  <2>1. ASSUME NEW t \in Threads, Send(t)
        PROVE  writing'[Main].step \in {"len", "body"} => writing'[Main].to \in Range(vec')
        BY <1>0, <2>1, SendSteps DEF Framed
  <2>2. CASE \A u \in Threads : Begins(u)
    <3> SUFFICES ASSUME writing'[Main].step \in {"len", "body"} PROVE writing'[Main].to \in Range(vec')
        OBVIOUS
    <3>1. CASE writing'[Main] = writing[Main] /\ writing[Main].step \in {"len", "body"}
      <4>1. at[Main] = "loop"
            BY <3>1, Messages DEF VInv, Orderly
      <4>2. ~EraseEnds /\ ~ReleaseReturns
            BY <4>1 DEF EraseEnds, ReleaseReturns, At
      <4>3. Range(vec) \subseteq Range(vec')
        <5>1. CASE PushEnds
          <6>1. newcomer \in Clients /\ vec' = Append(vec, newcomer)
                BY <1>0, <5>1 DEF PushEnds, At, Typed, NewcomerTypes
          <6> QED BY <1>0, <6>1, RangeAppend
        <5> QED BY <4>2, <5>1, Writers
      <4> QED BY <3>1, <4>3 DEF Framed
    <3> QED BY <1>0, <2>2, <3>1 DEF Begins
  <2> QED BY <1>0, <2>1, <2>2, Writings
<1> QED BY <1>1, NextFrames, NextSizes DEF Framed

FInv == VInv /\ Framed

LEMMA FramedInvariance == Spec /\ NotChat => []FInv
<1>1. Init /\ NotChat => FInv
      BY InitVideo, InitFramed DEF FInv
<1>2. FInv /\ Step => FInv'
      BY NextVideo, NextFramed DEF FInv
<1> QED BY <1>1, <1>2, PTL DEF Spec, Step

\* A chunk that reaches c is the one its connection waits for.
LEMMA NextChunk ==
  ASSUME FInv, Step, NEW c \in Clients, last'[c] # last[c]
  PROVE  /\ IF last[c].part = "body" THEN last'[c].part = "len"
                                     ELSE last'[c] = [last[c] EXCEPT !.part = "body"]
         /\ last[c] = NoChunk => last'[c].kind = "size"
<1>0. VInv /\ Framed /\ Typed /\ FrameOK(c) /\ SizeOK(c) /\ Acceptor \in Threads
      BY DEF FInv, VInv, IInv, Framed, Threads
<1>1. PICK t \in Threads : Send(t)
      BY Writers DEF Send
<1>2. /\ WritesTo(t, c) /\ ~Lost(c) /\ fd[c] = "open"
      /\ last'[c] = [by |-> t, part |-> writing[t].step, kind |-> writing[t].kind]
      BY <1>0, <1>1, SendSteps
<1>3. CASE writing[t].step = "len"
  <2>1. last[c].part # "len"
    <3>1. ASSUME last[c].part = "len" PROVE FALSE
      <4>1. last[c].by \in Threads /\ InBody(last[c].by, c)
            BY <1>0, <1>2, <3>1 DEF FrameOK
      <4>2. last[c].by = t
            BY <1>0, <1>2, <4>1, OneWriter DEF InBody, WritesTo
      <4> QED BY <1>3, <4>1, <4>2 DEF InBody
    <3> QED BY <3>1
  <2>2. last[c] = NoChunk => last'[c].kind = "size"
    <3>1. ASSUME last[c] = NoChunk PROVE writing[t].kind = "size"
      <4>1. mem[c] = "live"
            BY <1>2 DEF FInv, VInv, Lives, LifeOK
      <4>2. WritesTo(Acceptor, c)
            BY <1>0, <1>2, <3>1, <4>1 DEF SizeOK, WritesTo
      <4>3. t = Acceptor
            BY <1>0, <1>2, <4>2, OneWriter
      <4>4. writing[t] # Nothing
            BY <1>3, Messages
      <4> QED BY <1>0, <4>3, <4>4 DEF VInv, Orderly
    <3> QED BY <1>2, <3>1
  <2> QED BY <1>0, <1>2, <1>3, <2>1, <2>2, LastParts
<1>4. CASE writing[t].step = "body"
  <2>1. last[c] = [by |-> t, part |-> "len", kind |-> writing[t].kind]
        BY <1>0, <1>2, <1>4 DEF FrameOK, InBody, WritesTo
  <2>2. last[c] # NoChunk
        BY <2>1 DEF NoChunk
  <2>3. last'[c] = [last[c] EXCEPT !.part = "body"]
        BY <1>2, <1>4, <2>1
  <2> QED BY <2>1, <2>2, <2>3
<1> QED BY <1>2, <1>3, <1>4 DEF WritesTo

\* TcpRegisteredClientInternal.cpp:25-31: a length is followed by its body, although the
\* acceptor, the listener and Main all send to one client and nothing locks the socket.
THEOREM WholeFrames == Spec /\ NotChat => FramesIntact
<1>1. FInv /\ Step =>
        [\A c \in Clients : last'[c] # last[c] =>
           IF last[c].part = "body" THEN last'[c].part = "len"
                                    ELSE last'[c] = [last[c] EXCEPT !.part = "body"]]_vars
      BY NextChunk
<1> QED BY <1>1, FramedInvariance, PTL DEF Spec, Step, FramesIntact

\* TcpServerInternal.cpp:139-142: the size that OnConnect sends is the first thing a client
\* gets, even when Main sends to all between push_back and Start.
THEOREM SizeBeforeFrames == Spec /\ NotChat => SizeFirst
<1>1. FInv /\ Step =>
        [\A c \in Clients : last[c] = NoChunk /\ last'[c] # NoChunk => last'[c].kind = "size"]_vars
      BY NextChunk
<1> QED BY <1>1, FramedInvariance, PTL DEF Spec, Step, SizeFirst
===============================================================================
