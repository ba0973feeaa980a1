-------------------------- MODULE WebSocket_proofs --------------------------
(***************************************************************************)
(* Theorems about WebSocket.  In this order: an end starts one write at a   *)
(* time; an end sends one close frame a thread at most; the types; the     *)
(* set of connections; the lifecycle each application sees; the wire holds  *)
(* whole frames; messages come in order.  Each invariant is the one before  *)
(* it and what it needs in addition:                                        *)
(*   SendInv, Typed, ToldInv, NetInv, FramesInv, WholeInv, OrderInv.        *)
(***************************************************************************)
EXTENDS WebSocket, FiniteSetTheorems, SequenceTheorems, TLAPS

Frames == [op : Ops, n : Nat]
Writes == {IdleWrite} \cup [op : {"header", "message"}, frame : Frames, res : {"wait", "ok", "err"}]

\* The types of the variables that sending uses.
SendType ==
  /\ posted \in [Ends -> Seq(Frames)]
  /\ send_queue \in [Ends -> Seq(Frames)]
  /\ starts \in [Ends -> Nat]
  /\ wr \in [Ends -> Writes]
  /\ count \in [Ends -> Nat]

SendInv == SendType /\ OneWriter

USE DEF Ends, Ops

LEMMA SendInit == Init => SendInv
  <1> SUFFICES ASSUME Init PROVE SendInv
    OBVIOUS
  <1>1. SendType
    BY DEF Init, SendType, Each, Writes
  <1>2. OneWriter
    BY DEF Init, OneWriter, Each, IdleWrite
  <1> QED  BY <1>1, <1>2 DEF SendInv

\* Neither the queue nor the writes depend on anything else.
LEMMA SendStutter ==
  ASSUME SendInv, UNCHANGED <<posted, starts, send_queue, wr, count>>
  PROVE  SendInv'
  BY DEF SendInv, SendType, OneWriter

\* A frame that is posted is not yet in the queue.
LEMMA SendPosts ==
  ASSUME SendInv, NEW e \in Ends, NEW f \in Frames,
         posted' = [posted EXCEPT ![e] = Append(@, f)],
         UNCHANGED <<starts, send_queue, wr>>, count' \in [Ends -> Nat]
  PROVE  SendInv'
  <1>1. posted' \in [Ends -> Seq(Frames)]
    BY DEF SendInv, SendType
  <1> QED  BY <1>1 DEF SendInv, SendType, OneWriter

LEMMA EnqueueKeeps ==
  ASSUME SendInv, NEW e \in Ends, Enqueue(e)
  PROVE  SendInv'
  <1> USE DEF SendInv, SendType
  <1>1. /\ posted[e] \in Seq(Frames) /\ posted[e] # <<>> /\ send_queue[e] \in Seq(Frames)
        /\ posted' = [posted EXCEPT ![e] = Tail(@)]
        /\ send_queue' = [send_queue EXCEPT ![e] = Append(@, Head(posted[e]))]
        /\ starts' = [starts EXCEPT ![e] = @ + (IF send_queue[e] = <<>> THEN 1 ELSE 0)]
        /\ wr' = wr /\ count' = count
    BY DEF Enqueue, QueueOnly, history
  <1>2. Tail(posted[e]) \in Seq(Frames) /\ Head(posted[e]) \in Frames
    BY <1>1
  <1>3. Append(send_queue[e], Head(posted[e])) \in Seq(Frames)
    BY <1>1, <1>2
  <1>4. Append(send_queue[e], Head(posted[e])) # <<>>
    <2> DEFINE q == send_queue[e]
               f == Head(posted[e])
    <2>1. q \in Seq(Frames) /\ f \in Frames
      BY <1>1, <1>2
    <2> HIDE DEF q, f
    <2>2. Append(q, f) # <<>>
      BY <2>1, AppendProperties
    <2> QED  BY <2>2 DEF q, f
  <1>5. SendType'
    BY <1>1, <1>2, <1>3
  <1>6. OneWriter'
    <2>1. starts[e] \in Nat /\ send_queue'[e] # <<>>
          /\ starts'[e] = starts[e] + (IF send_queue[e] = <<>> THEN 1 ELSE 0)
      BY <1>1, <1>4
    <2>2. \A d \in Ends : d # e => starts'[d] = starts[d] /\ send_queue'[d] = send_queue[d]
      BY <1>1
    <2> DEFINE Writing(d) == IF wr[d].op = "idle" THEN 0 ELSE 1
    <2>3. \A d \in Ends : starts[d] + Writing(d) = (IF send_queue[d] = <<>> THEN 0 ELSE 1)
      BY DEF OneWriter
    <2>4. \A d \in Ends : starts'[d] + Writing(d) = (IF send_queue'[d] = <<>> THEN 0 ELSE 1)
      <3> SUFFICES ASSUME NEW d \in Ends
                   PROVE  starts'[d] + Writing(d) = (IF send_queue'[d] = <<>> THEN 0 ELSE 1)
        OBVIOUS
      <3>1. CASE d # e
        BY <3>1, <2>2, <2>3
      <3>2. CASE d = e /\ send_queue[e] = <<>>
        BY <3>2, <2>1, <2>3
      <3>3. CASE d = e /\ send_queue[e] # <<>>
        BY <3>3, <2>1, <2>3
      <3> QED  BY <3>1, <3>2, <3>3
    <2> QED  BY <2>4, <1>1 DEF OneWriter
  <1> QED  BY <1>5, <1>6

LEMMA StartWriteKeeps ==
  ASSUME SendInv, NEW e \in Ends, StartWrite(e)
  PROVE  SendInv'
  <1> USE DEF SendInv, SendType
  <1> DEFINE w == [op |-> IF e = "server" THEN "header" ELSE "message",
                   frame |-> Head(send_queue[e]), res |-> "wait"]
  <1>1. /\ starts[e] > 0 /\ starts[e] \in Nat
        /\ starts' = [starts EXCEPT ![e] = @ - 1] /\ wr' = [wr EXCEPT ![e] = w]
        /\ UNCHANGED <<posted, send_queue, count>>
    BY DEF StartWrite, QueueOnly, history
  <1>2. send_queue[e] # <<>> /\ starts[e] = 1 /\ wr[e].op = "idle"
    BY <1>1 DEF OneWriter
  <1>3. Head(send_queue[e]) \in Frames
    BY <1>2
  <1>4. w \in Writes /\ w.op # "idle"
    BY <1>3 DEF Writes
  <1> HIDE DEF w
  <1>5. SendType'
    BY <1>1, <1>2, <1>4
  <1>6. OneWriter'
    BY <1>1, <1>2, <1>4 DEF OneWriter
  <1> QED  BY <1>5, <1>6

\* A step of a write in progress that leaves it in progress.
LEMMA WriteGoesOn ==
  ASSUME SendInv, NEW e \in Ends, NEW w \in Writes, wr[e].op # "idle", w.op # "idle",
         wr' = [wr EXCEPT ![e] = w], UNCHANGED <<posted, starts, send_queue, count>>
  PROVE  SendInv'
  <1> USE DEF SendInv, SendType
  <1>1. SendType'
    OBVIOUS
  <1>2. OneWriter'
    BY DEF OneWriter
  <1> QED  BY <1>1, <1>2

LEMMA HeaderWrittenKeeps ==
  ASSUME SendInv, HeaderWritten
  PROVE  SendInv'
  <1> USE DEF SendInv, SendType
  <1> DEFINE w == [op |-> "message", frame |-> Head(send_queue["server"]), res |-> "wait"]
  <1>1. /\ wr["server"].op # "idle" /\ wr' = [wr EXCEPT !["server"] = w]
        /\ UNCHANGED <<posted, starts, send_queue, count>>
    BY DEF HeaderWritten, QueueOnly, history
  <1>2. send_queue["server"] # <<>>
    BY <1>1 DEF OneWriter
  <1>3. w \in Writes /\ w.op # "idle"
    BY <1>2 DEF Writes
  <1> QED  BY <1>1, <1>3, WriteGoesOn

LEMMA MessageWrittenKeeps ==
  ASSUME SendInv, NEW e \in Ends, MessageWritten(e)
  PROVE  SendInv'
  <1> USE DEF SendInv, SendType
  <1>1. /\ wr[e].op = "message" /\ send_queue[e] \in Seq(Frames) /\ starts[e] \in Nat
        /\ send_queue' = [send_queue EXCEPT ![e] = Tail(@)]
        /\ starts' = [starts EXCEPT ![e] = @ + (IF Len(send_queue[e]) > 1 THEN 1 ELSE 0)]
        /\ wr' = [wr EXCEPT ![e] = IdleWrite] /\ UNCHANGED <<posted, count>>
    BY DEF MessageWritten, QueueOnly, history
  <1>2. send_queue[e] # <<>> /\ starts[e] = 0
    BY <1>1 DEF OneWriter
  <1>3. Tail(send_queue[e]) \in Seq(Frames) /\ Len(Tail(send_queue[e])) = Len(send_queue[e]) - 1
    BY <1>1, <1>2
  <1>4. Tail(send_queue[e]) = <<>> <=> ~(Len(send_queue[e]) > 1)
    <2>1. Tail(send_queue[e]) = <<>> <=> Len(Tail(send_queue[e])) = 0
      BY <1>3, EmptySeq
    <2> QED  BY <2>1, <1>1, <1>3, LenProperties
  <1>5. SendType'
    BY <1>1, <1>2, <1>3 DEF Writes
  <1>6. OneWriter'
    <2>1. starts[e] = 0 /\ starts'[e] = (IF send_queue'[e] = <<>> THEN 0 ELSE 1)
      BY <1>1, <1>2, <1>4
    <2>2. \A d \in Ends : d # e =>
            starts'[d] = starts[d] /\ send_queue'[d] = send_queue[d] /\ wr'[d] = wr[d]
      BY <1>1
    <2>3. wr'[e].op = "idle"
      BY <1>1 DEF IdleWrite
    <2>4. ASSUME NEW d \in Ends
          PROVE  starts'[d] + (IF wr'[d].op = "idle" THEN 0 ELSE 1) = (IF send_queue'[d] = <<>> THEN 0 ELSE 1)
      <3>1. CASE d # e
        <4>1. starts[d] + (IF wr[d].op = "idle" THEN 0 ELSE 1) = (IF send_queue[d] = <<>> THEN 0 ELSE 1)
          BY DEF OneWriter
        <4> QED  BY <2>2, <3>1, <4>1
      <3>2. CASE d = e
        <4>1. \A n \in {0, 1} : n + 0 = n
          OBVIOUS
        <4> QED  BY <2>1, <2>3, <3>2, <4>1
      <3> QED  BY <3>1, <3>2
    <2> QED  BY <2>4 DEF OneWriter
  <1> QED  BY <1>5, <1>6

LEMMA WriteFailedKeeps ==
  ASSUME SendInv, NEW e \in Ends, WriteFailed(e)
  PROVE  SendInv'
  <1> USE DEF SendInv, SendType
  <1>1. /\ wr[e].res = "err" /\ wr[e] \in Writes
        /\ send_queue' = [send_queue EXCEPT ![e] = <<>>]
        /\ wr' = [wr EXCEPT ![e] = IdleWrite] /\ UNCHANGED <<posted, starts, count>>
    BY DEF WriteFailed, QueueOnly, history
  <1>2. wr[e].op # "idle"
    BY <1>1 DEF Writes, IdleWrite
  <1>3. starts[e] = 0
    BY <1>2 DEF OneWriter
  <1>4. SendType'
    BY <1>1 DEF Writes
  <1>5. OneWriter'
    BY <1>1, <1>3 DEF OneWriter, IdleWrite
  <1> QED  BY <1>4, <1>5

LEMMA AppSendsKeeps ==
  ASSUME SendInv, NEW e \in Ends, AppSends(e)
  PROVE  SendInv'
  <1> DEFINE f == Frame(Script[e][count[e] + 1], count[e] + 1)
  <1>1. /\ count[e] < Len(Script[e]) /\ count[e] \in Nat
        /\ posted' = [posted EXCEPT ![e] = Append(@, f)]
        /\ UNCHANGED <<starts, send_queue, wr>>
    BY DEF AppSends, Send, SendInv, SendType
  <1>2. Script[e] \in Seq({"text", "first", "last", "ping"})
    BY ConstantsAssumption DEF ConstantsAssumption
  <1>3. Script[e][count[e] + 1] \in Ops
    BY <1>1, <1>2
  <1>4. f \in Frames
    BY <1>1, <1>3 DEF Frame, Frames
  <1>5. count' \in [Ends -> Nat]
    BY DEF AppSends, SendInv, SendType
  <1> QED  BY <1>1, <1>4, <1>5, SendPosts

\* The frames the library itself sends.
LEMMA ControlFrames == Frame("close", 0) \in Frames /\ Frame("pong", 0) \in Frames
  BY DEF Frame, Frames

LEMMA SetClosedKeeps ==
  ASSUME SendInv, NEW e \in Ends, NEW a \in Actors, SetClosed(e, a)
  PROVE  SendInv'
  <1>1. /\ posted' = [posted EXCEPT ![e] = Append(@, Frame("close", 0))]
        /\ UNCHANGED <<starts, send_queue, wr, count>>
    BY DEF SetClosed, Send
  <1> QED  BY <1>1, ControlFrames, SendPosts DEF SendInv, SendType

LEMMA ContentHandlerKeeps ==
  ASSUME SendInv, NEW e \in Ends, ContentHandler(e)
  PROVE  SendInv'
  <1>1. UNCHANGED <<starts, send_queue, wr, count>>
    BY DEF ContentHandler, history
  <1>2. \/ posted' = [posted EXCEPT ![e] = Append(@, Frame("pong", 0))]
        \/ posted' = posted
    BY DEF ContentHandler, Send
  <1> QED  BY <1>1, <1>2, ControlFrames, SendPosts, SendStutter DEF SendInv, SendType

\* Completions of asynchronous operations.
LEMMA NetworkKeeps ==
  ASSUME SendInv, NEW e \in Ends, Network(e)
  PROVE  SendInv'
  <1>1. CASE Succeeds(e) \/ Fails(e)
    BY <1>1, SendStutter DEF Succeeds, Fails, sending, history
  <1>2. ASSUME NEW r \in {"ok", "err"}, wr[e].res = "wait", wr' = [wr EXCEPT ![e].res = r],
               UNCHANGED <<posted, starts, send_queue, count>>
        PROVE  SendInv'
    <2> DEFINE w == [wr[e] EXCEPT !.res = r]
    <2>1. wr[e] \in Writes /\ wr' = [wr EXCEPT ![e] = w]
      BY <1>2 DEF SendInv, SendType
    <2>2. wr[e] \in [op : {"header", "message"}, frame : Frames, res : {"wait", "ok", "err"}]
      BY <1>2, <2>1 DEF Writes, IdleWrite
    <2>3. w \in Writes /\ w.op # "idle" /\ wr[e].op # "idle"
      BY <2>2 DEF Writes
    <2> QED  BY <1>2, <2>1, <2>3, WriteGoesOn
  <1>3. CASE Written(e)
    BY <1>2, <1>3 DEF Written, history
  <1>4. CASE WriteBreaks(e)
    BY <1>2, <1>4 DEF WriteBreaks, history
  <1> QED  BY <1>1, <1>3, <1>4 DEF Network

\* The handlers of the read chain but for ContentHandler leave the sending alone.
LEMMA ReadChainKeeps ==
  ASSUME SendInv, NEW e \in Ends, ReadChain(e)
  PROVE  SendInv'
  <1> USE DEF sending, history
  <1>1. CASE ContentHandler(e)
    BY <1>1, ContentHandlerKeeps
  <1>2. CASE ConnectionOpen(e) \/ ReadMessage(e) \/ ConnectionError(e)
    BY <1>2, SendStutter DEF ConnectionOpen, ReadMessage, ConnectionError
  <1>3. CASE AcceptHandler \/ RequestHandler \/ HandshakeDropped
    BY <1>3, SendStutter DEF AcceptHandler, RequestHandler, HandshakeDropped, HandshakeOnly
  <1>4. CASE ResolveHandler \/ ConnectHandler \/ ConnectThrows \/ WriteRequestHandler
    BY <1>4, SendStutter
    DEF ResolveHandler, ConnectHandler, ConnectThrows, WriteRequestHandler, HandshakeOnly
  <1> QED  BY <1>1, <1>2, <1>3, <1>4 DEF ReadChain

LEMMA OthersKeep ==
  ASSUME SendInv, NEW e \in Ends,
         Timers(e) \/ Closing(e) \/ AppCloses(e) \/ Stop(e) \/ SendsUnmasked(e) \/ Breaks
  PROVE  SendInv'
  <1> USE DEF sending, history
  <1>1. CASE Timers(e) \/ Closing(e)
    BY <1>1, SendStutter DEF Timers, TimerExpires, TimerHandler, Closing, StopService, Exit, Destroyed
  <1>2. CASE AppCloses(e) \/ Stop(e) \/ Breaks
    BY <1>2, SendStutter DEF AppCloses, Stop, Breaks
  <1>3. CASE SendsUnmasked(e)
    <2>1. Len(Script[e]) + 1 \in Nat
      BY ConstantsAssumption DEF ConstantsAssumption
    <2>2. count' \in [Ends -> Nat] /\ UNCHANGED <<posted, starts, send_queue, wr>>
      BY <1>3, <2>1 DEF SendsUnmasked, SendInv, SendType
    <2> QED  BY <2>2 DEF SendInv, SendType, OneWriter
  <1> QED  BY <1>1, <1>2, <1>3

LEMMA SendNext == SendInv /\ [Next]_vars => SendInv'
  <1> SUFFICES ASSUME SendInv, [Next]_vars PROVE SendInv'
    OBVIOUS
  <1>1. CASE UNCHANGED vars
    BY <1>1, SendStutter DEF vars, sending, history
  <1>2. CASE Breaks
    BY <1>2, OthersKeep
  <1>3. ASSUME NEW e \in Ends, Runs(e) \/ Chooses(e) PROVE SendInv'
    <2>1. CASE Strand(e)
      BY <2>1, EnqueueKeeps, StartWriteKeeps, HeaderWrittenKeeps, MessageWrittenKeeps,
         WriteFailedKeeps DEF Strand
    <2>2. CASE ReadChain(e)
      BY <2>2, ReadChainKeeps
    <2>3. CASE Network(e)
      BY <2>3, NetworkKeeps
    <2>4. CASE \E a \in Actors : SetClosed(e, a)
      BY <2>4, SetClosedKeeps
    <2>5. CASE AppSends(e)
      BY <2>5, AppSendsKeeps
    <2>6. CASE Timers(e) \/ Closing(e) \/ AppCloses(e) \/ Stop(e) \/ SendsUnmasked(e)
      BY <2>6, OthersKeep
    <2> QED  BY <1>3, <2>1, <2>2, <2>3, <2>4, <2>5, <2>6 DEF Runs, Chooses
  <1> QED  BY <1>1, <1>2, <1>3 DEF Next

\* For any scripts, limits, timeouts and numbers of threads: a write of an end is in
\* progress, or about to start, exactly when its send_queue is not empty, and only one.
THEOREM WritesOneByOne == Spec => []OneWriter
  <1>1. SendInv => OneWriter
    BY DEF SendInv
  <1> QED  BY SendInit, SendNext, <1>1, PTL DEF Spec

-----------------------------------------------------------------------------
(* Close frames.  An actor that has passed the test of closed is to post one; a further one   *)
(* passes the test only while none was posted, and if a thread is left for it.               *)

USE DEF Actors

CloseType ==
  /\ at \in [Ends -> [Actors -> {"-", "set"}]]
  /\ closed \in [Ends -> BOOLEAN]
  /\ closes \in [Ends -> Nat]

CloseInv ==
  /\ CloseType
  /\ \A e \in Ends : closes[e] + Cardinality(Busy(e)) <= Pool[e]
  /\ \A e \in Ends : ~closed[e] => closes[e] = 0

\* The actors of an end that are in send_close.
LEMMA BusyFinite ==
  ASSUME NEW e \in Ends
  PROVE  IsFiniteSet(Busy(e)) /\ Cardinality(Busy(e)) \in Nat
  <1>1. IsFiniteSet(Actors)
    <2>1. Actors = (({} \cup {"reader"}) \cup {"timer"}) \cup {"app"}
      OBVIOUS
    <2>2. IsFiniteSet({} \cup {"reader"})
      BY FS_AddElement, FS_EmptySet
    <2>3. IsFiniteSet(({} \cup {"reader"}) \cup {"timer"})
      BY <2>2, FS_AddElement
    <2> QED  BY <2>1, <2>3, FS_AddElement
  <1>2. Busy(e) \subseteq Actors
    BY DEF Busy
  <1>3. IsFiniteSet(Busy(e))
    BY <1>1, <1>2, FS_Subset
  <1> QED  BY <1>3, FS_CardinalityType

LEMMA CloseStutter ==
  ASSUME CloseInv, UNCHANGED <<at, closed, closes>>
  PROVE  CloseInv'
  BY DEF CloseInv, CloseType, Busy

\* The first half of send_close().
LEMMA CloseBegins ==
  ASSUME CloseInv, NEW e \in Ends, NEW a \in Actors, CanRun(e), ~closed[e],
         at' = [at EXCEPT ![e][a] = "set"], UNCHANGED <<closed, closes>>
  PROVE  CloseInv'
  <1>1. CloseType'
    BY DEF CloseInv, CloseType
  <1>2. /\ \A b \in Actors : at'[e][b] = IF b = a THEN "set" ELSE at[e][b]
        /\ \A d \in Ends \ {e} : at'[d] = at[d]
    BY DEF CloseInv, CloseType
  <1>3. Busy(e)' = Busy(e) \cup {a} /\ \A d \in Ends \ {e} : Busy(d)' = Busy(d)
    BY <1>2 DEF Busy
  <1>10. Cardinality(Busy(e) \cup {a}) =
          IF a \in Busy(e) THEN Cardinality(Busy(e)) ELSE Cardinality(Busy(e)) + 1
    <2> DEFINE B == Busy(e)
    <2>1. IsFiniteSet(B)
      BY BusyFinite
    <2> HIDE DEF B
    <2>2. Cardinality(B \cup {a}) = IF a \in B THEN Cardinality(B) ELSE Cardinality(B) + 1
      BY <2>1, FS_AddElement
    <2> QED  BY <2>2 DEF B
  <1>4. Cardinality(Busy(e)') <= Cardinality(Busy(e)) + 1
    <2>1. CASE a \in Busy(e)
      <3>1. Busy(e)' = Busy(e)
        BY <1>3, <2>1
      <3> QED  BY <3>1, BusyFinite
    <2>2. CASE a \notin Busy(e)
      BY <1>10, <1>3, <2>2, BusyFinite
    <2> QED  BY <2>1, <2>2
  <1>5. Cardinality(Busy(e)') \in Nat
    BY <1>10, <1>3, BusyFinite
  <1>6. Cardinality(Busy(e)) < Pool[e] /\ Pool[e] \in Nat /\ closes[e] = 0
    BY ConstantsAssumption DEF CanRun, CloseInv
  <1>7. closes'[e] + Cardinality(Busy(e)') <= Pool[e]
    BY <1>4, <1>5, <1>6, BusyFinite
  <1>8. \A d \in Ends : closes'[d] + Cardinality(Busy(d)') <= Pool[d]
    BY <1>3, <1>7 DEF CloseInv
  <1> QED  BY <1>1, <1>8 DEF CloseInv

\* The second half.
LEMMA CloseIsSet ==
  ASSUME CloseInv, NEW e \in Ends, NEW a \in Actors, SetClosed(e, a)
  PROVE  CloseInv'
  <1>1. /\ at[e][a] = "set" /\ at' = [at EXCEPT ![e][a] = "-"]
        /\ closed' = [closed EXCEPT ![e] = TRUE] /\ closes' = [closes EXCEPT ![e] = @ + 1]
    BY DEF SetClosed
  <1>2. CloseType'
    BY <1>1 DEF CloseInv, CloseType
  <1>3. /\ \A b \in Actors : at'[e][b] = IF b = a THEN "-" ELSE at[e][b]
        /\ \A d \in Ends \ {e} : at'[d] = at[d] /\ closes'[d] = closes[d] /\ closed'[d] = closed[d]
        /\ closed'[e] /\ closes'[e] = closes[e] + 1
    BY <1>1 DEF CloseInv, CloseType
  <1>4. Busy(e)' = Busy(e) \ {a} /\ a \in Busy(e) /\ \A d \in Ends \ {e} : Busy(d)' = Busy(d)
    BY <1>1, <1>3 DEF Busy
  <1>5. Cardinality(Busy(e)') = Cardinality(Busy(e)) - 1
    BY <1>4, BusyFinite, FS_RemoveElement
  <1>6. closes[e] \in Nat /\ closes[e] + Cardinality(Busy(e)) <= Pool[e] /\ Pool[e] \in Nat
    BY ConstantsAssumption DEF CloseInv, CloseType
  <1>7. closes'[e] + Cardinality(Busy(e)') <= Pool[e]
    BY <1>3, <1>5, <1>6, BusyFinite
  <1>8. \A d \in Ends : closes'[d] + Cardinality(Busy(d)') <= Pool[d]
    BY <1>3, <1>4, <1>7 DEF CloseInv
  <1>9. \A d \in Ends : ~closed'[d] => closes'[d] = 0
    BY <1>3 DEF CloseInv
  <1> QED  BY <1>2, <1>8, <1>9 DEF CloseInv

\* Frames that end the connection.
LEMMA CloseAndEndKeeps ==
  ASSUME CloseInv, NEW e \in Ends, NEW before, CanRun(e), CloseAndEnd(e, before),
         UNCHANGED <<closed, closes>>
  PROVE  CloseInv'
  <1>1. CASE UNCHANGED at
    BY <1>1, CloseStutter
  <1>2. CASE ~closed[e] /\ at' = [at EXCEPT ![e]["reader"] = "set"]
    BY <1>2, CloseBegins
  <1> QED  BY <1>1, <1>2 DEF CloseAndEnd

LEMMA ReaderCloses ==
  ASSUME CloseInv, NEW e \in Ends, ReadMessage(e) \/ ContentHandler(e)
  PROVE  CloseInv'
  <1>1. CanRun(e) /\ UNCHANGED <<closed, closes>>
    BY DEF ReadMessage, ContentHandler, Handler, message, history
  <1>2. CASE UNCHANGED at
    BY <1>1, <1>2, CloseStutter
  <1>3. CASE CloseAndEnd(e, <<>>) \/ CloseAndEnd(e, <<"error">>)
    BY <1>1, <1>3, CloseAndEndKeeps
  <1> QED  BY <1>2, <1>3 DEF ReadMessage, ContentHandler

LEMMA TimerCloses ==
  ASSUME CloseInv, NEW e \in Ends, Timers(e) \/ AppCloses(e)
  PROVE  CloseInv'
  <1> USE DEF message, control, history
  <1>1. CASE TimerExpires(e)
    BY <1>1, CloseStutter DEF TimerExpires
  <1>2. ASSUME NEW kind \in {"request", "idle"}, TimerHandler(e, kind) PROVE CloseInv'
    <2>1. CanRun(e) /\ UNCHANGED <<closed, closes>>
      BY <1>2 DEF TimerHandler
    <2>2. UNCHANGED at \/ (~closed[e] /\ at' = [at EXCEPT ![e]["timer"] = "set"])
      BY <1>2 DEF TimerHandler
    <2> QED  BY <2>1, <2>2, CloseStutter, CloseBegins
  <1>3. CASE AppCloses(e)
    BY <1>3, CloseBegins DEF AppCloses
  <1> QED  BY <1>1, <1>2, <1>3 DEF Timers

LEMMA CloseNext == CloseInv /\ [Next]_vars => CloseInv'
  <1> SUFFICES ASSUME CloseInv, [Next]_vars PROVE CloseInv'
    OBVIOUS
  <1> USE CloseStutter DEF message, control, history
  <1>1. CASE UNCHANGED vars
    BY <1>1 DEF vars
  <1>2. CASE Breaks
    BY <1>2 DEF Breaks
  <1>3. ASSUME NEW e \in Ends, Runs(e) \/ Chooses(e) PROVE CloseInv'
    <2>1. CASE Strand(e)
      BY <2>1 DEF Strand, Enqueue, StartWrite, HeaderWritten, MessageWritten, WriteFailed, QueueOnly
    <2>2. CASE ReadMessage(e) \/ ContentHandler(e)
      BY <2>2, ReaderCloses
    <2>3. CASE ConnectionOpen(e) \/ ConnectionError(e)
      BY <2>3 DEF ConnectionOpen, ConnectionError
    <2>4. CASE AcceptHandler \/ RequestHandler \/ HandshakeDropped
      BY <2>4 DEF AcceptHandler, RequestHandler, HandshakeDropped, HandshakeOnly
    <2>5. CASE ResolveHandler \/ ConnectHandler \/ ConnectThrows \/ WriteRequestHandler
      BY <2>5 DEF ResolveHandler, ConnectHandler, ConnectThrows, WriteRequestHandler, HandshakeOnly
    <2>6. CASE Network(e)
      BY <2>6 DEF Network, Succeeds, Fails, Written, WriteBreaks
    <2>7. CASE \E a \in Actors : SetClosed(e, a)
      BY <2>7, CloseIsSet
    <2>8. CASE Timers(e) \/ AppCloses(e)
      BY <2>8, TimerCloses
    <2>9. CASE Closing(e)
      BY <2>9 DEF Closing, StopService, Exit, Destroyed
    <2>10. CASE AppSends(e) \/ Stop(e) \/ SendsUnmasked(e)
      BY <2>10 DEF AppSends, Stop, SendsUnmasked
    <2> QED
      BY <1>3, <2>1, <2>2, <2>3, <2>4, <2>5, <2>6, <2>7, <2>8, <2>9, <2>10
      DEF Runs, Chooses, ReadChain
  <1> QED  BY <1>1, <1>2, <1>3 DEF Next

\* For any scripts, limits, timeouts and numbers of threads: an end posts a close frame for
\* each thread at most, and one when it has one thread; however often the application, the
\* timer and the reader close, those that find closed set post none (ws/server.h:305-320).
THEOREM OneCloseFrameAThread == Spec => []CloseBounded
  <1>1. Init => CloseInv
    <2> SUFFICES ASSUME Init PROVE CloseInv
      OBVIOUS
    <2>1. CloseType
      BY DEF Init, Each, CloseType
    <2>2. \A e \in Ends : closes[e] = 0 /\ Busy(e) = {}
      BY DEF Init, Each, Busy
    <2>3. \A e \in Ends : Cardinality(Busy(e)) = 0 /\ Pool[e] \in Nat
      BY <2>2, FS_EmptySet, ConstantsAssumption
    <2>4. \A e \in Ends : closes[e] + Cardinality(Busy(e)) <= Pool[e]
      BY <2>2, <2>3
    <2> QED  BY <2>1, <2>2, <2>4 DEF CloseInv
  <1>2. CloseInv /\ [Next]_vars => CloseInv'
    BY CloseNext
  <1>3. CloseInv => CloseBounded
    <2> SUFFICES ASSUME CloseInv, NEW e \in Ends PROVE closes[e] <= Pool[e]
      BY DEF CloseBounded
    <2>1. closes[e] \in Nat /\ Pool[e] \in Nat /\ closes[e] + Cardinality(Busy(e)) <= Pool[e]
      BY ConstantsAssumption DEF CloseInv, CloseType
    <2> QED  BY <2>1, BusyFinite
  <1> QED  BY <1>1, <1>2, <1>3, PTL DEF Spec


-----------------------------------------------------------------------------
(* Types of the rest, and the actions one by one.                            *)

Parts == [part : {"request", "response", "header", "body"}, frame : Frames \cup {NoFrame}]
TimersOf(e) == {"off"} \cup (IF e \in RequestTimeout THEN {"request"} ELSE {})
                       \cup (IF e \in IdleTimeout THEN {"idle"} ELSE {})

ReadTypes ==
  /\ next \in [Ends -> [op : ReadOps, res : {"wait", "ok", "err", "-"}]]
  /\ cur \in [Ends -> Frames \cup {NoFrame}]
NetworkTypes ==
  /\ wire \in [Ends -> Seq(Parts)]
  /\ link \in {"none", "up", "broken"}
  /\ socket \in [Ends -> {"none", "open", "closed", "gone"}]
TimerTypes ==
  /\ timer \in [Ends -> {"off", "request", "idle"}] /\ \A e \in Ends : timer[e] \in TimersOf(e)
  /\ fired \in [Ends -> SUBSET {"request", "idle"}]
ToldTypes ==
  /\ fragmented \in [Ends -> Seq(Nat)]
  /\ opened \in [Ends -> BOOLEAN] /\ conns \in BOOLEAN
  /\ delivered \in [Ends -> Seq(Seq(Nat))]
  /\ ended \in [Ends -> Seq({"error", "close"})]
StopType == stop \in [Ends -> {"no", "closing", "stopped", "exited"}]

Typed == SendInv /\ CloseType /\ ReadTypes /\ NetworkTypes /\ TimerTypes /\ ToldTypes /\ StopType

\* The actions of one end.
Step(e) ==
  \/ ConnectionOpen(e) \/ ReadMessage(e) \/ ContentHandler(e) \/ ConnectionError(e)
  \/ e = "server" /\ AcceptHandler
  \/ e = "server" /\ RequestHandler
  \/ e = "server" /\ HandshakeDropped
  \/ e = "client" /\ ResolveHandler
  \/ e = "client" /\ ConnectHandler
  \/ e = "client" /\ ConnectThrows
  \/ e = "client" /\ WriteRequestHandler
  \/ Enqueue(e) \/ StartWrite(e) \/ MessageWritten(e) \/ WriteFailed(e)
  \/ e = "server" /\ HeaderWritten
  \/ TimerExpires(e)
  \/ \E kind \in {"request", "idle"} : TimerHandler(e, kind)
  \/ StopService(e) \/ Exit(e)
  \/ e = "server" /\ Destroyed
  \/ Succeeds(e) \/ Fails(e) \/ Written(e) \/ WriteBreaks(e)
  \/ \E a \in Actors : SetClosed(e, a)
  \/ AppSends(e) \/ AppCloses(e) \/ Stop(e) \/ SendsUnmasked(e)

LEMMA StepCases ==
  ASSUME [Next]_vars
  PROVE  UNCHANGED vars \/ Breaks \/ \E e \in Ends : Step(e)
  <1>1. ASSUME NEW e \in Ends, Runs(e) \/ Chooses(e) PROVE Step(e)
    BY <1>1 DEF Runs, Chooses, ReadChain, Strand, Timers, Closing, Network, Step
  <1> QED  BY <1>1 DEF Next

\* The calls of a handler of the read chain.
LEMMA CloseAndEndTyped ==
  ASSUME Typed, NEW e \in Ends, NEW before \in Seq({"error", "close"}), CloseAndEnd(e, before),
         UNCHANGED <<cur, fired>>
  PROVE  /\ ReadTypes' /\ TimerTypes'
         /\ opened' \in [Ends -> BOOLEAN] /\ conns' \in BOOLEAN
         /\ delivered' \in [Ends -> Seq(Seq(Nat))]
         /\ ended' \in [Ends -> Seq({"error", "close"})]
         /\ at' \in [Ends -> [Actors -> {"-", "set"}]]
  <1>1. /\ Rearm(e) /\ UNCHANGED <<opened, delivered>>
        /\ NoMore(e) \/ next' = next
        /\ at' = at \/ at' = [at EXCEPT ![e]["reader"] = "set"]
        /\ \/ ended' = [ended EXCEPT ![e] = @ \o (before \o <<"close">>)]
           \/ ended' = [ended EXCEPT ![e] = @ \o before]
        /\ conns' \in BOOLEAN
    BY DEF CloseAndEnd, End, Unregister
  <1>2. before \o <<"close">> \in Seq({"error", "close"})
    OBVIOUS
  <1>3. \A c \in Seq({"error", "close"}) : ended[e] \o c \in Seq({"error", "close"})
    BY DEF Typed, ToldTypes
  <1>4. TimerTypes'
    BY <1>1 DEF Typed, TimerTypes, Rearm, TimersOf
  <1>5. ReadTypes'
    BY <1>1 DEF Typed, ReadTypes, NoMore, ReadOps
  <1>6. ended' \in [Ends -> Seq({"error", "close"})]
    BY <1>1, <1>2, <1>3 DEF Typed, ToldTypes
  <1>7. /\ opened' \in [Ends -> BOOLEAN] /\ conns' \in BOOLEAN
        /\ delivered' \in [Ends -> Seq(Seq(Nat))]
    BY <1>1 DEF Typed, ToldTypes
  <1>8. at' \in [Ends -> [Actors -> {"-", "set"}]]
    BY <1>1 DEF Typed, CloseType
  <1> QED  BY <1>4, <1>5, <1>6, <1>7, <1>8

LEMMA Calls ==
  /\ <<>> \in Seq({"error", "close"}) /\ <<"error">> \in Seq({"error", "close"})
  /\ <<"close">> \in Seq({"error", "close"})
  OBVIOUS

LEMMA ReadMessageTyped ==
  ASSUME Typed, NEW e \in Ends, ReadMessage(e)
  PROVE  Typed'
  <1>1. SendInv'
    BY SendStutter DEF Typed, ReadMessage, sending, history
  <1>2. UNCHANGED <<cur, fired, closed, closes, stop, fragmented, network>>
    BY DEF ReadMessage, message, history
  <1>3. NetworkTypes' /\ StopType'
    BY <1>2 DEF Typed, NetworkTypes, StopType, network
  <1>4. CASE \E before \in {<<>>, <<"error">>} : CloseAndEnd(e, before)
    <2>1. PICK before \in {<<>>, <<"error">>} : CloseAndEnd(e, before)
      BY <1>4
    <2>2. before \in Seq({"error", "close"})
      BY <2>1, Calls
    <2> QED  BY <1>1, <1>2, <1>3, <2>1, <2>2, CloseAndEndTyped DEF Typed, CloseType, ToldTypes
  <1>5. CASE Await(e, "content") /\ UNCHANGED <<timer, told, at>>
    BY <1>1, <1>2, <1>3, <1>5
    DEF Typed, CloseType, ToldTypes, ReadTypes, TimerTypes, Await, Waiting, ReadOps, told
  <1> QED  BY <1>4, <1>5 DEF ReadMessage

LEMMA AssembledTyped ==
  ASSUME Typed, NEW e \in Ends, cur[e].n \in Nat
  PROVE  Assembled(e) \in Seq(Nat)
  BY DEF Assembled, Typed, ToldTypes

LEMMA CurTyped == ASSUME ReadTypes, NEW e \in Ends PROVE cur[e].n \in Nat
  BY DEF ReadTypes, Frames, NoFrame, Frame

LEMMA ContentTyped ==
  ASSUME Typed, NEW e \in Ends, ContentHandler(e)
  PROVE  Typed'
  <1>1. SendInv'
    BY ContentHandlerKeeps DEF Typed
  <1>2. UNCHANGED <<cur, fired, closed, closes, stop, network>>
    BY DEF ContentHandler, history
  <1>3. NetworkTypes' /\ StopType'
    BY <1>2 DEF Typed, NetworkTypes, StopType, network
  <1>4. CASE CloseAndEnd(e, <<>>) /\ UNCHANGED <<posted, fragmented>>
    BY <1>1, <1>2, <1>3, <1>4, Calls, CloseAndEndTyped DEF Typed, CloseType, ToldTypes
  <1>5. CASE Await(e, "header") /\ UNCHANGED at
    <2>1. cur[e].n \in Nat
      BY CurTyped DEF Typed
    <2>2. ReadTypes' /\ CloseType'
      BY <1>2, <1>5 DEF Typed, ReadTypes, CloseType, Await, Waiting, ReadOps
    <2>3. TimerTypes'
      BY <1>2, <1>5 DEF Typed, TimerTypes, ContentHandler, CloseAndEnd, Send, Rearm, TimersOf, End
    <2>4. ToldTypes'
      <3>1. CASE UNCHANGED <<fragmented, told>>
        BY <3>1 DEF Typed, ToldTypes, told
      <3>2. CASE fragmented' = [fragmented EXCEPT ![e] = Append(@, cur[e].n)] /\ UNCHANGED told
        BY <2>1, <3>2 DEF Typed, ToldTypes, told
      <3>3. CASE /\ delivered' = [delivered EXCEPT ![e] = Append(@, Assembled(e))]
                 /\ fragmented' = [fragmented EXCEPT ![e] = <<>>]
                 /\ UNCHANGED <<opened, ended, conns>>
        BY <2>1, <3>3, AssembledTyped DEF Typed, ToldTypes
      <3>4. CASE CloseAndEnd(e, <<>>) /\ UNCHANGED <<posted, fragmented>>
        BY <1>2, <3>4, Calls, CloseAndEndTyped DEF Typed, ToldTypes
      <3> QED  BY <3>1, <3>2, <3>3, <3>4 DEF ContentHandler
    <2> QED  BY <1>1, <1>3, <2>2, <2>3, <2>4 DEF Typed
  <1> QED  BY <1>4, <1>5 DEF ContentHandler

LEMMA SetClosedTyped ==
  ASSUME Typed, NEW e \in Ends, NEW a \in Actors, SetClosed(e, a)
  PROVE  Typed'
  <1>1. SendInv'
    BY SetClosedKeeps DEF Typed
  <1>2. CloseType'
    BY DEF Typed, CloseType, SetClosed
  <1>3. TimerTypes'
    BY DEF Typed, TimerTypes, SetClosed, Send, Rearm, TimersOf
  <1>4. ended' \in [Ends -> Seq({"error", "close"})]
    <2>1. \/ ended' = [ended EXCEPT ![e] = @ \o <<"close">>]
          \/ ended' = ended
      BY DEF SetClosed, End, told
    <2>2. ended[e] \o <<"close">> \in Seq({"error", "close"})
      BY Calls DEF Typed, ToldTypes
    <2> QED  BY <2>1, <2>2 DEF Typed, ToldTypes
  <1>5. ToldTypes'
    BY <1>4 DEF Typed, ToldTypes, SetClosed, End, Unregister, told
  <1>6. ReadTypes'
    BY DEF Typed, ReadTypes, ReadOps, SetClosed, End, NoMore
  <1>7. NetworkTypes' /\ StopType'
    BY DEF Typed, NetworkTypes, StopType, SetClosed, network
  <1> QED  BY <1>1, <1>2, <1>3, <1>5, <1>6, <1>7 DEF Typed

\* The handlers of the handshake.
LEMMA HandshakeTyped ==
  ASSUME Typed, NEW e \in Ends, UNCHANGED HandshakeOnly,
         Await(e, "read_request") \/ Await(e, "write_response") \/ Await(e, "connect")
           \/ Await(e, "write_request") \/ Await(e, "read_response") \/ NoMore(e),
         TimeRequest(e) \/ Cancel(e),
         UNCHANGED socket \/ socket' = [socket EXCEPT ![e] = "open"]
  PROVE  Typed'
  <1>1. SendInv'
    BY SendStutter DEF Typed, HandshakeOnly, sending, history
  <1>2. CloseType' /\ ToldTypes' /\ StopType'
    BY DEF Typed, CloseType, ToldTypes, StopType, HandshakeOnly, message, told, control, history
  <1>3. ReadTypes'
    BY DEF Typed, ReadTypes, ReadOps, HandshakeOnly, Await, Waiting, NoMore
  <1>4. TimerTypes'
    BY DEF Typed, TimerTypes, TimersOf, HandshakeOnly, TimeRequest, Cancel
  <1>5. NetworkTypes'
    BY DEF Typed, NetworkTypes, HandshakeOnly
  <1> QED  BY <1>1, <1>2, <1>3, <1>4, <1>5 DEF Typed

LEMMA OpenTyped ==
  ASSUME Typed, NEW e \in Ends, ConnectionOpen(e) \/ ConnectionError(e)
  PROVE  Typed'
  <1> USE DEF ConnectionOpen, ConnectionError
  <1>1. SendInv'
    BY SendStutter DEF Typed, sending, history
  <1>2. CloseType' /\ StopType' /\ NetworkTypes' /\ fragmented' = fragmented
    BY DEF Typed, CloseType, StopType, NetworkTypes, network, message, control, history
  <1>3. ReadTypes'
    BY DEF Typed, ReadTypes, ReadOps, Await, Waiting, End, NoMore
  <1>4. TimerTypes'
    BY DEF Typed, TimerTypes, TimersOf, End, Rearm
  <1>5. ended' \in [Ends -> Seq({"error", "close"})]
    <2>1. ended' = ended \/ ended' = [ended EXCEPT ![e] = @ \o <<"error">>]
      BY DEF End
    <2>2. ended[e] \o <<"error">> \in Seq({"error", "close"})
      BY Calls DEF Typed, ToldTypes
    <2> QED  BY <2>1, <2>2 DEF Typed, ToldTypes
  <1>6. delivered' = delivered /\ opened' \in [Ends -> BOOLEAN] /\ conns' \in BOOLEAN
    BY DEF Typed, ToldTypes, End, Unregister
  <1> QED  BY <1>1, <1>2, <1>3, <1>4, <1>5, <1>6 DEF Typed, ToldTypes

LEMMA ChainTyped ==
  ASSUME Typed, NEW e \in Ends,
         AcceptHandler \/ RequestHandler \/ HandshakeDropped \/ ResolveHandler \/ ConnectHandler
           \/ ConnectThrows \/ WriteRequestHandler
  PROVE  Typed'
  <1>1. CASE AcceptHandler
    BY <1>1, HandshakeTyped DEF AcceptHandler
  <1>2. CASE RequestHandler
    BY <1>2, HandshakeTyped DEF RequestHandler
  <1>3. CASE HandshakeDropped
    BY <1>3, HandshakeTyped DEF HandshakeDropped
  <1>4. CASE ResolveHandler
    BY <1>4, HandshakeTyped DEF ResolveHandler
  <1>5. CASE ConnectHandler
    BY <1>5, HandshakeTyped DEF ConnectHandler
  <1>6. CASE WriteRequestHandler
    BY <1>6, HandshakeTyped DEF WriteRequestHandler
  <1>7. CASE ConnectThrows
    <2>1. SendInv'
      BY <1>7, SendStutter DEF Typed, ConnectThrows, sending, history
    <2>2. CloseType' /\ ToldTypes' /\ ReadTypes' /\ TimerTypes'
      BY <1>7 DEF Typed, ConnectThrows, CloseType, ToldTypes, ReadTypes, TimerTypes, reading, timers,
                  message, told, history
    <2>3. NetworkTypes' /\ StopType'
      BY <1>7 DEF Typed, ConnectThrows, NetworkTypes, StopType
    <2> QED  BY <2>1, <2>2, <2>3 DEF Typed
  <1> QED  BY <1>1, <1>2, <1>3, <1>4, <1>5, <1>6, <1>7

\* A step that leaves the reading, the network, the timers and what was told alone.
LEMMA RestTyped ==
  ASSUME Typed, SendInv', UNCHANGED <<reading, network, message, told, at, closes>>, StopType',
         TimerTypes'
  PROVE  Typed'
  BY DEF Typed, CloseType, ReadTypes, NetworkTypes, ToldTypes, reading, network, message, told

LEMMA StrandTyped ==
  ASSUME Typed, NEW e \in Ends,
         Enqueue(e) \/ StartWrite(e) \/ HeaderWritten \/ MessageWritten(e) \/ WriteFailed(e)
  PROVE  Typed'
  <1>1. SendInv'
    BY EnqueueKeeps, StartWriteKeeps, HeaderWrittenKeeps, MessageWrittenKeeps, WriteFailedKeeps
    DEF Typed
  <1>2. UNCHANGED QueueOnly
    BY DEF Enqueue, StartWrite, HeaderWritten, MessageWritten, WriteFailed
  <1> QED
    BY <1>1, <1>2, RestTyped DEF QueueOnly, Typed, StopType, TimerTypes, timers, control, history

\* Other steps that do not touch what was read or told.
LEMMA QuietTyped ==
  ASSUME Typed, NEW e \in Ends,
         TimerExpires(e) \/ (\E kind \in {"request", "idle"} : TimerHandler(e, kind))
           \/ StopService(e) \/ Exit(e) \/ Destroyed \/ AppCloses(e) \/ Breaks
  PROVE  Typed'
  <1> USE DEF TimerExpires, TimerHandler, StopService, Exit, Destroyed, AppCloses, Breaks
  <1>1. SendInv'
    BY SendStutter DEF Typed, sending, history
  <1>2. ReadTypes' /\ ToldTypes'
    BY DEF Typed, ReadTypes, ToldTypes, reading, message, told
  <1>3. CloseType'
    BY DEF Typed, CloseType, message, control, history
  <1>4. NetworkTypes'
    BY DEF Typed, NetworkTypes, network, CloseSocket
  <1>5. TimerTypes'
    BY DEF Typed, TimerTypes, TimersOf, timers, Cancel
  <1>6. StopType'
    BY DEF Typed, StopType, control
  <1> QED  BY <1>1, <1>2, <1>3, <1>4, <1>5, <1>6 DEF Typed

\* What is put on the wire.
LEMMA PutTyped ==
  ASSUME NetworkTypes, NEW e \in Ends, NEW parts \in Seq(Parts), Put(e, parts), UNCHANGED <<link, socket>>
  PROVE  NetworkTypes'
  BY DEF NetworkTypes, Put, Other

LEMMA TakeTyped ==
  ASSUME NetworkTypes, NEW e \in Ends, NEW p, Take(e, p), UNCHANGED <<link, socket>>
  PROVE  NetworkTypes' /\ wire[e] # <<>> /\ Head(wire[e]) \in Parts
  <1>1. wire[e] \in Seq(Parts) /\ wire[e] # <<>>
    BY DEF NetworkTypes, Take
  <1>2. Head(wire[e]) \in Parts /\ Tail(wire[e]) \in Seq(Parts)
    BY <1>1
  <1> QED  BY <1>1, <1>2 DEF NetworkTypes, Take

LEMMA PartsTyped ==
  /\ <<Part("request", NoFrame)>> \in Seq(Parts) /\ <<Part("response", NoFrame)>> \in Seq(Parts)
  /\ \A f \in Frames :
       /\ <<Part("header", f)>> \in Seq(Parts) /\ <<Part("body", f)>> \in Seq(Parts)
       /\ <<Part("header", f), Part("body", f)>> \in Seq(Parts)
  BY DEF Parts, Part

LEMMA NetworkTyped ==
  ASSUME Typed, NEW e \in Ends, Succeeds(e) \/ Fails(e) \/ Written(e) \/ WriteBreaks(e)
  PROVE  Typed'
  <1>1. SendInv'
    BY NetworkKeeps DEF Typed, Network
  <1>2. CloseType' /\ ToldTypes' /\ TimerTypes' /\ StopType'
    BY DEF Typed, CloseType, ToldTypes, TimerTypes, StopType, Succeeds, Fails, Written, WriteBreaks,
           timers, message, told, control, history
  <1>3. CASE Fails(e)
    BY <1>1, <1>2, <1>3 DEF Typed, Fails, ReadTypes, NetworkTypes, network
  <1>4. CASE WriteBreaks(e)
    BY <1>1, <1>2, <1>4 DEF Typed, WriteBreaks, ReadTypes, NetworkTypes, reading, network
  <1>5. CASE Written(e)
    <2>1. wr[e].frame \in Frames
      BY <1>5 DEF Written, Typed, SendInv, SendType, Writes, IdleWrite
    <2>2. NetworkTypes'
      BY <1>5, <2>1, PutTyped, PartsTyped DEF Typed, Written
    <2> QED  BY <1>1, <1>2, <1>5, <2>2 DEF Typed, Written, ReadTypes, reading
  <1>6. CASE Succeeds(e)
    <2>1. next' \in [Ends -> [op : ReadOps, res : {"wait", "ok", "err", "-"}]]
      BY <1>6 DEF Succeeds, Typed, ReadTypes
    <2>2. CASE UNCHANGED <<wire, cur>>
      BY <1>1, <1>2, <1>6, <2>1, <2>2 DEF Typed, Succeeds, ReadTypes, NetworkTypes, network
    <2>3. CASE /\ Put(e, <<Part("request", NoFrame)>>) \/ Put(e, <<Part("response", NoFrame)>>)
               /\ UNCHANGED <<link, socket, cur>>
      BY <1>1, <1>2, <2>1, <2>3, PutTyped, PartsTyped DEF Typed, ReadTypes
    <2>4. CASE /\ Take(e, "request") \/ Take(e, "response") \/ Take(e, "body")
               /\ UNCHANGED <<link, socket, cur>>
      BY <1>1, <1>2, <2>1, <2>4, TakeTyped DEF Typed, ReadTypes
    <2>5. CASE /\ Take(e, "header") /\ cur' = [cur EXCEPT ![e] = Head(wire[e]).frame]
               /\ UNCHANGED <<link, socket>>
      <3>1. NetworkTypes' /\ Head(wire[e]) \in Parts
        BY <2>5, TakeTyped DEF Typed
      <3>2. Head(wire[e]).frame \in Frames \cup {NoFrame}
        BY <3>1 DEF Parts
      <3> QED  BY <1>1, <1>2, <2>1, <2>5, <3>1, <3>2 DEF Typed, ReadTypes
    <2> QED  BY <1>6, <2>2, <2>3, <2>4, <2>5 DEF Succeeds, network
  <1> QED  BY <1>3, <1>4, <1>5, <1>6

LEMMA ChoicesTyped ==
  ASSUME Typed, NEW e \in Ends, AppSends(e) \/ Stop(e) \/ SendsUnmasked(e)
  PROVE  Typed'
  <1>1. CASE AppSends(e)
    <2>1. SendInv' /\ TimerTypes' /\ StopType'
      BY <1>1, AppSendsKeeps
      DEF AppSends, Send, Rearm, Typed, TimerTypes, TimersOf, StopType, control
    <2> QED  BY <1>1, <2>1, RestTyped DEF AppSends, control
  <1>2. CASE Stop(e)
    <2>1. SendInv' /\ CloseType' /\ TimerTypes' /\ StopType'
      BY <1>2, OthersKeep
      DEF Stop, Typed, CloseType, TimerTypes, StopType, timers, message, history
    <2>2. ToldTypes'
      BY <1>2 DEF Stop, Typed, ToldTypes, Unregister, message
    <2>3. ReadTypes'
      BY <1>2 DEF Stop, Typed, ReadTypes
    <2>4. NetworkTypes'
      BY <1>2 DEF Stop, Typed, NetworkTypes, CloseSocket
    <2> QED  BY <2>1, <2>2, <2>3, <2>4 DEF Typed
  <1>3. CASE SendsUnmasked(e)
    <2>1. Frame("bad", 0) \in Frames
      BY DEF Frame, Frames
    <2>2. NetworkTypes'
      BY <1>3, <2>1, PutTyped, PartsTyped DEF Typed, SendsUnmasked
    <2>3. SendInv'
      BY <1>3, OthersKeep DEF Typed
    <2> QED
      BY <1>3, <2>2, <2>3
      DEF SendsUnmasked, Typed, CloseType, ReadTypes, TimerTypes, ToldTypes, StopType, reading,
          timers, message, told, control, history
  <1> QED  BY <1>1, <1>2, <1>3

LEMMA TypedNext == Typed /\ [Next]_vars => Typed'
  <1> SUFFICES ASSUME Typed, [Next]_vars PROVE Typed'
    OBVIOUS
  <1>1. CASE UNCHANGED vars
    <2>1. SendInv'
      BY <1>1, SendStutter DEF Typed, vars, sending, history
    <2> QED
      BY <1>1, <2>1, RestTyped
      DEF vars, Typed, StopType, TimerTypes, timers, control, history
  <1>2. CASE Breaks
    BY <1>2, QuietTyped
  <1>3. ASSUME NEW e \in Ends, Step(e) PROVE Typed'
    BY <1>3, OpenTyped, ReadMessageTyped, ContentTyped, ChainTyped, StrandTyped, QuietTyped,
       NetworkTyped, SetClosedTyped, ChoicesTyped DEF Step
  <1> QED  BY <1>1, <1>2, <1>3, StepCases

LEMMA TypedInit == Init => Typed
  <1> SUFFICES ASSUME Init PROVE Typed
    OBVIOUS
  <1>1. SendInv
    BY SendInit
  <1>2. CloseType /\ ReadTypes /\ NetworkTypes /\ StopType
    BY DEF Init, Each, CloseType, ReadTypes, ReadOps, Waiting, NetworkTypes, StopType
  <1>3. TimerTypes
    BY DEF Init, Each, TimerTypes, TimersOf
  <1>4. ToldTypes
    <2>1. <<>> \in Seq(Nat) /\ <<>> \in Seq(Seq(Nat)) /\ <<>> \in Seq({"error", "close"})
      OBVIOUS
    <2> QED  BY <2>1 DEF Init, Each, ToldTypes
  <1> QED  BY <1>1, <1>2, <1>3, <1>4 DEF Typed

\* For any scripts, limits, timeouts and numbers of threads, every location keeps its type; in
\* particular no timer is armed with a timeout that config has not set (set_timeout(seconds),
\* ws/server.h:152-162, ws/client.h:132-142).
THEOREM TypeCorrect == Spec => []TypeOK
  <1>1. Typed => TypeOK
    <2> SUFFICES ASSUME Typed PROVE TypeOK
      OBVIOUS
    <2>1. \A e \in Ends : cur[e].op \in Ops \cup {"none"} /\ cur[e].n \in Nat
      BY DEF Typed, ReadTypes, Frames, NoFrame, Frame
    <2>2. wr \in [Ends -> [op : {"idle", "header", "message"}, res : {"wait", "ok", "err", "-"},
                          frame : Frames \cup {NoFrame}]]
      BY DEF Typed, SendInv, SendType, Writes, IdleWrite
    <2>3. posted \in [Ends -> Seq(Frames)] /\ send_queue \in [Ends -> Seq(Frames)]
          /\ starts \in [Ends -> Nat] /\ count \in [Ends -> Nat]
      BY DEF Typed, SendInv, SendType
    <2> QED
      BY <2>1, <2>2, <2>3
      DEF Typed, CloseType, ReadTypes, NetworkTypes, TimerTypes, TimersOf, ToldTypes, StopType,
          TypeOK, Frames
  <1> QED  BY TypedInit, TypedNext, <1>1, PTL DEF Spec

-----------------------------------------------------------------------------
(* What the application is told.  As long as the chain of reads goes on nothing has ended; an *)
(* end is the last thing a handler tells, but for a reader in the middle of send_close(),     *)
(* which may have told on_error and has to tell on_close.                                     *)

HandshakeOps(e) ==
  IF e = "server" THEN {"accept", "read_request", "write_response"}
  ELSE {"resolve", "connect", "write_request", "read_response"}

Life(e) ==
  /\ next[e].op \in HandshakeOps(e) \cup {"header", "content", "none"}
  /\ next[e].op \in HandshakeOps(e) => ~opened[e] /\ ended[e] = <<>>
  /\ next[e].op \in {"header", "content"} => opened[e]
  /\ next[e].op \in {"header", "content"} /\ at[e]["reader"] = "-" => ended[e] = <<>>
  /\ at[e]["reader"] = "set" =>
       next[e].op \in {"header", "content"} /\ next[e].res = "ok" /\ ended[e] \in {<<>>, <<"error">>}

ToldInv == Typed /\ (\A e \in Ends : Life(e)) /\ SetIsExact

\* A step of WsLifecycle at end e, or none.
Lives(e) ==
  \/ opened'[e] = opened[e] /\ Len(delivered'[e]) = Len(delivered[e]) /\ ended'[e] = ended[e]
  \/ /\ ~opened[e] /\ ended[e] = <<>> /\ opened'[e]
     /\ Len(delivered'[e]) = Len(delivered[e]) /\ ended'[e] = ended[e]
  \/ /\ opened[e] /\ ended[e] = <<>> /\ Len(delivered'[e]) = Len(delivered[e]) + 1
     /\ opened'[e] = opened[e] /\ ended'[e] = ended[e]
  \/ /\ opened[e] /\ ended[e] \in {<<>>, <<"error">>} /\ ended'[e] = Append(ended[e], "close")
     /\ opened'[e] = opened[e] /\ Len(delivered'[e]) = Len(delivered[e])
  \/ /\ ended[e] = <<>> /\ ended'[e] = <<"error">>
     /\ opened'[e] = opened[e] /\ Len(delivered'[e]) = Len(delivered[e])
  \/ /\ opened[e] /\ ended[e] = <<>> /\ ended'[e] = <<"error", "close">>
     /\ opened'[e] = opened[e] /\ Len(delivered'[e]) = Len(delivered[e])

ToldStep == (\A e \in Ends : Life(e))' /\ SetIsExact' /\ \A e \in Ends : Lives(e)

\* Nothing is told; an operation may have completed.
LEMMA NothingTold ==
  ASSUME ToldInv, Typed', UNCHANGED told, stop'["server"] = "no" => stop["server"] = "no",
         \A d \in Ends : at'[d]["reader"] = at[d]["reader"],
         \A d \in Ends : next'[d] = next[d] \/ (next[d].res = "wait" /\ next'[d].op = next[d].op)
  PROVE  ToldStep
  <1>1. UNCHANGED <<opened, delivered, ended, conns>>
    BY DEF told
  <1>2. \A d \in Ends : Lives(d)
    BY <1>1 DEF Lives
  <1>3. SetIsExact'
    BY <1>1 DEF ToldInv, SetIsExact
  <1>4. \A d \in Ends : Life(d)'
    BY <1>1 DEF ToldInv, Life, HandshakeOps
  <1> QED  BY <1>2, <1>3, <1>4 DEF ToldStep

LEMMA Two ==
  ASSUME NEW S, NEW s \in Seq(S), NEW a \in S, NEW b \in S, Len(s) = 2, s[1] = a, s[2] = b
  PROVE  s = <<a, b>>
  <1> DEFINE t == <<a, b>>
  <1>1. t \in Seq(S) /\ Len(t) = 2 /\ t[1] = a /\ t[2] = b
    OBVIOUS
  <1> HIDE DEF t
  <1>2. \A i \in 1 .. Len(s) : s[i] = t[i]
    BY <1>1
  <1>3. s = t
    BY <1>1, <1>2, SeqEqual
  <1> QED  BY <1>3 DEF t

LEMMA OneAndOne ==
  ASSUME NEW S, NEW a \in S, NEW b \in S
  PROVE  <<a>> \o <<b>> = <<a, b>> /\ Append(<<a>>, b) = <<a, b>>
  <1> DEFINE s == <<a>>
             t == <<b>>
  <1>1. s \in Seq(S) /\ t \in Seq(S) /\ Len(s) = 1 /\ Len(t) = 1 /\ s[1] = a /\ t[1] = b
    OBVIOUS
  <1> HIDE DEF s, t
  <1>2. s \o t \in Seq(S) /\ Len(s \o t) = 2 /\ (s \o t)[1] = a /\ (s \o t)[2] = b
    BY <1>1, ConcatProperties
  <1>3. /\ Append(s, b) \in Seq(S) /\ Len(Append(s, b)) = 2
        /\ Append(s, b)[1] = a /\ Append(s, b)[2] = b
    <2>1. PICK u : u = Append(s, b)
      OBVIOUS
    <2>2. /\ u \in Seq(S) /\ Len(u) = Len(s) + 1 /\ u[Len(s) + 1] = b
          /\ \A i \in 1 .. Len(s) : u[i] = s[i]
      BY <1>1, <2>1, AppendProperties
    <2>3. 1 \in 1 .. Len(s) /\ Len(s) + 1 = 2
      BY <1>1
    <2> QED  BY <1>1, <2>1, <2>2, <2>3
  <1>4. s \o t = <<a, b>>
    <2>1. PICK u : u = s \o t
      OBVIOUS
    <2>2. u \in Seq(S) /\ Len(u) = 2 /\ u[1] = a /\ u[2] = b
      BY <1>2, <2>1
    <2>3. u = <<a, b>>
      BY <2>2, Two
    <2> QED  BY <2>1, <2>3
  <1>5. Append(s, b) = <<a, b>>
    <2>1. PICK u : u = Append(s, b)
      OBVIOUS
    <2>2. u \in Seq(S) /\ Len(u) = 2 /\ u[1] = a /\ u[2] = b
      BY <1>3, <2>1
    <2>3. u = <<a, b>>
      BY <2>2, Two
    <2> QED  BY <2>1, <2>3
  <1> QED  BY <1>4, <1>5 DEF s, t

LEMMA Ending ==
  /\ <<>> \o <<>> = <<>> /\ <<>> \o <<"error">> = <<"error">> /\ <<>> \o <<"close">> = <<"close">>
  /\ <<>> \o (<<>> \o <<"close">>) = <<"close">>
  /\ <<>> \o (<<"error">> \o <<"close">>) = <<"error", "close">>
  /\ <<"error">> \o <<"close">> = <<"error", "close">>
  /\ Append(<<>>, "close") = <<"close">> /\ Append(<<"error">>, "close") = <<"error", "close">>
  /\ <<"close">> # <<>> /\ <<"error">> # <<>> /\ <<"error", "close">> # <<>>
  <1>1. <<>> \o <<>> = <<>> /\ <<>> \o <<"error">> = <<"error">> /\ <<>> \o <<"close">> = <<"close">>
    OBVIOUS
  <1>2. <<"error">> \o <<"close">> = <<"error", "close">> /\ Append(<<"error">>, "close") = <<"error", "close">>
    <2>1. "error" \in {"error", "close"} /\ "close" \in {"error", "close"}
      OBVIOUS
    <2> QED  BY <2>1, OneAndOne
  <1>3. <<>> \o <<"error", "close">> = <<"error", "close">>
    OBVIOUS
  <1>4. Append(<<>>, "close") = <<"close">>
    OBVIOUS
  <1>5. <<"close">> # <<>> /\ <<"error">> # <<>> /\ <<"error", "close">> # <<>>
    OBVIOUS
  <1> QED  BY <1>1, <1>2, <1>3, <1>4, <1>5

\* The end is told by a handler of the chain.
LEMMA EndTold ==
  ASSUME ToldInv, Typed', NEW e \in Ends, NEW calls, End(e, calls), UNCHANGED stop,
         \A d \in Ends : at'[d]["reader"] = IF d = e THEN "-" ELSE at[d]["reader"],
         \/ ended[e] = <<>> /\ calls = <<"error">>
         \/ opened[e] /\ ended[e] = <<>> /\ calls = <<"close">>
         \/ opened[e] /\ ended[e] = <<>> /\ calls = <<>> \o <<"close">>
         \/ opened[e] /\ ended[e] = <<>> /\ calls = <<"error">> \o <<"close">>
         \/ opened[e] /\ ended[e] = <<"error">> /\ calls = <<"close">>
  PROVE  ToldStep
  <1>1. /\ ended' = [ended EXCEPT ![e] = @ \o calls] /\ UNCHANGED <<opened, delivered>>
        /\ conns' = (conns /\ e # "server") /\ next' = [next EXCEPT ![e] = [op |-> "none", res |-> "-"]]
    BY DEF End, Unregister, NoMore
  <1>2. /\ ended \in [Ends -> Seq({"error", "close"})]
        /\ next \in [Ends -> [op : ReadOps, res : {"wait", "ok", "err", "-"}]]
    BY DEF ToldInv, Typed, ToldTypes, ReadTypes
  <1>3. ended'[e] = ended[e] \o calls /\ \A d \in Ends : d # e => ended'[d] = ended[d]
    BY <1>1, <1>2
  <1>4. \/ ended[e] = <<>> /\ ended'[e] = <<"error">>
        \/ opened[e] /\ ended[e] \in {<<>>, <<"error">>} /\ ended'[e] = Append(ended[e], "close")
        \/ opened[e] /\ ended[e] = <<>> /\ ended'[e] = <<"error", "close">>
    BY <1>3, Ending
  <1>5. ended'[e] # <<>>
    BY <1>4, Ending
  <1>6. \A d \in Ends : Lives(d)
    BY <1>1, <1>3, <1>4 DEF Lives
  <1>7. SetIsExact'
    BY <1>1, <1>3, <1>5 DEF ToldInv, SetIsExact
  <1>8. next'[e] = [op |-> "none", res |-> "-"] /\ \A d \in Ends : d # e => next'[d] = next[d]
    BY <1>1, <1>2
  <1>9. \A d \in Ends : Life(d)'
    <2> SUFFICES ASSUME NEW d \in Ends PROVE Life(d)'
      OBVIOUS
    <2>1. CASE d = e
      BY <1>8, <2>1 DEF Life, HandshakeOps
    <2>2. CASE d # e
      BY <1>1, <1>3, <1>8, <2>2 DEF ToldInv, Life
    <2> QED  BY <2>1, <2>2
  <1> QED  BY <1>6, <1>7, <1>9 DEF ToldStep

\* A frame that ends the connection: all of it is told, or the reader goes into send_close().
LEMMA CloseTold ==
  ASSUME ToldInv, Typed', NEW e \in Ends, NEW before \in {<<>>, <<"error">>}, CloseAndEnd(e, before),
         UNCHANGED stop, at[e]["reader"] = "-", next[e].op \in {"header", "content"}, next[e].res = "ok"
  PROVE  ToldStep
  <1>1. opened[e] /\ ended[e] = <<>>
    BY DEF ToldInv, Life
  <1>2. CASE End(e, before \o <<"close">>) /\ UNCHANGED at
    BY <1>1, <1>2, EndTold
  <1>3. CASE /\ at' = [at EXCEPT ![e]["reader"] = "set"]
             /\ ended' = [ended EXCEPT ![e] = @ \o before]
             /\ conns' = (conns /\ (e # "server" \/ before = <<>>))
             /\ UNCHANGED <<opened, delivered, next>>
    <2>1. ended \in [Ends -> Seq({"error", "close"})] /\ at \in [Ends -> [Actors -> {"-", "set"}]]
      BY DEF ToldInv, Typed, ToldTypes, CloseType
    <2>2. ended'[e] = <<>> \o before /\ \A d \in Ends : d # e => ended'[d] = ended[d]
      BY <1>1, <1>3, <2>1
    <2>3. ended'[e] = before
      BY <2>2, Ending
    <2>4. \A d \in Ends : Lives(d)
      BY <1>1, <1>3, <2>2, <2>3 DEF Lives
    <2>5. SetIsExact'
      BY <1>1, <1>3, <2>2, <2>3, Ending DEF ToldInv, SetIsExact
    <2>6. at'[e]["reader"] = "set" /\ \A d \in Ends : d # e => at'[d] = at[d]
      BY <1>3, <2>1
    <2>7. \A d \in Ends : Life(d)'
      BY <1>1, <1>3, <2>2, <2>3, <2>6 DEF ToldInv, Life, HandshakeOps
    <2> QED  BY <2>4, <2>5, <2>7 DEF ToldStep
  <1> QED  BY <1>2, <1>3 DEF CloseAndEnd

\* The chain goes on, or stops without a word.
LEMMA ChainTold ==
  ASSUME ToldInv, Typed', NEW e \in Ends, UNCHANGED <<opened, ended, conns, at, stop>>,
         Len(delivered'[e]) \in {Len(delivered[e]), Len(delivered[e]) + 1},
         \A d \in Ends : d # e => delivered'[d] = delivered[d],
         NEW n, next' = [next EXCEPT ![e] = n],
         \/ n.op \in HandshakeOps(e) /\ next[e].op \in HandshakeOps(e)
         \/ n.op \in {"header", "content"} /\ next[e].op \in {"header", "content"}
         \/ n.op = "none",
         n.op \notin {"header", "content"} => delivered' = delivered,
         at[e]["reader"] = "-"
  PROVE  ToldStep
  <1>1. next'[e] = n /\ \A d \in Ends : d # e => next'[d] = next[d]
    BY DEF ToldInv, Typed, ReadTypes
  <1>2. SetIsExact'
    BY DEF ToldInv, SetIsExact
  <1>3. Life(e)'
    BY <1>1 DEF ToldInv, Life, HandshakeOps
  <1>4. \A d \in Ends : d # e => Life(d)'
    BY <1>1 DEF ToldInv, Life
  <1>5. Lives(e)
    <2>1. CASE delivered' = delivered
      BY <2>1 DEF Lives
    <2>2. CASE n.op \in {"header", "content"}
      <3>1. opened[e] /\ ended[e] = <<>>
        BY <2>2 DEF ToldInv, Life, HandshakeOps
      <3> QED  BY <3>1 DEF Lives
    <2> QED  BY <2>1, <2>2
  <1>6. \A d \in Ends : d # e => Lives(d)
    BY DEF Lives
  <1> QED  BY <1>2, <1>3, <1>4, <1>5, <1>6 DEF ToldStep

LEMMA OpenTold ==
  ASSUME ToldInv, Typed', NEW e \in Ends, ConnectionOpen(e)
  PROVE  ToldStep
  <1>1. /\ opened' = [opened EXCEPT ![e] = TRUE] /\ conns' = (conns \/ e = "server")
        /\ next' = [next EXCEPT ![e] = Waiting("header")]
        /\ UNCHANGED <<delivered, ended, at, stop>>
        /\ next[e].op \in HandshakeOps(e) /\ at[e]["reader"] = "-"
    BY DEF ConnectionOpen, Await, control, Handler, HandshakeOps
  <1>2. ~opened[e] /\ ended[e] = <<>>
    BY <1>1 DEF ToldInv, Life
  <1>3. opened'[e] /\ \A d \in Ends : d # e => opened'[d] = opened[d]
    BY <1>1 DEF ToldInv, Typed, ToldTypes
  <1>4. next'[e] = Waiting("header") /\ \A d \in Ends : d # e => next'[d] = next[d]
    BY <1>1 DEF ToldInv, Typed, ReadTypes
  <1>5. SetIsExact'
    BY <1>1, <1>2, <1>3 DEF ToldInv, SetIsExact
  <1>6. \A d \in Ends : Lives(d)
    BY <1>1, <1>2, <1>3 DEF Lives
  <1>7. \A d \in Ends : Life(d)'
    BY <1>1, <1>2, <1>3, <1>4 DEF ToldInv, Life, Waiting, HandshakeOps
  <1> QED  BY <1>5, <1>6, <1>7 DEF ToldStep

LEMMA ReadMessageTold ==
  ASSUME ToldInv, Typed', NEW e \in Ends, ReadMessage(e)
  PROVE  ToldStep
  <1>1. at[e]["reader"] = "-" /\ next[e].op = "header" /\ next[e].res = "ok" /\ UNCHANGED stop
    BY DEF ReadMessage, Handler
  <1>2. CASE CloseAndEnd(e, <<>>) \/ CloseAndEnd(e, <<"error">>)
    BY <1>1, <1>2, CloseTold
  <1>3. CASE Await(e, "content") /\ UNCHANGED <<timer, told, at>>
    <2>1. next' = [next EXCEPT ![e] = Waiting("content")] /\ Waiting("content").op = "content"
      BY <1>3 DEF Await, Waiting
    <2> QED  BY <1>1, <1>3, <2>1, ChainTold DEF told
  <1> QED  BY <1>2, <1>3 DEF ReadMessage

LEMMA ContentTold ==
  ASSUME ToldInv, Typed', NEW e \in Ends, ContentHandler(e)
  PROVE  ToldStep
  <1>1. at[e]["reader"] = "-" /\ next[e].op = "content" /\ next[e].res = "ok" /\ UNCHANGED stop
    BY DEF ContentHandler, Handler
  <1>2. CASE CloseAndEnd(e, <<>>)
    BY <1>1, <1>2, CloseTold
  <1>3. CASE Await(e, "header") /\ UNCHANGED <<opened, ended, conns, at>>
    <2>1. next' = [next EXCEPT ![e] = Waiting("header")] /\ Waiting("header").op = "header"
      BY <1>3 DEF Await, Waiting
    <2>2. \/ delivered' = delivered
          \/ delivered' = [delivered EXCEPT ![e] = Append(@, Assembled(e))]
      BY DEF ContentHandler, told, CloseAndEnd, End
    <2>3. delivered \in [Ends -> Seq(Seq(Nat))]
      BY DEF ToldInv, Typed, ToldTypes
    <2>4. /\ Len(delivered'[e]) \in {Len(delivered[e]), Len(delivered[e]) + 1}
          /\ \A d \in Ends : d # e => delivered'[d] = delivered[d]
      <3>1. Len(Append(delivered[e], Assembled(e))) = Len(delivered[e]) + 1
        <4>1. cur[e].n \in Nat
          BY CurTyped DEF ToldInv, Typed
        <4>2. Assembled(e) \in Seq(Nat)
          BY <4>1, AssembledTyped DEF ToldInv
        <4> QED  BY <2>3, <4>2
      <3> QED  BY <2>2, <2>3, <3>1
    <2> QED  BY <1>1, <1>3, <2>1, <2>4, ChainTold
  <1> QED  BY <1>2, <1>3 DEF ContentHandler, told

LEMMA ErrorTold ==
  ASSUME ToldInv, Typed', NEW e \in Ends, ConnectionError(e)
  PROVE  ToldStep
  <1>1. at[e]["reader"] = "-" /\ End(e, <<"error">>) /\ UNCHANGED <<at, stop>>
        /\ next[e].op \in HandshakeOps(e) \cup {"header", "content"}
    <2>1. End(e, <<"error">>) /\ UNCHANGED <<at, stop>> /\ ReadFailed(e)
      BY DEF ConnectionError, control
    <2>2. at[e]["reader"] = "-"
      BY <2>1 DEF ReadFailed, Handler
    <2>3. next[e].op \in HandshakeOps(e) \cup {"header", "content"}
      <3>1. CASE e = "client" /\ Handler(e, "read_response", "ok")
        BY <3>1 DEF Handler, HandshakeOps
      <3>2. ASSUME NEW op \in {"header", "content"} \cup
                     (IF e = "server" THEN {"write_response"}
                      ELSE {"resolve", "connect", "write_request", "read_response"}),
                   Handler(e, op, "err")
            PROVE  next[e].op \in HandshakeOps(e) \cup {"header", "content"}
        <4>1. next[e].op = op
          BY <3>2 DEF Handler
        <4>2. op \in HandshakeOps(e) \cup {"header", "content"}
          BY DEF HandshakeOps
        <4> QED  BY <4>1, <4>2
      <3> QED  BY <2>1, <3>1, <3>2 DEF ReadFailed
    <2> QED  BY <2>1, <2>2, <2>3
  <1>2. ended[e] = <<>>
    BY <1>1 DEF ToldInv, Life
  <1> QED  BY <1>1, <1>2, EndTold

LEMMA SetClosedTold ==
  ASSUME ToldInv, Typed', NEW e \in Ends, NEW a \in Actors, SetClosed(e, a)
  PROVE  ToldStep
  <1>1. at[e][a] = "set" /\ at' = [at EXCEPT ![e][a] = "-"] /\ UNCHANGED stop
    BY DEF SetClosed
  <1>2. at \in [Ends -> [Actors -> {"-", "set"}]]
    BY DEF ToldInv, Typed, CloseType
  <1>3. CASE a = "reader"
    <2>1. /\ End(e, <<"close">>)
          /\ \A d \in Ends : at'[d]["reader"] = IF d = e THEN "-" ELSE at[d]["reader"]
      BY <1>1, <1>2, <1>3 DEF SetClosed
    <2>2. opened[e] /\ ended[e] \in {<<>>, <<"error">>}
      BY <1>1, <1>3 DEF ToldInv, Life
    <2> QED  BY <1>1, <2>1, <2>2, EndTold
  <1>4. CASE a # "reader"
    <2>1. UNCHANGED <<told, next>> /\ \A d \in Ends : at'[d]["reader"] = at[d]["reader"]
      BY <1>1, <1>2, <1>4 DEF SetClosed
    <2> QED  BY <1>1, <2>1, NothingTold
  <1> QED  BY <1>3, <1>4

LEMMA HandshakeTold ==
  ASSUME ToldInv, Typed', NEW e \in Ends, UNCHANGED HandshakeOnly, next[e].op \in HandshakeOps(e),
         at[e]["reader"] = "-",
         (\E op \in HandshakeOps(e) : Await(e, op)) \/ NoMore(e)
  PROVE  ToldStep
  <1>1. UNCHANGED <<opened, ended, conns, at, stop, delivered>>
    BY DEF HandshakeOnly, told, control
  <1>2. CASE NoMore(e)
    BY <1>1, <1>2, ChainTold DEF NoMore
  <1>3. ASSUME NEW op \in HandshakeOps(e), Await(e, op) PROVE ToldStep
    <2>1. next' = [next EXCEPT ![e] = Waiting(op)] /\ Waiting(op).op \in HandshakeOps(e)
      BY <1>3 DEF Await, Waiting
    <2>2. Waiting(op).op \notin {"header", "content"}
      BY <2>1 DEF HandshakeOps
    <2> QED  BY <1>1, <2>1, <2>2, ChainTold
  <1> QED  BY <1>2, <1>3

LEMMA ToldNext ==
  ASSUME ToldInv, [Next]_vars
  PROVE  ToldStep
  <1>0. Typed'
    BY TypedNext DEF ToldInv
  <1> USE DEF told, control, reading
  <1>1. CASE UNCHANGED vars
    BY <1>0, <1>1, NothingTold DEF vars
  <1>2. CASE Breaks
    BY <1>0, <1>2, NothingTold DEF Breaks
  <1>3. ASSUME NEW e \in Ends, Step(e) PROVE ToldStep
    <2>1. CASE ConnectionOpen(e)
      BY <1>0, <2>1, OpenTold
    <2>2. CASE ReadMessage(e)
      BY <1>0, <2>2, ReadMessageTold
    <2>3. CASE ContentHandler(e)
      BY <1>0, <2>3, ContentTold
    <2>4. CASE ConnectionError(e)
      BY <1>0, <2>4, ErrorTold
    <2>5. CASE AcceptHandler \/ RequestHandler \/ HandshakeDropped
      <3>1. /\ UNCHANGED HandshakeOnly /\ next["server"].op \in HandshakeOps("server")
            /\ at["server"]["reader"] = "-"
            /\ (\E op \in HandshakeOps("server") : Await("server", op)) \/ NoMore("server")
        BY <2>5 DEF AcceptHandler, RequestHandler, HandshakeDropped, Handler, HandshakeOps
      <3> QED  BY <1>0, <3>1, HandshakeTold
    <2>6. CASE ResolveHandler \/ ConnectHandler \/ WriteRequestHandler
      <3>1. /\ UNCHANGED HandshakeOnly /\ next["client"].op \in HandshakeOps("client")
            /\ at["client"]["reader"] = "-"
            /\ (\E op \in HandshakeOps("client") : Await("client", op)) \/ NoMore("client")
        BY <2>6 DEF ResolveHandler, ConnectHandler, WriteRequestHandler, Handler, HandshakeOps
      <3> QED  BY <1>0, <3>1, HandshakeTold
    <2>7. CASE ConnectThrows
      BY <1>0, <2>7, NothingTold DEF ConnectThrows
    <2>8. CASE Strand(e)
      BY <1>0, <2>8, NothingTold
      DEF Strand, Enqueue, StartWrite, HeaderWritten, MessageWritten, WriteFailed, QueueOnly
    <2>9. CASE Timers(e) \/ AppCloses(e)
      <3>1. UNCHANGED <<told, next, stop>>
        BY <2>9 DEF Timers, TimerExpires, TimerHandler, AppCloses
      <3>2. \A d \in Ends : at'[d]["reader"] = at[d]["reader"]
        BY <2>9 DEF ToldInv, Typed, CloseType, Timers, TimerExpires, TimerHandler, AppCloses
      <3> QED  BY <1>0, <3>1, <3>2, NothingTold
    <2>10. CASE Closing(e)
      <3>1. stop'["server"] = "no" => stop["server"] = "no"
        BY <2>10 DEF ToldInv, Typed, StopType, Closing, StopService, Exit, Destroyed
      <3> QED  BY <1>0, <2>10, <3>1, NothingTold DEF Closing, StopService, Exit, Destroyed
    <2>11. CASE Network(e)
      <3>1. UNCHANGED <<told, at, stop>>
        BY <2>11 DEF Network, Succeeds, Fails, Written, WriteBreaks
      <3>2. \A d \in Ends : next'[d] = next[d] \/ (next[d].res = "wait" /\ next'[d].op = next[d].op)
        BY <2>11 DEF ToldInv, Typed, ReadTypes, Network, Succeeds, Fails, Written, WriteBreaks
      <3> QED  BY <1>0, <3>1, <3>2, NothingTold
    <2>12. CASE \E a \in Actors : SetClosed(e, a)
      BY <1>0, <2>12, SetClosedTold
    <2>13. CASE AppSends(e) \/ SendsUnmasked(e)
      BY <1>0, <2>13, NothingTold DEF AppSends, SendsUnmasked
    <2>14. CASE Stop(e)
      <3>1. /\ stop[e] = "no" /\ stop' = [stop EXCEPT ![e] = "closing"]
            /\ UNCHANGED <<opened, delivered, ended, at>> /\ conns' = (conns /\ e # "server")
            /\ next' = IF next[e] = Waiting("accept") THEN [next EXCEPT ![e].res = "err"] ELSE next
        BY <2>14 DEF Stop, Unregister
      <3>2. stop \in [Ends -> {"no", "closing", "stopped", "exited"}]
        BY DEF ToldInv, Typed, StopType
      <3>3. SetIsExact'
        BY <3>1, <3>2 DEF ToldInv, SetIsExact
      <3>4. \A d \in Ends : Lives(d)
        BY <3>1 DEF Lives
      <3>5. \A d \in Ends : next'[d] = next[d] \/ (next[d].res = "wait" /\ next'[d].op = next[d].op)
        BY <3>1 DEF ToldInv, Typed, ReadTypes, Waiting
      <3>6. \A d \in Ends : Life(d)'
        BY <3>1, <3>5 DEF ToldInv, Life, HandshakeOps
      <3> QED  BY <3>3, <3>4, <3>6 DEF ToldStep
    <2> QED
      BY <1>3, <2>1, <2>2, <2>3, <2>4, <2>5, <2>6, <2>7, <2>8, <2>9, <2>10, <2>11, <2>12, <2>13, <2>14
      DEF Step, Strand, Timers, Closing, Network
  <1> QED  BY <1>1, <1>2, <1>3, StepCases

LEMMA ToldInit == Init => ToldInv
  <1> SUFFICES ASSUME Init PROVE ToldInv
    OBVIOUS
  <1>1. Typed
    BY TypedInit
  <1>2. SetIsExact
    BY DEF Init, Each, SetIsExact
  <1>3. \A e \in Ends : Life(e)
    BY DEF Init, Each, Waiting, Life, HandshakeOps
  <1> QED  BY <1>1, <1>2, <1>3 DEF ToldInv

LEMMA ToldInvNext == ToldInv /\ [Next]_vars => ToldInv'
  BY TypedNext, ToldNext DEF ToldInv, ToldStep

\* ws/server.h:726-763: Endpoint::connections holds the connection from on_open to on_close or
\* on_error, for any numbers of threads and whatever timers, peers and the network do.
THEOREM ConnectionsAreExact == Spec => []SetIsExact
  <1>1. ToldInv => SetIsExact
    BY DEF ToldInv
  <1> QED  BY ToldInit, ToldInvNext, <1>1, PTL DEF Spec

\* ws/server.h:726-763, ws/client.h:655-676: whatever is told at one end is one life of a
\* connection: on_open once, messages, then on_close or on_error and nothing after it, except
\* that a message that is too big is announced by both.
THEOREM LifecycleImplementation == Spec => LifecycleSpec
  <1>1. Init => ServerLife!Init /\ ClientLife!Init
    BY DEF Init, Each, ServerLife!Init, ClientLife!Init
  <1>2. ToldInv /\ [Next]_vars => [ServerLife!Next]_(ServerLife!vars) /\ [ClientLife!Next]_(ClientLife!vars)
    <2> SUFFICES ASSUME ToldInv, [Next]_vars
                 PROVE  [ServerLife!Next]_(ServerLife!vars) /\ [ClientLife!Next]_(ClientLife!vars)
      OBVIOUS
    <2>0. ToldInv'
      BY ToldInvNext
    <2>1. Lives("server") /\ Lives("client")
      BY ToldNext DEF ToldStep
    <2>2. \A e \in Ends : opened[e] \in BOOLEAN /\ opened'[e] \in BOOLEAN
      BY <2>0 DEF ToldInv, Typed, ToldTypes
    <2>3. [ServerLife!Next]_(ServerLife!vars)
      BY <2>1, <2>2
      DEF Lives, ServerLife!Next, ServerLife!vars, ServerLife!Open, ServerLife!Message,
          ServerLife!Close, ServerLife!Error, ServerLife!TooBig
    <2>4. [ClientLife!Next]_(ClientLife!vars)
      BY <2>1, <2>2
      DEF Lives, ClientLife!Next, ClientLife!vars, ClientLife!Open, ClientLife!Message,
          ClientLife!Close, ClientLife!Error, ClientLife!TooBig
    <2> QED  BY <2>3, <2>4
  <1> QED
    BY <1>1, <1>2, ToldInit, ToldInvNext, PTL DEF Spec, LifecycleSpec, ServerLife!Spec, ClientLife!Spec

-----------------------------------------------------------------------------
(* The network as the two ends see it.  An end sends nothing before its handshake is over,    *)
(* and a write that has failed has failed for good.                                            *)

InHandshake(e) == next[e].op \in HandshakeOps(e)

\* What end e writes from now on reaches nobody.
Dead(e) == ~InHandshake(e) /\ (~Up(e) \/ Left(Other(e)))

Silent(e) ==
  InHandshake(e) =>
    /\ posted[e] = <<>> /\ starts[e] = 0 /\ wr[e] = IdleWrite
    /\ timer[e] # "idle" /\ "idle" \notin fired[e] /\ \A a \in Actors : at[e][a] = "-"

Fresh ==
  /\ next["server"] = Waiting("accept") => socket["server"] = "none" \/ stop["server"] = "exited"
  /\ next["client"].op = "resolve" => socket["client"] = "none" \/ stop["client"] = "exited"
  /\ next["client"].op = "resolve" \/ next["client"] = Waiting("connect") => link = "none"
  /\ socket["server"] = "open" => link # "none"

NetInv == ToldInv /\ Fresh /\ \A e \in Ends : Silent(e)

\* What a step may do to the network.
NetStep ==
  /\ \A e \in Ends : InHandshake(e)' => InHandshake(e)
  /\ \A e \in Ends : \/ socket'[e] = socket[e]
                     \/ socket[e] = "open" /\ socket'[e] = "closed"
                     \/ socket'[e] = "gone"
                     \/ socket[e] = "none" /\ socket'[e] = "open" /\ InHandshake(e)
  /\ \/ link' = link
     \/ link = "up" /\ link' = "broken"
     \/ link = "none" /\ link' = "up" /\ InHandshake("client")

NetKept == NetStep /\ Fresh' /\ \A e \in Ends : Silent(e)'

\* Steps after the handshake that leave the network alone.
LEMMA OpenNet ==
  ASSUME NetInv, Typed', NEW e \in Ends, ~InHandshake(e), UNCHANGED <<link, socket>>,
         \A d \in Ends : stop[d] = "exited" => stop'[d] = "exited",
         next'[e] = next[e] \/ next'[e].op \in {"header", "content", "none"},
         \A d \in Ends : d # e => UNCHANGED <<next[d], posted[d], starts[d], wr[d], timer[d], fired[d], at[d]>>
  PROVE  NetKept
  <1>1. \A d \in Ends : InHandshake(d)' => InHandshake(d) /\ d # e
    BY DEF InHandshake, HandshakeOps
  <1>2. NetStep
    BY <1>1 DEF NetStep
  <1>3. Fresh'
    <2>1. next'["server"] = Waiting("accept") => next["server"] = Waiting("accept")
      BY <1>1 DEF InHandshake, HandshakeOps, Waiting
    <2>2. next'["client"].op = "resolve" => next["client"].op = "resolve"
      BY <1>1 DEF InHandshake, HandshakeOps
    <2>3. next'["client"] = Waiting("connect") => next["client"] = Waiting("connect")
      BY <1>1 DEF InHandshake, HandshakeOps, Waiting
    <2> QED  BY <2>1, <2>2, <2>3 DEF NetInv, Fresh
  <1>4. \A d \in Ends : Silent(d)'
    BY <1>1 DEF NetInv, Silent
  <1> QED  BY <1>2, <1>3, <1>4 DEF NetKept

\* Nothing happens that matters here.
LEMMA NetStutter ==
  ASSUME NetInv, UNCHANGED <<next, posted, starts, wr, link, at>>,
         \A d \in Ends : stop[d] = "exited" => stop'[d] = "exited",
         \A d \in Ends : timer'[d] \in {timer[d], "off"} /\ fired'[d] \subseteq fired[d] \cup {timer[d]},
         \A d \in Ends : \/ socket'[d] = socket[d]
                         \/ socket[d] = "open" /\ socket'[d] = "closed"
                         \/ socket'[d] = "gone" /\ (stop'[d] = "exited" \/ ~InHandshake(d))
  PROVE  NetKept
  <1>1. \A d \in Ends : InHandshake(d)' <=> InHandshake(d)
    BY DEF InHandshake
  <1>2. NetStep
    BY <1>1 DEF NetStep
  <1>3. Fresh'
    BY DEF NetInv, Fresh, InHandshake, HandshakeOps, Waiting
  <1>4. \A d \in Ends : Silent(d)'
    BY <1>1 DEF NetInv, Silent
  <1> QED  BY <1>2, <1>3, <1>4 DEF NetKept

\* An end that has got so far has its handshake behind it.
LEMMA OverIf ==
  ASSUME NetInv, NEW e \in Ends,
         \/ opened[e] \/ posted[e] # <<>> \/ starts[e] # 0 \/ wr[e] # IdleWrite \/ "idle" \in fired[e]
         \/ \E a \in Actors : at[e][a] # "-"
         \/ next[e].op \in {"header", "content", "none"}
  PROVE  ~InHandshake(e)
  BY DEF NetInv, ToldInv, Silent, Life, InHandshake, HandshakeOps

LEMMA HandshakeNet ==
  ASSUME NetInv, NEW e \in Ends, UNCHANGED HandshakeOnly, UNCHANGED socket,
         TimeRequest(e) \/ Cancel(e), InHandshake(e), next[e].res # "wait",
         (\E op \in HandshakeOps(e) \ {"accept", "resolve", "connect"} : Await(e, op)) \/ NoMore(e)
  PROVE  NetKept
  <1>0. /\ next \in [Ends -> [op : ReadOps, res : {"wait", "ok", "err", "-"}]]
        /\ timer \in [Ends -> {"off", "request", "idle"}]
    BY DEF NetInv, ToldInv, Typed, ReadTypes, TimerTypes
  <1>1. \A d \in Ends : d # e => next'[d] = next[d]
    BY <1>0 DEF Await, NoMore
  <1>2. next'[e].op \in (HandshakeOps(e) \ {"accept", "resolve", "connect"}) \cup {"none"}
    BY <1>0 DEF Await, NoMore, Waiting
  <1>3. NetStep
    BY <1>1 DEF NetStep, InHandshake, HandshakeOnly
  <1>4. Fresh'
    BY <1>1, <1>2 DEF NetInv, Fresh, HandshakeOnly, control, Waiting
  <1>5. timer'[e] # "idle" /\ \A d \in Ends : d # e => timer'[d] = timer[d]
    BY <1>0 DEF TimeRequest, Cancel
  <1>6. \A d \in Ends : Silent(d)'
    BY <1>1, <1>5 DEF NetInv, Silent, InHandshake, HandshakeOnly, sending, control
  <1> QED  BY <1>3, <1>4, <1>6 DEF NetKept

LEMMA ResolveNet ==
  ASSUME NetInv, ResolveHandler
  PROVE  NetKept
  <1>0. /\ next \in [Ends -> [op : ReadOps, res : {"wait", "ok", "err", "-"}]]
        /\ timer \in [Ends -> {"off", "request", "idle"}]
        /\ socket \in [Ends -> {"none", "open", "closed", "gone"}]
    BY DEF NetInv, ToldInv, Typed, ReadTypes, TimerTypes, NetworkTypes
  <1>1. /\ next["client"].op = "resolve" /\ stop["client"] # "exited"
        /\ next' = [next EXCEPT !["client"] = Waiting("connect")]
        /\ socket' = [socket EXCEPT !["client"] = "open"]
        /\ UNCHANGED <<link, stop, posted, starts, wr, fired, at>>
    BY DEF ResolveHandler, Handler, CanRun, Await, HandshakeOnly, sending, control
  <1>2. socket["client"] = "none" /\ link = "none"
    BY <1>1 DEF NetInv, Fresh
  <1>3. next'["client"] = Waiting("connect") /\ next'["server"] = next["server"]
    BY <1>0, <1>1
  <1>4. NetStep
    BY <1>0, <1>1, <1>2, <1>3 DEF NetStep, InHandshake, HandshakeOps, Waiting
  <1>5. Fresh'
    BY <1>0, <1>1, <1>2, <1>3 DEF NetInv, Fresh, Waiting
  <1>6. timer'["client"] # "idle" /\ timer'["server"] = timer["server"]
    BY <1>0 DEF ResolveHandler, TimeRequest
  <1>7. \A d \in Ends : Silent(d)'
    BY <1>1, <1>3, <1>6 DEF NetInv, Silent, InHandshake, HandshakeOps, Waiting
  <1> QED  BY <1>4, <1>5, <1>7 DEF NetKept

LEMMA SucceedsNet ==
  ASSUME NetInv, NEW e \in Ends, Succeeds(e) \/ Fails(e)
  PROVE  NetKept
  <1>0. /\ next \in [Ends -> [op : ReadOps, res : {"wait", "ok", "err", "-"}]]
        /\ socket \in [Ends -> {"none", "open", "closed", "gone"}]
    BY DEF NetInv, ToldInv, Typed, ReadTypes, NetworkTypes
  <1>1. /\ next[e].res = "wait" /\ stop[e] # "exited"
        /\ UNCHANGED <<stop, posted, starts, wr, timer, fired, at>>
    BY DEF Succeeds, Fails, sending, timers, control
  <1>2. /\ next'[e].op = next[e].op /\ next'[e].res # "wait"
        /\ \A d \in Ends : d # e => next'[d] = next[d]
    BY <1>0 DEF Succeeds, Fails
  <1>3. \A d \in Ends : InHandshake(d)' <=> InHandshake(d)
    BY <1>2 DEF InHandshake
  <1>4. \A d \in Ends : Silent(d)'
    BY <1>1, <1>3 DEF NetInv, Silent
  <1>5. next[e] = Waiting(next[e].op)
    BY <1>0, <1>1 DEF Waiting
  <1>6. next[e].op \in HandshakeOps(e) \cup {"header", "content", "none"}
    BY DEF NetInv, ToldInv, Life
  <1>7. \/ UNCHANGED <<link, socket>>
        \/ e = "client" /\ next[e].op = "connect" /\ link' = "up" /\ UNCHANGED socket
        \/ /\ e = "server" /\ next[e].op = "accept" /\ link # "none" /\ UNCHANGED link
           /\ socket' = [socket EXCEPT ![e] = "open"]
    BY <1>6 DEF Succeeds, Fails, network, HandshakeOps
  <1>8. CASE UNCHANGED <<link, socket>>
    <2>1. NetStep
      BY <1>3, <1>8 DEF NetStep
    <2>2. Fresh'
      BY <1>1, <1>2, <1>8 DEF NetInv, Fresh, Waiting
    <2> QED  BY <1>4, <2>1, <2>2 DEF NetKept
  <1>9. CASE e = "client" /\ next[e].op = "connect" /\ link' = "up" /\ UNCHANGED socket
    <2>1. link = "none"
      BY <1>5, <1>9 DEF NetInv, Fresh
    <2>2. NetStep
      BY <1>3, <1>9, <2>1 DEF NetStep, InHandshake, HandshakeOps
    <2>3. Fresh'
      BY <1>1, <1>2, <1>9 DEF NetInv, Fresh, Waiting
    <2> QED  BY <1>4, <2>2, <2>3 DEF NetKept
  <1>10. CASE /\ e = "server" /\ next[e].op = "accept" /\ link # "none" /\ UNCHANGED link
              /\ socket' = [socket EXCEPT ![e] = "open"]
    <2>1. socket[e] = "none"
      BY <1>1, <1>5, <1>10 DEF NetInv, Fresh
    <2>2. NetStep
      BY <1>0, <1>3, <1>10, <2>1 DEF NetStep, InHandshake, HandshakeOps
    <2>3. Fresh'
      BY <1>0, <1>1, <1>2, <1>10 DEF NetInv, Fresh, Waiting
    <2> QED  BY <1>4, <2>2, <2>3 DEF NetKept
  <1> QED  BY <1>7, <1>8, <1>9, <1>10

LEMMA NetNext ==
  ASSUME NetInv, [Next]_vars
  PROVE  NetKept
  <1>0. Typed'
    BY TypedNext DEF NetInv, ToldInv
  <1> USE DEF reading, sending, network, timers, control
  <1>1. CASE UNCHANGED vars
    BY <1>1, NetStutter DEF vars
  <1>2. CASE Breaks
    <2>1. NetStep /\ (\A e \in Ends : Silent(e)')
      BY <1>2 DEF Breaks, NetInv, NetStep, Silent, InHandshake
    <2>2. Fresh'
      BY <1>2 DEF Breaks, NetInv, Fresh
    <2> QED  BY <2>1, <2>2 DEF NetKept
  <1>3. ASSUME NEW e \in Ends, Step(e) PROVE NetKept
    <2> DEFINE Chain == ReadMessage(e) \/ ContentHandler(e)
               Frozen(d) == UNCHANGED <<next[d], posted[d], starts[d], wr[d], timer[d], fired[d], at[d]>>
    <2>0. /\ next \in [Ends -> [op : ReadOps, res : {"wait", "ok", "err", "-"}]]
          /\ timer \in [Ends -> {"off", "request", "idle"}] /\ fired \in [Ends -> SUBSET {"request", "idle"}]
          /\ socket \in [Ends -> {"none", "open", "closed", "gone"}]
          /\ at \in [Ends -> [Actors -> {"-", "set"}]]
          /\ stop \in [Ends -> {"no", "closing", "stopped", "exited"}]
          /\ posted \in [Ends -> Seq(Frames)] /\ starts \in [Ends -> Nat] /\ wr \in [Ends -> Writes]
      BY DEF NetInv, ToldInv, Typed, SendInv, SendType, ReadTypes, TimerTypes, NetworkTypes, CloseType,
             StopType
    <2>1. CASE ConnectionOpen(e)
      <3>1. /\ next' = [next EXCEPT ![e] = Waiting("header")] /\ Rearm(e)
            /\ UNCHANGED <<posted, starts, wr, link, socket, fired, at, stop>>
        BY <2>1 DEF ConnectionOpen, Await
      <3>2. next'[e].op = "header" /\ \A d \in Ends : d # e => next'[d] = next[d] /\ timer'[d] = timer[d]
        BY <2>0, <3>1 DEF Waiting, Rearm
      <3>3. NetStep
        BY <3>1, <3>2 DEF NetStep, InHandshake, HandshakeOps
      <3>4. Fresh'
        BY <3>1, <3>2 DEF NetInv, Fresh, Waiting
      <3>5. \A d \in Ends : Silent(d)'
        BY <3>1, <3>2 DEF NetInv, Silent, InHandshake, HandshakeOps
      <3> QED  BY <3>3, <3>4, <3>5 DEF NetKept
    <2>2. CASE ConnectionError(e)
      <3>1. /\ next' = [next EXCEPT ![e] = [op |-> "none", res |-> "-"]] /\ Rearm(e)
            /\ UNCHANGED <<posted, starts, wr, link, socket, fired, at, stop>>
        BY <2>2 DEF ConnectionError, End, NoMore
      <3>2. next'[e].op = "none" /\ \A d \in Ends : d # e => next'[d] = next[d] /\ timer'[d] = timer[d]
        BY <2>0, <3>1 DEF Rearm
      <3>3. NetStep
        BY <3>1, <3>2 DEF NetStep, InHandshake, HandshakeOps
      <3>4. Fresh'
        BY <3>1, <3>2 DEF NetInv, Fresh, Waiting
      <3>5. \A d \in Ends : Silent(d)'
        BY <3>1, <3>2 DEF NetInv, Silent, InHandshake, HandshakeOps
      <3> QED  BY <3>3, <3>4, <3>5 DEF NetKept
    <2>3. CASE Chain
      <3>1. ~InHandshake(e)
        BY <2>3 DEF ReadMessage, ContentHandler, Handler, InHandshake, HandshakeOps
      <3>2. UNCHANGED <<link, socket, stop>>
        BY <2>3 DEF ReadMessage, ContentHandler
      <3>3. next'[e] = next[e] \/ next'[e].op \in {"header", "content", "none"}
        BY <2>0, <2>3 DEF ReadMessage, ContentHandler, CloseAndEnd, End, NoMore, Await, Waiting
      <3>4. \A d \in Ends : d # e => Frozen(d)
        BY <2>0, <2>3
        DEF ReadMessage, ContentHandler, CloseAndEnd, End, NoMore, Await, Send, Rearm
      <3> QED  BY <1>0, <3>1, <3>2, <3>3, <3>4, OpenNet
    <2>4. CASE \E a \in Actors : SetClosed(e, a)
      <3>1. ~InHandshake(e)
        BY <2>4, OverIf DEF SetClosed
      <3>2. UNCHANGED <<link, socket, stop>>
        BY <2>4 DEF SetClosed
      <3>3. next'[e] = next[e] \/ next'[e].op = "none"
        BY <2>0, <2>4 DEF SetClosed, End, NoMore
      <3>4. \A d \in Ends : d # e => Frozen(d)
        BY <2>0, <2>4 DEF SetClosed, End, NoMore, Send, Rearm
      <3> QED  BY <1>0, <3>1, <3>2, <3>3, <3>4, OpenNet
    <2>5. CASE AcceptHandler \/ RequestHandler \/ HandshakeDropped
      <3>1. /\ UNCHANGED HandshakeOnly /\ UNCHANGED socket
            /\ TimeRequest("server") \/ Cancel("server")
            /\ InHandshake("server") /\ next["server"].res # "wait"
            /\ \/ \E op \in HandshakeOps("server") \ {"accept", "resolve", "connect"} : Await("server", op)
               \/ NoMore("server")
        BY <2>5 DEF AcceptHandler, RequestHandler, HandshakeDropped, Handler, InHandshake, HandshakeOps
      <3> QED  BY <3>1, HandshakeNet
    <2>6. CASE ConnectHandler \/ WriteRequestHandler
      <3>1. /\ UNCHANGED HandshakeOnly /\ UNCHANGED socket
            /\ TimeRequest("client") \/ Cancel("client")
            /\ InHandshake("client") /\ next["client"].res # "wait"
            /\ \E op \in HandshakeOps("client") \ {"accept", "resolve", "connect"} : Await("client", op)
        BY <2>6 DEF ConnectHandler, WriteRequestHandler, Handler, InHandshake, HandshakeOps
      <3> QED  BY <3>1, HandshakeNet
    <2>7. CASE ResolveHandler
      BY <2>7, ResolveNet
    <2>8. CASE ConnectThrows
      <3>1. \A d \in Ends : stop[d] = "exited" => stop'[d] = "exited"
        BY <2>0, <2>8 DEF ConnectThrows
      <3>2. \A d \in Ends : socket'[d] = socket[d] \/ (socket'[d] = "gone" /\ stop'[d] = "exited")
        BY <2>0, <2>8 DEF ConnectThrows
      <3>3. UNCHANGED <<next, posted, starts, wr, link, at, timer, fired>>
        BY <2>8 DEF ConnectThrows
      <3> QED  BY <3>1, <3>2, <3>3, NetStutter
    <2>9. CASE Strand(e)
      <3>1. ~InHandshake(e)
        <4>1. posted[e] # <<>> \/ starts[e] # 0 \/ wr[e] # IdleWrite
          BY <2>0, <2>9
          DEF Strand, Enqueue, StartWrite, HeaderWritten, MessageWritten, WriteFailed, IdleWrite
        <4> QED  BY <4>1, OverIf
      <3>2. UNCHANGED <<link, socket, stop, next, timer, fired, at>>
        BY <2>9
        DEF Strand, Enqueue, StartWrite, HeaderWritten, MessageWritten, WriteFailed, QueueOnly
      <3>3. \A d \in Ends : d # e => UNCHANGED <<posted[d], starts[d], wr[d]>>
        BY <2>0, <2>9 DEF Strand, Enqueue, StartWrite, HeaderWritten, MessageWritten, WriteFailed
      <3> QED  BY <1>0, <3>1, <3>2, <3>3, OpenNet
    <2>10. CASE TimerExpires(e)
      <3>1. \A d \in Ends : timer'[d] \in {timer[d], "off"} /\ fired'[d] \subseteq fired[d] \cup {timer[d]}
        BY <2>0, <2>10 DEF TimerExpires, Cancel
      <3> QED  BY <2>10, <3>1, NetStutter DEF TimerExpires
    <2>11. ASSUME NEW kind \in {"request", "idle"}, TimerHandler(e, kind) PROVE NetKept
      <3>1. CASE UNCHANGED at
        <4>1. UNCHANGED <<next, posted, starts, wr, link, stop, timer>>
          BY <2>11 DEF TimerHandler
        <4>2. \A d \in Ends : fired'[d] \subseteq fired[d]
          BY <2>0, <2>11 DEF TimerHandler
        <4>3. \A d \in Ends : socket'[d] = socket[d] \/ (socket[d] = "open" /\ socket'[d] = "closed")
          BY <2>0, <2>11 DEF TimerHandler, CloseSocket
        <4> QED  BY <3>1, <4>1, <4>2, <4>3, NetStutter
      <3>2. CASE kind = "idle" /\ UNCHANGED socket
        <4>1. ~InHandshake(e)
          BY <2>11, <3>2, OverIf DEF TimerHandler
        <4>2. \A d \in Ends : d # e => Frozen(d)
          BY <2>0, <2>11 DEF TimerHandler
        <4> QED  BY <1>0, <2>11, <3>2, <4>1, <4>2, OpenNet DEF TimerHandler
      <3> QED  BY <2>11, <3>1, <3>2 DEF TimerHandler
    <2>12. CASE StopService(e)
      <3>1. \A d \in Ends : stop[d] = "exited" => stop'[d] = "exited"
        BY <2>0, <2>12 DEF StopService
      <3> QED  BY <2>12, <3>1, NetStutter DEF StopService
    <2>13. CASE Exit(e)
      <3>1. \A d \in Ends : stop[d] = "exited" => stop'[d] = "exited"
        BY <2>0, <2>13 DEF Exit
      <3>2. \A d \in Ends : socket'[d] = socket[d] \/ (socket'[d] = "gone" /\ stop'[d] = "exited")
        BY <2>0, <2>13 DEF Exit
      <3> QED  BY <2>13, <3>1, <3>2, NetStutter DEF Exit
    <2>14. CASE Destroyed
      <3>1. ~InHandshake("server")
        BY <2>14 DEF Destroyed, InHandshake, HandshakeOps
      <3>2. /\ \A d \in Ends : socket'[d] = socket[d] \/ (socket'[d] = "gone" /\ ~InHandshake(d))
            /\ \A d \in Ends : timer'[d] \in {timer[d], "off"} /\ fired'[d] \subseteq fired[d]
        BY <2>0, <2>14, <3>1 DEF Destroyed
      <3> QED  BY <2>14, <3>2, NetStutter DEF Destroyed
    <2>15. CASE Succeeds(e) \/ Fails(e)
      BY <2>15, SucceedsNet
    <2>16. CASE Written(e) \/ WriteBreaks(e)
      <3>1. ~InHandshake(e)
        <4>1. wr[e] # IdleWrite
          BY <2>16 DEF Written, WriteBreaks, IdleWrite
        <4> QED  BY <4>1, OverIf
      <3>2. UNCHANGED <<link, socket, stop, next, timer, fired, at, posted, starts>>
        BY <2>16 DEF Written, WriteBreaks
      <3>3. \A d \in Ends : d # e => wr'[d] = wr[d]
        BY <2>0, <2>16 DEF Written, WriteBreaks
      <3> QED  BY <1>0, <3>1, <3>2, <3>3, OpenNet
    <2>17. CASE AppSends(e) \/ AppCloses(e)
      <3>1. ~InHandshake(e)
        BY <2>17, OverIf DEF AppSends, AppCloses
      <3>2. UNCHANGED <<link, socket, stop, next>>
        BY <2>17 DEF AppSends, AppCloses
      <3>3. \A d \in Ends : d # e => Frozen(d)
        BY <2>0, <2>17 DEF AppSends, AppCloses, Send, Rearm
      <3> QED  BY <1>0, <3>1, <3>2, <3>3, OpenNet
    <2>18. CASE Stop(e)
      <3>1. /\ stop[e] = "no" /\ stop' = [stop EXCEPT ![e] = "closing"]
            /\ UNCHANGED <<posted, starts, wr, link, timer, fired, at>>
            /\ next' = IF next[e] = Waiting("accept") THEN [next EXCEPT ![e].res = "err"] ELSE next
            /\ socket' = [socket EXCEPT ![e] = IF @ = "open" THEN "closed" ELSE @] \/ socket' = socket
        BY <2>18 DEF Stop, CloseSocket
      <3>2. \A d \in Ends : socket'[d] = socket[d] \/ (socket[d] = "open" /\ socket'[d] = "closed")
        BY <2>0, <3>1
      <3>3. \A d \in Ends : stop[d] = "exited" => stop'[d] = "exited"
        BY <2>0, <3>1
      <3>4. \A d \in Ends : next'[d] = next[d] \/ (next[d] = Waiting("accept") /\ next'[d].op = "accept" /\ next'[d].res = "err")
        BY <2>0, <3>1 DEF Waiting
      <3>5. \A d \in Ends : InHandshake(d)' <=> InHandshake(d)
        BY <3>4 DEF InHandshake, Waiting
      <3>6. NetStep
        BY <3>1, <3>2, <3>5 DEF NetStep
      <3>7. Fresh'
        BY <3>1, <3>2, <3>3, <3>4 DEF NetInv, Fresh, Waiting
      <3>8. \A d \in Ends : Silent(d)'
        BY <3>1, <3>5 DEF NetInv, Silent
      <3> QED  BY <3>6, <3>7, <3>8 DEF NetKept
    <2>19. CASE SendsUnmasked(e)
      BY <2>19, NetStutter DEF SendsUnmasked
    <2> QED
      BY <1>3, <2>1, <2>2, <2>3, <2>4, <2>5, <2>6, <2>7, <2>8, <2>9, <2>10, <2>11, <2>12, <2>13, <2>14,
         <2>15, <2>16, <2>17, <2>18, <2>19 DEF Step, Strand
  <1> QED  BY <1>1, <1>2, <1>3, StepCases

LEMMA NetInit == Init => NetInv
  <1> SUFFICES ASSUME Init PROVE NetInv
    OBVIOUS
  <1>1. ToldInv
    BY ToldInit
  <1>2. Fresh
    BY DEF Init, Each, Fresh
  <1>3. \A e \in Ends : Silent(e)
    BY DEF Init, Each, Silent, InHandshake, Waiting, HandshakeOps
  <1> QED  BY <1>1, <1>2, <1>3 DEF NetInv

LEMMA NetInvNext == NetInv /\ [Next]_vars => NetInv'
  BY ToldInvNext, NetNext DEF NetInv, NetKept

LEMMA DeadStays ==
  ASSUME NetInv, [Next]_vars, NEW e \in Ends, Dead(e)
  PROVE  Dead(e)'
  <1>1. NetStep
    BY NetNext DEF NetKept
  <1>2. ~InHandshake(e)'
    BY <1>1 DEF Dead, NetStep
  <1>3. Other(e) \in Ends /\ (Left(Other(e)) => Left(Other(e))')
    BY <1>1 DEF Other, NetStep, Left
  <1>4. socket[e] # "open" => socket'[e] # "open"
    BY <1>1 DEF NetStep, Dead
  <1>5. link # "up" /\ socket[e] = "open" => link' # "up"
    <2>1. CASE e = "client"
      BY <1>1, <2>1 DEF NetStep, Dead
    <2>2. CASE e = "server"
      BY <1>1, <2>2 DEF NetStep, NetInv, Fresh
    <2> QED  BY <2>1, <2>2
  <1> QED  BY <1>2, <1>3, <1>4, <1>5 DEF Dead, Up

-----------------------------------------------------------------------------
(* Frames on their way.  A frame that has a number is the frame of that number of the script.  *)

FramesOf(e) ==
  {f \in Frames : \/ f.n = 0 /\ f.op \in {"pong", "close", "bad"}
                  \/ f.n \in DOMAIN Script[e] /\ f.op = Script[e][f.n]}

PartsOf(e) == [part : {"header", "body"}, frame : FramesOf(e)]
                \cup {Part("request", NoFrame), Part("response", NoFrame)}

Queued(e) == posted[e] \in Seq(FramesOf(e)) /\ send_queue[e] \in Seq(FramesOf(e))
Received(e) == wire[e] \in Seq(PartsOf(Other(e))) /\ cur[e] \in FramesOf(Other(e)) \cup {NoFrame}
Writing(e) ==
  /\ wr[e].op # "idle" => wr[e].frame = Head(send_queue[e])
  /\ wr[e].op = "header" => e = "server"
  /\ wr[e].res = "err" => Dead(e)

FramesInv == NetInv /\ \A e \in Ends : Queued(e) /\ Received(e) /\ Writing(e)
FramesKept == \A e \in Ends : (Queued(e) /\ Received(e) /\ Writing(e))'

LEMMA Typing ==
  ASSUME NetInv
  PROVE  /\ next \in [Ends -> [op : ReadOps, res : {"wait", "ok", "err", "-"}]]
         /\ cur \in [Ends -> Frames \cup {NoFrame}]
         /\ posted \in [Ends -> Seq(Frames)] /\ send_queue \in [Ends -> Seq(Frames)]
         /\ starts \in [Ends -> Nat] /\ wr \in [Ends -> Writes] /\ count \in [Ends -> Nat]
         /\ wire \in [Ends -> Seq(Parts)] /\ socket \in [Ends -> {"none", "open", "closed", "gone"}]
         /\ fragmented \in [Ends -> Seq(Nat)] /\ delivered \in [Ends -> Seq(Seq(Nat))]
         /\ at \in [Ends -> [Actors -> {"-", "set"}]]
         /\ \A e \in Ends : Script[e] \in Seq({"text", "first", "last", "ping"})
  BY ConstantsAssumption
  DEF ConstantsAssumption, NetInv, ToldInv, Typed, SendInv, SendType, ReadTypes, NetworkTypes,
      ToldTypes, CloseType

LEMMA Ours ==
  ASSUME NEW e \in Ends
  PROVE  Frame("close", 0) \in FramesOf(e) /\ Frame("pong", 0) \in FramesOf(e)
         /\ Frame("bad", 0) \in FramesOf(e)
  BY DEF FramesOf, Frames, Frame

\* A write has its frame.
LEMMA HasFrame ==
  ASSUME FramesInv, NEW e \in Ends, wr[e].op # "idle" \/ starts[e] # 0
  PROVE  /\ send_queue[e] # <<>> /\ Head(send_queue[e]) \in FramesOf(e)
         /\ Tail(send_queue[e]) \in Seq(FramesOf(e))
  <1>1. starts[e] \in Nat
    BY Typing DEF FramesInv
  <1>2. send_queue[e] # <<>>
    BY <1>1 DEF FramesInv, NetInv, ToldInv, Typed, SendInv, OneWriter
  <1>3. send_queue[e] \in Seq(FramesOf(e))
    BY DEF FramesInv, Queued
  <1> QED  BY <1>2, <1>3

LEMMA WritingSame ==
  ASSUME FramesInv, [Next]_vars, NEW e \in Ends, UNCHANGED <<wr[e], send_queue[e]>>
  PROVE  Writing(e)'
  <1>1. Dead(e) => Dead(e)'
    BY DeadStays DEF FramesInv
  <1> QED  BY <1>1 DEF FramesInv, Writing

LEMMA FramesStutter ==
  ASSUME FramesInv, [Next]_vars, UNCHANGED <<posted, send_queue, wr, wire, cur>>
  PROVE  FramesKept
  <1>1. \A e \in Ends : (Queued(e) /\ Received(e))'
    BY DEF FramesInv, Queued, Received
  <1>2. \A e \in Ends : Writing(e)'
    BY WritingSame
  <1> QED  BY <1>1, <1>2 DEF FramesKept

LEMMA FramesPosted ==
  ASSUME FramesInv, [Next]_vars, NEW e \in Ends, NEW f \in FramesOf(e),
         posted' = [posted EXCEPT ![e] = Append(@, f)], UNCHANGED <<send_queue, wr, wire, cur>>
  PROVE  FramesKept
  <1>1. posted[e] \in Seq(FramesOf(e))
    BY DEF FramesInv, Queued
  <1>2. Append(posted[e], f) \in Seq(FramesOf(e))
    BY <1>1
  <1>3. posted'[e] = Append(posted[e], f) /\ \A d \in Ends : d # e => posted'[d] = posted[d]
    BY Typing DEF FramesInv
  <1>4. \A d \in Ends : Queued(d)'
    BY <1>2, <1>3 DEF FramesInv, Queued
  <1>5. \A d \in Ends : Received(d)'
    BY DEF FramesInv, Received
  <1>6. \A d \in Ends : Writing(d)'
    BY WritingSame
  <1> QED  BY <1>4, <1>5, <1>6 DEF FramesKept

LEMMA AppFrame ==
  ASSUME NetInv, NEW e \in Ends, AppSends(e)
  PROVE  /\ Frame(Script[e][count[e] + 1], count[e] + 1) \in FramesOf(e)
         /\ count[e] \in Nat /\ count[e] < Len(Script[e])
  <1>1. /\ count[e] \in Nat /\ count[e] < Len(Script[e])
        /\ Script[e] \in Seq({"text", "first", "last", "ping"})
    BY Typing DEF AppSends
  <1>2. count[e] + 1 \in DOMAIN Script[e] /\ Script[e][count[e] + 1] \in Ops
    BY <1>1
  <1> QED  BY <1>1, <1>2 DEF FramesOf, Frames, Frame

\* Only the queue of end e is served.
LEMMA FramesServed ==
  ASSUME FramesInv, [Next]_vars, NEW e \in Ends, UNCHANGED <<wire, cur>>,
         \A d \in Ends : d # e => UNCHANGED <<posted[d], send_queue[d], wr[d]>>,
         (Queued(e) /\ Writing(e))'
  PROVE  FramesKept
  <1>1. \A d \in Ends : Received(d)'
    BY DEF FramesInv, Received
  <1>2. \A d \in Ends : d # e => Queued(d)'
    BY DEF FramesInv, Queued
  <1>3. \A d \in Ends : d # e => Writing(d)'
    BY WritingSame
  <1> QED  BY <1>1, <1>2, <1>3 DEF FramesKept

LEMMA StrandFrames ==
  ASSUME FramesInv, [Next]_vars, NEW e \in Ends, Strand(e)
  PROVE  FramesKept
  <1>0. /\ wr \in [Ends -> Writes] /\ posted[e] \in Seq(FramesOf(e)) /\ send_queue[e] \in Seq(FramesOf(e))
        /\ posted \in [Ends -> Seq(Frames)] /\ send_queue \in [Ends -> Seq(Frames)]
    BY Typing DEF FramesInv, Queued
  <1>1. UNCHANGED <<wire, cur>>
    BY DEF Strand, Enqueue, StartWrite, HeaderWritten, MessageWritten, WriteFailed, QueueOnly,
           reading, network
  <1>2. \A d \in Ends : d # e => UNCHANGED <<posted[d], send_queue[d], wr[d]>>
    BY <1>0 DEF Strand, Enqueue, StartWrite, HeaderWritten, MessageWritten, WriteFailed
  <1>3. CASE Enqueue(e)
    <2>1. /\ posted[e] # <<>> /\ wr'[e] = wr[e]
          /\ posted'[e] = Tail(posted[e]) /\ send_queue'[e] = Append(send_queue[e], Head(posted[e]))
      BY <1>0, <1>3 DEF Enqueue
    <2>2. Tail(posted[e]) \in Seq(FramesOf(e)) /\ Head(posted[e]) \in FramesOf(e)
      BY <1>0, <2>1
    <2>3. Append(send_queue[e], Head(posted[e])) \in Seq(FramesOf(e))
      BY <1>0, <2>2
    <2>4. Queued(e)'
      BY <2>1, <2>2, <2>3 DEF Queued
    <2>5. wr[e].op # "idle" => Head(send_queue'[e]) = Head(send_queue[e])
      <3>1. SUFFICES ASSUME wr[e].op # "idle" PROVE Head(send_queue'[e]) = Head(send_queue[e])
        OBVIOUS
      <3>2. send_queue[e] # <<>>
        BY <3>1, HasFrame
      <3> DEFINE q == send_queue[e]
                 f == Head(posted[e])
      <3>3. q \in Seq(FramesOf(e)) /\ q # <<>> /\ f \in FramesOf(e) /\ send_queue'[e] = Append(q, f)
        BY <1>0, <2>1, <2>2, <3>2
      <3> HIDE DEF q, f
      <3>4. Head(Append(q, f)) = Head(q)
        BY <3>3
      <3> QED  BY <3>3, <3>4 DEF q, f
    <2>6. Dead(e) => Dead(e)'
      BY DeadStays DEF FramesInv
    <2>7. Writing(e)'
      BY <2>1, <2>5, <2>6 DEF FramesInv, Writing
    <2> QED  BY <1>1, <1>2, <2>4, <2>7, FramesServed
  <1>4. CASE StartWrite(e) \/ (e = "server" /\ HeaderWritten)
    <2>1. /\ UNCHANGED <<posted, send_queue>> /\ wr'[e].op # "idle" /\ wr'[e].res = "wait"
          /\ wr'[e].frame = Head(send_queue[e]) /\ (wr'[e].op = "header" => e = "server")
      BY <1>0, <1>4 DEF StartWrite, HeaderWritten
    <2>2. (Queued(e) /\ Writing(e))'
      BY <1>0, <2>1 DEF Queued, Writing
    <2> QED  BY <1>1, <1>2, <2>2, FramesServed
  <1>5. CASE MessageWritten(e) \/ WriteFailed(e)
    <2>1. wr[e].op # "idle"
      BY <1>0, <1>5 DEF MessageWritten, WriteFailed, Writes, IdleWrite
    <2>2. Tail(send_queue[e]) \in Seq(FramesOf(e)) /\ <<>> \in Seq(FramesOf(e))
      BY <2>1, HasFrame
    <2>3. /\ UNCHANGED posted /\ send_queue'[e] \in {<<>>, Tail(send_queue[e])}
          /\ wr'[e].op = "idle" /\ wr'[e].res = "-"
      BY <1>0, <1>5 DEF MessageWritten, WriteFailed, IdleWrite
    <2>4. (Queued(e) /\ Writing(e))'
      BY <1>0, <2>2, <2>3 DEF Queued, Writing
    <2> QED  BY <1>1, <1>2, <2>4, FramesServed
  <1> QED  BY <1>3, <1>4, <1>5 DEF Strand

\* What is put on the wire of the other end.
LEMMA PutFrames ==
  ASSUME FramesInv, [Next]_vars, NEW e \in Ends, NEW parts \in Seq(PartsOf(e)), Put(e, parts),
         UNCHANGED <<posted, send_queue, cur>>, \A d \in Ends : Writing(d)'
  PROVE  FramesKept
  <1>1. Other(e) \in Ends /\ Other(Other(e)) = e
    BY DEF Other
  <1>2. wire[Other(e)] \in Seq(PartsOf(e)) /\ wire \in [Ends -> Seq(Parts)]
    BY <1>1, Typing DEF FramesInv, Received
  <1>3. wire[Other(e)] \o parts \in Seq(PartsOf(e))
    BY <1>2
  <1>4. /\ wire'[Other(e)] \in {wire[Other(e)], wire[Other(e)] \o parts}
        /\ \A d \in Ends : d # Other(e) => wire'[d] = wire[d]
    BY <1>1, <1>2 DEF Put
  <1>5. \A d \in Ends : Received(d)'
    BY <1>1, <1>2, <1>3, <1>4 DEF FramesInv, Received
  <1>6. \A d \in Ends : Queued(d)'
    BY DEF FramesInv, Queued
  <1> QED  BY <1>5, <1>6 DEF FramesKept

LEMMA PartsPut ==
  ASSUME NEW e \in Ends, NEW f \in FramesOf(e)
  PROVE  /\ <<Part("header", f)>> \in Seq(PartsOf(e)) /\ <<Part("body", f)>> \in Seq(PartsOf(e))
         /\ <<Part("header", f), Part("body", f)>> \in Seq(PartsOf(e))
         /\ <<Part("request", NoFrame)>> \in Seq(PartsOf(e))
         /\ <<Part("response", NoFrame)>> \in Seq(PartsOf(e))
  <1>1. /\ Part("header", f) \in PartsOf(e) /\ Part("body", f) \in PartsOf(e)
        /\ Part("request", NoFrame) \in PartsOf(e) /\ Part("response", NoFrame) \in PartsOf(e)
    BY DEF PartsOf, Part
  <1> QED  BY <1>1

\* What is taken from it.
LEMMA TakeFrames ==
  ASSUME FramesInv, [Next]_vars, NEW e \in Ends, NEW p, Take(e, p), UNCHANGED <<posted, send_queue, wr>>,
         \/ UNCHANGED cur
         \/ p = "header" /\ cur' = [cur EXCEPT ![e] = Head(wire[e]).frame]
  PROVE  FramesKept
  <1>1. wire[e] \in Seq(PartsOf(Other(e))) /\ wire[e] # <<>> /\ Head(wire[e]).part = p
        /\ wire' = [wire EXCEPT ![e] = Tail(@)]
    BY DEF FramesInv, Received, Take
  <1>2. Head(wire[e]) \in PartsOf(Other(e)) /\ Tail(wire[e]) \in Seq(PartsOf(Other(e)))
    BY <1>1
  <1>3. p = "header" => Head(wire[e]).frame \in FramesOf(Other(e))
    BY <1>1, <1>2 DEF PartsOf, Part
  <1>4. wire'[e] = Tail(wire[e]) /\ \A d \in Ends : d # e => wire'[d] = wire[d] /\ cur'[d] = cur[d]
    BY <1>1, Typing DEF FramesInv
  <1>5. cur'[e] \in FramesOf(Other(e)) \cup {NoFrame}
    BY <1>3, Typing DEF FramesInv, Received
  <1>6. \A d \in Ends : Received(d)'
    BY <1>2, <1>4, <1>5 DEF FramesInv, Received
  <1>7. \A d \in Ends : Queued(d)'
    BY DEF FramesInv, Queued
  <1>8. \A d \in Ends : Writing(d)'
    BY WritingSame
  <1> QED  BY <1>6, <1>7, <1>8 DEF FramesKept

LEMMA NetworkFrames ==
  ASSUME FramesInv, [Next]_vars, NEW e \in Ends, Network(e)
  PROVE  FramesKept
  <1> USE DEF reading, sending, network
  <1>1. CASE Fails(e)
    BY <1>1, FramesStutter DEF Fails
  <1>2. CASE Succeeds(e)
    <2>1. UNCHANGED <<posted, send_queue, wr>>
      BY <1>2 DEF Succeeds
    <2>2. CASE UNCHANGED <<wire, cur>>
      BY <2>1, <2>2, FramesStutter
    <2>3. CASE (Put(e, <<Part("request", NoFrame)>>) \/ Put(e, <<Part("response", NoFrame)>>)) /\ UNCHANGED cur
      <3>1. \A d \in Ends : Writing(d)'
        BY <2>1, WritingSame
      <3> QED  BY <2>1, <2>3, <3>1, Ours, PartsPut, PutFrames
    <2>4. CASE \/ (\E p \in {"request", "response", "body"} : Take(e, p)) /\ UNCHANGED cur
               \/ Take(e, "header") /\ cur' = [cur EXCEPT ![e] = Head(wire[e]).frame]
      BY <2>1, <2>4, TakeFrames
    <2> QED  BY <1>2, <2>2, <2>3, <2>4 DEF Succeeds
  <1>3. CASE Written(e)
    <2>0. wr \in [Ends -> Writes] /\ wr[e].res = "wait"
      BY <1>3, Typing DEF FramesInv, Written
    <2>1. wr[e].op # "idle"
      BY <2>0 DEF Writes, IdleWrite
    <2>2. wr[e].frame \in FramesOf(e)
      BY <2>1, HasFrame DEF FramesInv, Writing
    <2>3. /\ wr'[e].op = wr[e].op /\ wr'[e].frame = wr[e].frame /\ wr'[e].res = "ok"
          /\ \A d \in Ends : d # e => wr'[d] = wr[d]
      BY <1>3, <2>0, <2>1 DEF Written, Writes
    <2>4. UNCHANGED <<posted, send_queue, cur>>
      BY <1>3 DEF Written
    <2>5. \A d \in Ends : Writing(d)'
      <3>1. Writing(e)'
        BY <2>3, <2>4 DEF FramesInv, Writing
      <3>2. \A d \in Ends : d # e => Writing(d)'
        BY <2>3, <2>4, WritingSame
      <3> QED  BY <3>1, <3>2
    <2>6. \/ Put(e, <<Part("header", wr[e].frame), Part("body", wr[e].frame)>>)
          \/ Put(e, <<Part("header", wr[e].frame)>>)
          \/ Put(e, <<Part("body", wr[e].frame)>>)
      BY <1>3 DEF Written
    <2> QED  BY <2>2, <2>4, <2>5, <2>6, PartsPut, PutFrames
  <1>4. CASE WriteBreaks(e)
    <2>0. wr \in [Ends -> Writes] /\ wr[e].res = "wait"
      BY <1>4, Typing DEF FramesInv, WriteBreaks
    <2>1. wr[e].op # "idle"
      BY <2>0 DEF Writes, IdleWrite
    <2>2. wr[e] # IdleWrite
      BY <2>1 DEF IdleWrite
    <2>3. Dead(e)
      BY <1>4, <2>2, OverIf DEF FramesInv, WriteBreaks, Dead
    <2>4. Dead(e)'
      BY <2>3, DeadStays DEF FramesInv
    <2>5. /\ wr'[e].op = wr[e].op /\ wr'[e].frame = wr[e].frame
          /\ \A d \in Ends : d # e => wr'[d] = wr[d]
      BY <1>4, <2>0, <2>1 DEF WriteBreaks, Writes
    <2>6. UNCHANGED <<posted, send_queue, cur, wire>>
      BY <1>4 DEF WriteBreaks
    <2>7. Writing(e)' /\ Queued(e)'
      BY <2>4, <2>5, <2>6 DEF FramesInv, Writing, Queued
    <2> QED  BY <2>5, <2>6, <2>7, FramesServed
  <1> QED  BY <1>1, <1>2, <1>3, <1>4 DEF Network

LEMMA FramesNext ==
  ASSUME FramesInv, [Next]_vars
  PROVE  FramesKept
  <1> USE DEF reading, sending, network
  <1>1. CASE UNCHANGED vars
    BY <1>1, FramesStutter DEF vars
  <1>2. CASE Breaks
    BY <1>2, FramesStutter DEF Breaks
  <1>3. ASSUME NEW e \in Ends, Step(e) PROVE FramesKept
    <2>1. CASE Strand(e)
      BY <2>1, StrandFrames
    <2>2. CASE Network(e)
      BY <2>2, NetworkFrames
    <2>3. CASE ContentHandler(e)
      <3>1. UNCHANGED <<send_queue, wr, wire, cur>>
        BY <2>3 DEF ContentHandler
      <3>2. \/ posted' = [posted EXCEPT ![e] = Append(@, Frame("pong", 0))]
            \/ posted' = posted
        BY <2>3 DEF ContentHandler, Send
      <3> QED  BY <3>1, <3>2, Ours, FramesPosted, FramesStutter
    <2>4. CASE \E a \in Actors : SetClosed(e, a)
      <3>1. /\ posted' = [posted EXCEPT ![e] = Append(@, Frame("close", 0))]
            /\ UNCHANGED <<send_queue, wr, wire, cur>>
        BY <2>4 DEF SetClosed, Send
      <3> QED  BY <3>1, Ours, FramesPosted
    <2>5. CASE AppSends(e)
      <3>1. /\ posted' = [posted EXCEPT ![e] = Append(@, Frame(Script[e][count[e] + 1], count[e] + 1))]
            /\ UNCHANGED <<send_queue, wr, wire, cur>>
        BY <2>5 DEF AppSends, Send
      <3> QED  BY <2>5, <3>1, AppFrame, FramesPosted DEF FramesInv
    <2>6. CASE SendsUnmasked(e)
      <3>1. UNCHANGED <<posted, send_queue, wr, cur>>
        BY <2>6 DEF SendsUnmasked
      <3>2. \A d \in Ends : Writing(d)'
        BY <3>1, WritingSame
      <3> QED  BY <2>6, <3>1, <3>2, Ours, PartsPut, PutFrames DEF SendsUnmasked
    <2>7. CASE ConnectionOpen(e) \/ ReadMessage(e) \/ ConnectionError(e)
      BY <2>7, FramesStutter DEF ConnectionOpen, ReadMessage, ConnectionError
    <2>8. CASE AcceptHandler \/ RequestHandler \/ HandshakeDropped
      BY <2>8, FramesStutter DEF AcceptHandler, RequestHandler, HandshakeDropped, HandshakeOnly
    <2>9. CASE ResolveHandler \/ ConnectHandler \/ ConnectThrows \/ WriteRequestHandler
      BY <2>9, FramesStutter
      DEF ResolveHandler, ConnectHandler, ConnectThrows, WriteRequestHandler, HandshakeOnly
    <2>10. CASE Timers(e) \/ AppCloses(e) \/ Stop(e) \/ Closing(e)
      BY <2>10, FramesStutter
      DEF Timers, TimerExpires, TimerHandler, AppCloses, Stop, Closing, StopService, Exit, Destroyed
    <2> QED
      BY <1>3, <2>1, <2>2, <2>3, <2>4, <2>5, <2>6, <2>7, <2>8, <2>9, <2>10
      DEF Step, Strand, Network, Timers, Closing
  <1> QED  BY <1>1, <1>2, <1>3, StepCases

LEMMA FramesInit == Init => FramesInv
  <1> SUFFICES ASSUME Init PROVE FramesInv
    OBVIOUS
  <1>1. NetInv
    BY NetInit
  <1>2. \A e \in Ends : Queued(e) /\ Received(e)
    BY DEF Init, Each, Queued, Received
  <1>3. \A e \in Ends : Writing(e)
    BY DEF Init, Each, Writing, IdleWrite
  <1> QED  BY <1>1, <1>2, <1>3 DEF FramesInv

LEMMA FramesInvNext == FramesInv /\ [Next]_vars => FramesInv'
  BY NetInvNext, FramesNext DEF FramesInv, FramesKept

-----------------------------------------------------------------------------
(* Frames are whole.  The part that ends the wire of an end is a header exactly when the other *)
(* end is between its two writes, unless what that one writes reaches nobody any more.          *)

\* The part before the i-th of the wire.
Before(r, i) == IF i = 1 THEN LastRead(r) ELSE wire[r][i - 1]
LastPart(r) == Before(r, Len(wire[r]) + 1)

\* The header of a frame is written, its message is not.
Mid(e) ==
  /\ e = "server"
  /\ \/ wr[e].op = "header" /\ wr[e].res = "ok"
     \/ wr[e].op = "message" /\ wr[e].res = "wait"

Matched(r) == \A i \in 1 .. Len(wire[r]) : Follows(wire[r][i], Before(r, i))
EndsWell(r) ==
  \/ Dead(Other(r))
  \/ IF Mid(Other(r)) THEN LastPart(r) = Part("header", wr[Other(r)].frame)
     ELSE LastPart(r).part # "header"

Whole(r) == next[r].op # "none" => Matched(r) /\ EndsWell(r)

WholeInv == FramesInv /\ \A r \in Ends : Whole(r)

LEMMA Others == \A e \in Ends : Other(e) \in Ends /\ Other(Other(e)) = e /\ Other(e) # e
                                /\ \A d \in Ends : d = e \/ d = Other(e)
  BY DEF Other

LEMMA WholeStutter ==
  ASSUME WholeInv, [Next]_vars, NEW r \in Ends, wire'[r] = wire[r],
         next'[r].op = "none" \/ (next[r].op # "none" /\ LastRead(r)' = LastRead(r)),
         \/ Dead(Other(r))
         \/ ~Mid(Other(r)) /\ ~Mid(Other(r))'
         \/ Mid(Other(r)) /\ Mid(Other(r))' /\ wr'[Other(r)].frame = wr[Other(r)].frame
  PROVE  Whole(r)'
  <1>1. Other(r) \in Ends /\ (Dead(Other(r)) => Dead(Other(r))')
    BY Others, DeadStays DEF WholeInv, FramesInv
  <1>2. CASE next[r].op # "none" /\ LastRead(r)' = LastRead(r)
    <2>1. Matched(r)' /\ LastPart(r)' = LastPart(r)
      BY <1>2 DEF WholeInv, Whole, Matched, Before, LastPart
    <2> QED  BY <1>1, <1>2, <2>1 DEF WholeInv, Whole, EndsWell
  <1> QED  BY <1>2 DEF Whole

\* Only what end r reads changes, by a handler.
LEMMA WholeReads ==
  ASSUME WholeInv, [Next]_vars, NEW r \in Ends, UNCHANGED <<wire, wr>>, cur'[r] = cur[r],
         \/ next'[r] = next[r] \/ next'[r].op = "none"
         \/ next[r].op # "none" /\ LastRead(r)' = LastRead(r)
  PROVE  Whole(r)'
  <1>1. next'[r].op = "none" \/ (next[r].op # "none" /\ LastRead(r)' = LastRead(r))
    BY DEF LastRead
  <1>2. Mid(Other(r))' <=> Mid(Other(r))
    BY DEF Mid
  <1> QED  BY <1>1, <1>2, WholeStutter

\* The other end has put parts on the wire of r.
LEMMA WholePut ==
  ASSUME WholeInv, [Next]_vars, NEW r \in Ends, NEW parts \in Seq(PartsOf(Other(r))), parts # <<>>,
         Put(Other(r), parts), UNCHANGED <<socket, link, next[r], cur[r]>>,
         Up(Other(r)), Mid(Other(r))' => ~InHandshake(Other(r)),
         ~Dead(Other(r)) /\ next[r].op # "none" =>
           /\ Follows(parts[1], LastPart(r))
           /\ \A i \in 2 .. Len(parts) : Follows(parts[i], parts[i - 1])
           /\ IF Mid(Other(r))' THEN parts[Len(parts)] = Part("header", wr'[Other(r)].frame)
              ELSE parts[Len(parts)].part # "header"
  PROVE  Whole(r)'
  <1> DEFINE w == Other(r)
             s == wire[r]
  <1>1. w \in Ends /\ Other(w) = r /\ (Dead(w) => Dead(w)')
    BY Others, DeadStays DEF WholeInv, FramesInv
  <1>2. SUFFICES ASSUME next[r].op # "none" PROVE Matched(r)' /\ EndsWell(r)'
    BY DEF Whole
  <1>3. LastRead(r)' = LastRead(r)
    BY DEF LastRead
  <1>4. wire \in [Ends -> Seq(Parts)] /\ s \in Seq(PartsOf(w))
    BY Typing DEF WholeInv, FramesInv, Received
  <1>5. CASE Dead(w)
    <2>1. Left(r)
      BY <1>1, <1>5 DEF Dead
    <2>2. wire' = wire
      BY <1>1, <2>1 DEF Put
    <2>3. Matched(r)'
      BY <1>2, <1>3, <2>2 DEF WholeInv, Whole, Matched, Before
    <2> QED  BY <1>1, <1>5, <2>3 DEF EndsWell
  <1>6. CASE ~Dead(w)
    <2>1. CASE Left(r)
      <3>1. InHandshake(w)
        BY <1>1, <1>6, <2>1 DEF Dead
      <3>2. wire' = wire
        BY <1>1, <2>1 DEF Put
      <3>3. Matched(r)'
        BY <1>2, <1>3, <3>2 DEF WholeInv, Whole, Matched, Before
      <3>4. ~Mid(w) /\ LastPart(r).part # "header"
        <4>1. ~Mid(w)
          BY <1>1, <3>1 DEF WholeInv, FramesInv, NetInv, Silent, Mid, IdleWrite
        <4> QED  BY <1>2, <1>6, <4>1 DEF WholeInv, Whole, EndsWell
      <3>5. LastPart(r)' = LastPart(r)
        BY <1>3, <3>2 DEF LastPart, Before
      <3>6. EndsWell(r)'
        <4>1. ~Mid(Other(r))'
          BY <3>1
        <4>2. LastPart(r)'.part # "header"
          BY <3>4, <3>5
        <4> QED  BY <4>1, <4>2 DEF EndsWell
      <3> QED  BY <3>1, <3>3, <3>6
    <2>2. CASE ~Left(r)
      <3>1. wire'[r] = s \o parts
        BY <1>1, <1>4, <2>2 DEF Put
      <3>2. /\ s \o parts \in Seq(PartsOf(w)) /\ Len(s \o parts) = Len(s) + Len(parts)
            /\ Len(s) \in Nat /\ Len(parts) \in Nat /\ Len(parts) > 0
            /\ \A i \in 1 .. Len(s) + Len(parts) :
                 (s \o parts)[i] = IF i <= Len(s) THEN s[i] ELSE parts[i - Len(s)]
        BY <1>4, ConcatProperties, EmptySeq, LenProperties
      <3>3. /\ Follows(parts[1], LastPart(r))
            /\ \A i \in 2 .. Len(parts) : Follows(parts[i], parts[i - 1])
            /\ IF Mid(Other(r))' THEN parts[Len(parts)] = Part("header", wr'[Other(r)].frame)
               ELSE parts[Len(parts)].part # "header"
        BY <1>2, <1>6
      <3>4. Matched(r)
        BY <1>2 DEF WholeInv, Whole
      <3> DEFINE t == s \o parts
      <3>5. wire'[r] = t /\ Len(t) = Len(s) + Len(parts)
        BY <3>1, <3>2
      <3>6. /\ \A i \in 1 .. Len(s) : t[i] = s[i]
            /\ \A j \in 1 .. Len(parts) : t[Len(s) + j] = parts[j]
        <4>1. \A i \in 1 .. Len(s) : t[i] = s[i]
          BY <3>2
        <4>2. ASSUME NEW j \in 1 .. Len(parts) PROVE t[Len(s) + j] = parts[j]
          <5>1. Len(s) + j \in 1 .. Len(s) + Len(parts) /\ ~(Len(s) + j <= Len(s)) /\ (Len(s) + j) - Len(s) = j
            BY <3>2
          <5> QED  BY <3>2, <5>1
        <4> QED  BY <4>1, <4>2
      <3> HIDE DEF t
      <3>7. Matched(r)'
        <4> SUFFICES ASSUME NEW i \in 1 .. Len(s) + Len(parts)
                     PROVE  Follows(t[i], IF i = 1 THEN LastRead(r) ELSE t[i - 1])
          BY <1>3, <3>5 DEF Matched, Before
        <4>0. Len(s) \in Nat /\ Len(parts) \in Nat /\ Len(parts) > 0
          BY <3>2
        <4>1. CASE i <= Len(s)
          <5>0. i \in 1 .. Len(s) /\ (i # 1 => i - 1 \in 1 .. Len(s))
            BY <4>0, <4>1
          <5>1. t[i] = s[i] /\ (i # 1 => t[i - 1] = s[i - 1])
            BY <3>6, <5>0
          <5> QED  BY <3>2, <3>4, <4>1, <5>1 DEF Matched, Before
        <4>2. CASE i = Len(s) + 1
          <5>0. /\ 1 \in 1 .. Len(parts) /\ i - 1 = Len(s) /\ i = Len(s) + 1
                /\ i # 1 => Len(s) \in 1 .. Len(s)
            BY <4>0, <4>2
          <5>1. t[i] = parts[1] /\ i - 1 = Len(s)
            BY <3>6, <5>0
          <5>2. i # 1 => t[i - 1] = s[Len(s)]
            BY <3>6, <5>0
          <5>3. LastPart(r) = IF i = 1 THEN LastRead(r) ELSE s[Len(s)]
            BY <4>0, <4>2 DEF LastPart, Before
          <5> QED  BY <3>3, <5>1, <5>2, <5>3
        <4>3. CASE i > Len(s) + 1
          <5> DEFINE j == i - Len(s)
          <5>1. /\ j \in 2 .. Len(parts) /\ j - 1 \in 1 .. Len(parts) /\ i # 1
                /\ i = Len(s) + j /\ i - 1 = Len(s) + (j - 1)
            <6>1. PICK ls, lp : ls = Len(s) /\ lp = Len(parts)
              OBVIOUS
            <6>2. ls \in Nat /\ lp \in Nat /\ i \in 1 .. ls + lp /\ i > ls + 1
              BY <4>0, <4>3, <6>1
            <6>3. /\ i - ls \in 2 .. lp /\ (i - ls) - 1 \in 1 .. lp /\ i # 1
                  /\ i = ls + (i - ls) /\ i - 1 = ls + ((i - ls) - 1)
              BY <6>2
            <6> QED  BY <6>1, <6>3
          <5> HIDE DEF j
          <5>2. t[i] = parts[j] /\ t[i - 1] = parts[j - 1]
            <6>1. j \in 1 .. Len(parts)
              BY <4>0, <5>1
            <6>2. \A k \in 1 .. Len(parts) : t[Len(s) + k] = parts[k]
              BY <3>6
            <6>3. t[Len(s) + j] = parts[j] /\ t[Len(s) + (j - 1)] = parts[j - 1]
              BY <5>1, <6>1, <6>2, Zenon
            <6> QED  BY <5>1, <6>3
          <5>3. Follows(parts[j], parts[j - 1])
            BY <3>3, <5>1
          <5> QED  BY <5>1, <5>2, <5>3
        <4> QED  BY <4>0, <4>1, <4>2, <4>3
      <3>8. LastPart(r)' = parts[Len(parts)]
        <4>1. LastPart(r)' = IF Len(t) + 1 = 1 THEN LastRead(r) ELSE t[Len(t)]
          BY <1>3, <3>2, <3>5 DEF LastPart, Before
        <4>2. t[Len(t)] = parts[Len(parts)]
          BY <3>2, <3>5, <3>6
        <4> QED  BY <3>2, <3>5, <4>1, <4>2
      <3> QED  BY <3>3, <3>7, <3>8 DEF EndsWell
    <2> QED  BY <2>1, <2>2
  <1> QED  BY <1>5, <1>6

\* End r has taken the first part of its wire.
LEMMA WholeTake ==
  ASSUME WholeInv, [Next]_vars, NEW r \in Ends, NEW p, Take(r, p), UNCHANGED wr,
         next[r].op # "none", LastRead(r)' = IF p = "header" THEN Head(wire[r]) ELSE Part("none", NoFrame)
  PROVE  Whole(r)'
  <1> DEFINE s == wire[r]
             t == Tail(s)
             w == Other(r)
  <1>1. /\ s # <<>> /\ s[1].part = p /\ Head(s) = s[1] /\ wire'[r] = t /\ s \in Seq(PartsOf(w))
    BY Typing DEF WholeInv, FramesInv, Received, Take
  <1>2. /\ Len(s) \in Nat /\ Len(s) > 0 /\ Len(t) = Len(s) - 1
        /\ \A i \in 1 .. Len(t) : t[i] = s[i + 1]
    BY <1>1
  <1>3. Matched(r) /\ EndsWell(r)
    BY DEF WholeInv, Whole
  <1>4. LastRead(r)' = IF p = "header" THEN s[1] ELSE Part("none", NoFrame)
    BY <1>1
  <1> HIDE DEF s, t
  <1>5. Matched(r)'
    <2> SUFFICES ASSUME NEW i \in 1 .. Len(t)
                 PROVE  Follows(t[i], IF i = 1 THEN LastRead(r)' ELSE t[i - 1])
      BY <1>1 DEF Matched, Before
    <2>1. Follows(s[i + 1], s[i])
      BY <1>2, <1>3 DEF Matched, Before, s
    <2>2. CASE i = 1
      BY <1>1, <1>2, <1>4, <2>1, <2>2 DEF Follows, Part
    <2>3. CASE i # 1
      BY <1>2, <2>1, <2>3
    <2> QED  BY <2>2, <2>3
  <1>6. /\ LastPart(r) = s[Len(s)]
        /\ LastPart(r)' = IF Len(s) = 1 THEN LastRead(r)' ELSE s[Len(s)]
    <2>1. LastPart(r) = s[Len(s)]
      BY <1>2 DEF LastPart, Before, s
    <2>2. LastPart(r)' = IF Len(t) + 1 = 1 THEN LastRead(r)' ELSE t[Len(t)]
      BY <1>1, <1>2 DEF LastPart, Before
    <2> QED  BY <1>2, <2>1, <2>2
  <1>7. LastPart(r)' = LastPart(r) \/ (LastPart(r).part # "header" /\ LastPart(r)'.part # "header")
    BY <1>1, <1>2, <1>4, <1>6 DEF Part
  <1>8. (Dead(w) => Dead(w)') /\ (Mid(w)' <=> Mid(w)) /\ wr' = wr
    BY Others, DeadStays DEF WholeInv, FramesInv, Mid
  <1>9. EndsWell(r)'
    BY <1>3, <1>7, <1>8 DEF EndsWell, Part
  <1> QED  BY <1>5, <1>9 DEF Whole

LEMMA ReadersWhole ==
  ASSUME WholeInv, [Next]_vars, NEW e \in Ends, UNCHANGED <<wire, wr, cur>>,
         \A d \in Ends : d # e => next'[d] = next[d],
         \/ next'[e] = next[e] \/ next'[e].op = "none"
         \/ next[e].op # "none" /\ LastRead(e)' = LastRead(e)
  PROVE  \A r \in Ends : Whole(r)'
  BY WholeReads

LEMMA ChainWhole ==
  ASSUME WholeInv, [Next]_vars, NEW e \in Ends,
         \/ ReadMessage(e) \/ ContentHandler(e) \/ ConnectionOpen(e) \/ ConnectionError(e)
         \/ \E a \in Actors : SetClosed(e, a)
  PROVE  \A r \in Ends : Whole(r)'
  <1> USE DEF sending, network
  <1>0. next \in [Ends -> [op : ReadOps, res : {"wait", "ok", "err", "-"}]]
    BY Typing DEF WholeInv, FramesInv
  <1>1. UNCHANGED <<wire, wr, cur>>
    BY DEF ReadMessage, ContentHandler, ConnectionOpen, ConnectionError, SetClosed
  <1>2. CASE ReadMessage(e)
    <2>1. next[e] = [op |-> "header", res |-> "ok"]
      BY <1>2 DEF ReadMessage, Handler
    <2>2. \/ next' = [next EXCEPT ![e] = Waiting("content")] \/ next' = next
          \/ next' = [next EXCEPT ![e] = [op |-> "none", res |-> "-"]]
      BY <1>2 DEF ReadMessage, CloseAndEnd, End, NoMore, Await
    <2>3. \A d \in Ends : d # e => next'[d] = next[d]
      BY <1>0, <2>2
    <2>4. next'[e] \in {Waiting("content"), next[e], [op |-> "none", res |-> "-"]}
      BY <1>0, <2>2
    <2>5. CASE next'[e] = Waiting("content")
      <3>1. LastRead(e)' = LastRead(e)
        BY <1>1, <2>1, <2>5 DEF LastRead, Waiting
      <3> QED  BY <1>1, <2>1, <2>3, <3>1, ReadersWhole
    <2> QED  BY <1>1, <2>3, <2>4, <2>5, ReadersWhole
  <1>3. CASE ContentHandler(e)
    <2>1. next[e] = [op |-> "content", res |-> "ok"]
      BY <1>3 DEF ContentHandler, Handler
    <2>2. \/ next' = [next EXCEPT ![e] = Waiting("header")] \/ next' = next
          \/ next' = [next EXCEPT ![e] = [op |-> "none", res |-> "-"]]
      BY <1>3 DEF ContentHandler, CloseAndEnd, End, NoMore, Await
    <2>3. \A d \in Ends : d # e => next'[d] = next[d]
      BY <1>0, <2>2
    <2>4. next'[e] \in {Waiting("header"), next[e], [op |-> "none", res |-> "-"]}
      BY <1>0, <2>2
    <2>5. CASE next'[e] = Waiting("header")
      <3>1. LastRead(e)' = LastRead(e)
        BY <2>1, <2>5 DEF LastRead, Waiting
      <3> QED  BY <1>1, <2>1, <2>3, <3>1, ReadersWhole
    <2> QED  BY <1>1, <2>3, <2>4, <2>5, ReadersWhole
  <1>4. CASE ConnectionOpen(e)
    <2>1. next[e].op \in HandshakeOps(e)
      BY <1>4 DEF ConnectionOpen, Handler, HandshakeOps
    <2>2. next' = [next EXCEPT ![e] = Waiting("header")]
      BY <1>4 DEF ConnectionOpen, Await
    <2>3. next'[e] = Waiting("header") /\ \A d \in Ends : d # e => next'[d] = next[d]
      BY <1>0, <2>2
    <2>4. LastRead(e)' = LastRead(e)
      BY <2>1, <2>3 DEF LastRead, Waiting, HandshakeOps
    <2>5. next[e].op # "none"
      BY <2>1 DEF HandshakeOps
    <2> QED  BY <1>1, <2>3, <2>4, <2>5, ReadersWhole
  <1>5. CASE ConnectionError(e) \/ \E a \in Actors : SetClosed(e, a)
    <2>1. next' = next \/ next' = [next EXCEPT ![e] = [op |-> "none", res |-> "-"]]
      BY <1>5 DEF ConnectionError, SetClosed, End, NoMore
    <2>2. /\ \A d \in Ends : d # e => next'[d] = next[d]
          /\ next'[e] = next[e] \/ next'[e].op = "none"
      BY <1>0, <2>1
    <2> QED  BY <1>1, <2>2, ReadersWhole
  <1> QED  BY <1>2, <1>3, <1>4, <1>5

LEMMA HandshakeWhole ==
  ASSUME WholeInv, [Next]_vars, NEW e \in Ends, UNCHANGED HandshakeOnly, next[e].op \in HandshakeOps(e),
         (\E op \in HandshakeOps(e) : Await(e, op)) \/ NoMore(e)
  PROVE  \A r \in Ends : Whole(r)'
  <1>0. next \in [Ends -> [op : ReadOps, res : {"wait", "ok", "err", "-"}]]
    BY Typing DEF WholeInv, FramesInv
  <1>1. UNCHANGED <<wire, wr, cur>>
    BY DEF HandshakeOnly, sending
  <1>2. /\ \A d \in Ends : d # e => next'[d] = next[d]
        /\ next'[e].op \in HandshakeOps(e) \/ next'[e].op = "none"
    BY <1>0 DEF Await, NoMore, Waiting
  <1>3. next[e].op # "none" /\ (next'[e].op \in HandshakeOps(e) => LastRead(e)' = LastRead(e))
    BY <1>0, <1>2 DEF LastRead, HandshakeOps
  <1> QED  BY <1>1, <1>2, <1>3, ReadersWhole

LEMMA StrandWhole ==
  ASSUME WholeInv, [Next]_vars, NEW e \in Ends, Strand(e)
  PROVE  \A r \in Ends : Whole(r)'
  <1>0. /\ wr \in [Ends -> Writes]
        /\ e \in Ends /\ Other(e) \in Ends /\ Other(Other(e)) = e /\ Other(e) # e
    BY Typing, Others DEF WholeInv, FramesInv
  <1>1. UNCHANGED <<wire, cur, next>>
    BY DEF Strand, Enqueue, StartWrite, HeaderWritten, MessageWritten, WriteFailed, QueueOnly,
           reading, network
  <1>2. \A d \in Ends : d # e => wr'[d] = wr[d]
    BY <1>0 DEF Strand, Enqueue, StartWrite, HeaderWritten, MessageWritten, WriteFailed
  <1>3. \A r \in Ends : LastRead(r)' = LastRead(r) /\ (next'[r].op # "none" => next[r].op # "none")
    BY <1>1 DEF LastRead
  <1>4. Whole(e)'
    BY <1>0, <1>1, <1>2, <1>3, WholeStutter DEF Mid
  <1>5. \/ Dead(e)
        \/ ~Mid(e) /\ ~Mid(e)'
        \/ Mid(e) /\ Mid(e)' /\ wr'[e].frame = wr[e].frame
    <2>1. CASE Enqueue(e)
      BY <2>1 DEF Enqueue, Mid
    <2>2. CASE StartWrite(e)
      <3>1. starts[e] \in Nat /\ starts[e] > 0
        BY <2>2, Typing DEF WholeInv, FramesInv, StartWrite
      <3>2. wr[e].op = "idle"
        BY <3>1 DEF WholeInv, FramesInv, NetInv, ToldInv, Typed, SendInv, OneWriter
      <3>3. ~Mid(e)
        BY <3>2 DEF Mid
      <3>4. ~Mid(e)'
        BY <1>0, <2>2 DEF StartWrite, Mid
      <3> QED  BY <3>3, <3>4
    <2>3. CASE e = "server" /\ HeaderWritten
      <3>1. wr["server"].frame = Head(send_queue["server"])
        BY <2>3 DEF WholeInv, FramesInv, Writing, HeaderWritten
      <3>2. Mid(e)
        BY <2>3 DEF HeaderWritten, Mid
      <3>3. Mid(e)' /\ wr'[e].frame = wr[e].frame
        BY <1>0, <2>3, <3>1 DEF HeaderWritten, Mid
      <3> QED  BY <3>2, <3>3
    <2>4. CASE MessageWritten(e)
      <3>1. ~Mid(e)
        BY <2>4 DEF MessageWritten, Mid
      <3>2. ~Mid(e)'
        BY <1>0, <2>4 DEF MessageWritten, Mid, IdleWrite
      <3> QED  BY <3>1, <3>2
    <2>5. CASE WriteFailed(e)
      BY <2>5 DEF WholeInv, FramesInv, Writing, WriteFailed
    <2> QED  BY <2>1, <2>2, <2>3, <2>4, <2>5 DEF Strand
  <1>6. Whole(Other(e))'
    BY <1>0, <1>1, <1>3, <1>5, WholeStutter
  <1> QED  BY <1>4, <1>6, Others

\* The header of a part that e puts is looked at by the other end only.
LEMMA WriterStill ==
  ASSUME WholeInv, [Next]_vars, NEW e \in Ends, NEW parts, Put(e, parts), cur'[e] = cur[e],
         wr'[Other(e)] = wr[Other(e)],
         next'[e] = next[e] \/ (next[e].op \in HandshakeOps(e) /\ next'[e].op = next[e].op)
  PROVE  Whole(e)'
  <1>1. Other(e) \in Ends /\ Other(e) # e
    BY Others
  <1>2. wire'[e] = wire[e]
    BY <1>1, Typing DEF WholeInv, FramesInv, Put
  <1>3. LastRead(e)' = LastRead(e) /\ next'[e].op = next[e].op
    BY DEF LastRead, HandshakeOps
  <1>4. Mid(Other(e))' <=> Mid(Other(e))
    BY DEF Mid
  <1> QED  BY <1>2, <1>3, <1>4, WholeStutter

LEMMA SucceedsWhole ==
  ASSUME WholeInv, [Next]_vars, NEW e \in Ends, Succeeds(e)
  PROVE  \A r \in Ends : Whole(r)'
  <1> USE DEF network
  <1>0. /\ next \in [Ends -> [op : ReadOps, res : {"wait", "ok", "err", "-"}]]
        /\ cur \in [Ends -> Frames \cup {NoFrame}] /\ wire \in [Ends -> Seq(Parts)]
        /\ e \in Ends /\ Other(e) \in Ends /\ Other(Other(e)) = e /\ Other(e) # e
    BY Typing, Others DEF WholeInv, FramesInv
  <1>1. /\ next[e].res = "wait" /\ UNCHANGED wr
        /\ next'[e] = [op |-> next[e].op, res |-> "ok"] /\ \A d \in Ends : d # e => next'[d] = next[d]
    BY <1>0 DEF Succeeds, sending
  <1>2. next[e].op \in HandshakeOps(e) \cup {"header", "content", "none"} /\ next[e].op \in ReadOps
    BY <1>0 DEF WholeInv, FramesInv, NetInv, ToldInv, Life
  <1>3. next[e].op # "none"
    BY DEF Succeeds
  <1>4. CASE next[e].op \in {"resolve", "connect", "accept"}
    <2>1. UNCHANGED <<wire, cur>>
      BY <1>4 DEF Succeeds
    <2>2. LastRead(e)' = LastRead(e)
      BY <1>1, <1>4 DEF LastRead
    <2> QED  BY <1>1, <1>3, <2>1, <2>2, ReadersWhole
  <1>5. CASE next[e].op \in {"write_request", "write_response"}
    <2>1. PICK p \in {"request", "response"} : Put(e, <<Part(p, NoFrame)>>)
      BY <1>5 DEF Succeeds
    <2>2. Up(e) /\ UNCHANGED <<link, socket, cur>>
      BY <1>5 DEF Succeeds
    <2>3. InHandshake(e) /\ InHandshake(e)'
      BY <1>1, <1>2, <1>5 DEF InHandshake, HandshakeOps
    <2>4. ~Mid(e)
      BY <2>3 DEF WholeInv, FramesInv, NetInv, Silent, Mid, IdleWrite
    <2>5. ~Mid(e)'
      BY <1>1, <2>4 DEF Mid
    <2> DEFINE parts == <<Part(p, NoFrame)>>
    <2>6. /\ parts \in Seq(PartsOf(e)) /\ parts # <<>> /\ Len(parts) = 1
          /\ parts[1] = Part(p, NoFrame) /\ parts[1].part = p
      <3>1. Part(p, NoFrame) \in PartsOf(e) /\ Part(p, NoFrame).part = p
        BY DEF PartsOf, Part
      <3> QED  BY <3>1
    <2> HIDE DEF parts
    <2>7. ~Dead(e) /\ next[Other(e)].op # "none" => Follows(parts[1], LastPart(Other(e)))
      BY <1>0, <2>4, <2>6 DEF WholeInv, Whole, EndsWell, Follows
    <2>8. \A i \in 2 .. Len(parts) : Follows(parts[i], parts[i - 1])
      BY <2>6
    <2>9. Put(e, parts)
      BY <2>1 DEF parts
    <2>10. Whole(Other(e))'
      BY <1>0, <1>1, <2>2, <2>5, <2>6, <2>7, <2>8, <2>9, WholePut
    <2>11. Whole(e)'
      BY <1>1, <2>2, <2>3, <2>9, WriterStill DEF InHandshake
    <2> QED  BY <2>10, <2>11, Others
  <1>6. CASE next[e].op \in {"read_request", "read_response", "header", "content"}
    <2>1. PICK p \in {"request", "response", "header", "body"} :
            /\ Take(e, p)
            /\ p = "header" <=> next[e].op = "header"
            /\ p = "header" => cur' = [cur EXCEPT ![e] = Head(wire[e]).frame]
            /\ p # "header" => UNCHANGED cur
      BY <1>6 DEF Succeeds
    <2>2. wire[e] \in Seq(PartsOf(Other(e))) /\ wire[e] # <<>> /\ Head(wire[e]).part = p
      BY <2>1 DEF WholeInv, FramesInv, Received, Take
    <2>3. Head(wire[e]) \in PartsOf(Other(e))
      BY <2>2
    <2>4. p = "header" => Head(wire[e]) = Part("header", Head(wire[e]).frame)
      BY <2>2, <2>3 DEF PartsOf, Part
    <2>5. LastRead(e)' = IF p = "header" THEN Head(wire[e]) ELSE Part("none", NoFrame)
      <3>1. CASE p = "header"
        <4>1. cur'[e] = Head(wire[e]).frame
          BY <1>0, <2>1, <3>1
        <4> QED  BY <1>1, <2>1, <2>4, <3>1, <4>1 DEF LastRead
      <3>2. CASE p # "header"
        BY <1>1, <2>1, <3>2 DEF LastRead
      <3> QED  BY <3>1, <3>2
    <2>6. Whole(e)'
      BY <1>1, <1>3, <2>1, <2>5, WholeTake
    <2>7. wire'[Other(e)] = wire[Other(e)] /\ cur'[Other(e)] = cur[Other(e)]
      BY <1>0, <2>1 DEF Take
    <2>8. LastRead(Other(e))' = LastRead(Other(e))
      BY <1>0, <1>1, <2>7 DEF LastRead
    <2>9. Mid(e)' <=> Mid(e)
      BY <1>1 DEF Mid
    <2>10. Whole(Other(e))'
      BY <1>0, <1>1, <2>7, <2>8, <2>9, WholeStutter
    <2> QED  BY <2>6, <2>10, Others
  <1> QED  BY <1>2, <1>3, <1>4, <1>5, <1>6 DEF HandshakeOps

LEMMA WrittenWhole ==
  ASSUME WholeInv, [Next]_vars, NEW e \in Ends, Written(e)
  PROVE  \A r \in Ends : Whole(r)'
  <1>0. /\ wr \in [Ends -> Writes]
        /\ e \in Ends /\ Other(e) \in Ends /\ Other(Other(e)) = e /\ Other(e) # e
    BY Typing, Others DEF WholeInv, FramesInv
  <1>1. wr[e].res = "wait" /\ Up(e) /\ UNCHANGED <<link, socket, next, cur>>
    BY DEF Written, reading
  <1>2. wr[e].op \in {"header", "message"}
    BY <1>0, <1>1 DEF Writes, IdleWrite
  <1>3. wr[e].frame \in FramesOf(e) /\ (wr[e].op = "header" => e = "server")
    BY <1>2, HasFrame DEF WholeInv, FramesInv, Writing
  <1>4. /\ wr'[e].op = wr[e].op /\ wr'[e].frame = wr[e].frame /\ wr'[e].res = "ok"
        /\ \A d \in Ends : d # e => wr'[d] = wr[d]
    BY <1>0, <1>2 DEF Written, Writes
  <1>5. ~InHandshake(e)
    <2>1. wr[e] # IdleWrite
      BY <1>2 DEF IdleWrite
    <2> QED  BY <2>1, OverIf DEF WholeInv, FramesInv
  <1>6. ~InHandshake(e)'
    BY <1>1, <1>5 DEF InHandshake
  <1> DEFINE f == wr[e].frame
             h == Part("header", f)
             b == Part("body", f)
  <1>7. h.part = "header" /\ b.part = "body" /\ b.frame = f /\ h.frame = f
    BY DEF Part
  <1>8. CASE e = "client"
    <2> DEFINE parts == <<h, b>>
    <2>1. /\ parts \in Seq(PartsOf(e)) /\ parts # <<>> /\ Len(parts) = 2 /\ parts[1] = h /\ parts[2] = b
      BY <1>0, <1>3, PartsPut
    <2>2. Put(e, parts)
      BY <1>8 DEF Written
    <2> HIDE DEF parts, h, b
    <2>3. ~Mid(e) /\ ~Mid(e)'
      BY <1>8 DEF Mid
    <2>4. ~Dead(e) /\ next[Other(e)].op # "none" => Follows(parts[1], LastPart(Other(e)))
      BY <1>0, <1>7, <2>1, <2>3 DEF WholeInv, Whole, EndsWell, Follows
    <2>5. \A i \in 2 .. Len(parts) : Follows(parts[i], parts[i - 1])
      <3>1. Follows(b, h)
        BY <1>7 DEF Follows
      <3> QED  BY <2>1, <3>1
    <2>6. parts[Len(parts)].part # "header"
      BY <1>7, <2>1
    <2>7. Whole(Other(e))'
      BY <1>0, <1>1, <2>1, <2>2, <2>3, <2>4, <2>5, <2>6, WholePut
    <2>8. Whole(e)'
      BY <1>0, <1>1, <1>4, <2>2, WriterStill
    <2> QED  BY <2>7, <2>8, Others
  <1>9. CASE e = "server"
    <2> DEFINE p == IF wr[e].op = "header" THEN h ELSE b
               parts == <<p>>
    <2>1. /\ parts \in Seq(PartsOf(e)) /\ parts # <<>> /\ Len(parts) = 1 /\ parts[1] = p
      BY <1>0, <1>3, PartsPut
    <2>2. Put(e, parts)
      BY <1>9 DEF Written
    <2> HIDE DEF parts, h, b
    <2>3. Mid(e) <=> wr[e].op = "message"
      BY <1>1, <1>2, <1>9 DEF Mid
    <2>4. Mid(e)' <=> wr[e].op = "header"
      BY <1>1, <1>2, <1>4, <1>9 DEF Mid
    <2>5. ~Dead(e) /\ next[Other(e)].op # "none" => Follows(parts[1], LastPart(Other(e)))
      <3> SUFFICES ASSUME ~Dead(e), next[Other(e)].op # "none" PROVE Follows(p, LastPart(Other(e)))
        BY <2>1
      <3>1. IF Mid(e) THEN LastPart(Other(e)) = Part("header", f) ELSE LastPart(Other(e)).part # "header"
        BY <1>0 DEF WholeInv, Whole, EndsWell
      <3>2. CASE wr[e].op = "header"
        BY <1>7, <2>3, <3>1, <3>2 DEF Follows
      <3>3. CASE wr[e].op = "message"
        <4>1. LastPart(Other(e)) = h /\ p = b
          BY <2>3, <3>1, <3>3 DEF h
        <4> QED  BY <1>7, <4>1 DEF Follows
      <3> QED  BY <1>2, <3>2, <3>3
    <2>6. \A i \in 2 .. Len(parts) : Follows(parts[i], parts[i - 1])
      BY <2>1
    <2>7. IF Mid(e)' THEN parts[Len(parts)] = Part("header", wr'[e].frame)
          ELSE parts[Len(parts)].part # "header"
      BY <1>2, <1>4, <1>7, <2>1, <2>4 DEF h
    <2>8. Whole(Other(e))'
      BY <1>0, <1>1, <1>5, <2>1, <2>2, <2>5, <2>6, <2>7, WholePut
    <2>9. Whole(e)'
      BY <1>0, <1>1, <1>4, <2>2, WriterStill
    <2> QED  BY <2>8, <2>9, Others
  <1> QED  BY <1>8, <1>9

LEMMA UnmaskedWhole ==
  ASSUME WholeInv, [Next]_vars, NEW e \in Ends, SendsUnmasked(e)
  PROVE  \A r \in Ends : Whole(r)'
  <1> DEFINE f == Frame("bad", 0)
             h == Part("header", f)
             b == Part("body", f)
             parts == <<h, b>>
  <1>0. e \in Ends /\ Other(e) \in Ends /\ Other(Other(e)) = e /\ Other(e) # e
    BY Others
  <1>1. /\ Up(e) /\ wr[e] = IdleWrite /\ Put(e, parts)
        /\ UNCHANGED <<link, socket, next, cur, wr>>
    BY DEF SendsUnmasked, reading, sending
  <1>2. /\ parts \in Seq(PartsOf(e)) /\ parts # <<>> /\ Len(parts) = 2 /\ parts[1] = h /\ parts[2] = b
    BY Ours, PartsPut
  <1>3. h.part = "header" /\ b.part = "body" /\ b.frame = h.frame
    BY DEF Part
  <1> HIDE DEF parts, h, b, f
  <1>4. ~Mid(e) /\ ~Mid(e)'
    BY <1>1 DEF Mid, IdleWrite
  <1>5. ~Dead(e) /\ next[Other(e)].op # "none" => Follows(parts[1], LastPart(Other(e)))
    BY <1>0, <1>2, <1>3, <1>4 DEF WholeInv, Whole, EndsWell, Follows
  <1>6. \A i \in 2 .. Len(parts) : Follows(parts[i], parts[i - 1])
    <2>1. Follows(b, h)
      BY <1>3 DEF Follows
    <2> QED  BY <1>2, <2>1
  <1>7. Whole(Other(e))'
    BY <1>0, <1>1, <1>2, <1>3, <1>4, <1>5, <1>6, WholePut
  <1>8. Whole(e)'
    BY <1>0, <1>1, WriterStill
  <1> QED  BY <1>7, <1>8, Others

LEMMA WholeNext ==
  ASSUME WholeInv, [Next]_vars
  PROVE  \A r \in Ends : Whole(r)'
  <1> USE DEF reading, sending, network
  <1>1. CASE UNCHANGED vars
    BY <1>1, ReadersWhole DEF vars
  <1>2. CASE Breaks
    BY <1>2, ReadersWhole DEF Breaks
  <1>3. ASSUME NEW e \in Ends, Step(e) PROVE \A r \in Ends : Whole(r)'
    <2>0. /\ next \in [Ends -> [op : ReadOps, res : {"wait", "ok", "err", "-"}]]
          /\ wr \in [Ends -> Writes]
          /\ Other(e) \in Ends /\ Other(Other(e)) = e /\ Other(e) # e
      BY Typing, Others DEF WholeInv, FramesInv
    <2>1. CASE ReadMessage(e) \/ ContentHandler(e) \/ ConnectionOpen(e) \/ ConnectionError(e)
                 \/ \E a \in Actors : SetClosed(e, a)
      BY <2>1, ChainWhole
    <2>2. CASE AcceptHandler \/ RequestHandler \/ HandshakeDropped
      <3>1. /\ UNCHANGED HandshakeOnly /\ next["server"].op \in HandshakeOps("server")
            /\ (\E op \in HandshakeOps("server") : Await("server", op)) \/ NoMore("server")
        BY <2>2 DEF AcceptHandler, RequestHandler, HandshakeDropped, Handler, HandshakeOps
      <3> QED  BY <3>1, HandshakeWhole
    <2>3. CASE ResolveHandler \/ ConnectHandler \/ WriteRequestHandler
      <3>1. /\ UNCHANGED HandshakeOnly /\ next["client"].op \in HandshakeOps("client")
            /\ (\E op \in HandshakeOps("client") : Await("client", op)) \/ NoMore("client")
        BY <2>3 DEF ResolveHandler, ConnectHandler, WriteRequestHandler, Handler, HandshakeOps
      <3> QED  BY <3>1, HandshakeWhole
    <2>4. CASE Strand(e)
      BY <2>4, StrandWhole
    <2>5. CASE Succeeds(e)
      BY <2>5, SucceedsWhole
    <2>6. CASE Fails(e)
      <3>1. /\ next[e].res = "wait" /\ next'[e] = [op |-> next[e].op, res |-> "err"]
            /\ UNCHANGED <<wire, wr, cur>> /\ \A d \in Ends : d # e => next'[d] = next[d]
        BY <2>0, <2>6 DEF Fails
      <3>2. LastRead(e)' = LastRead(e)
        BY <2>0, <3>1 DEF LastRead
      <3>3. next[e].op = "none" => next'[e].op = "none"
        BY <3>1
      <3> QED  BY <3>1, <3>2, <3>3, ReadersWhole
    <2>7. CASE Written(e)
      BY <2>7, WrittenWhole
    <2>8. CASE WriteBreaks(e)
      <3>1. wr[e] # IdleWrite /\ UNCHANGED <<wire, next, cur>> /\ \A d \in Ends : d # e => wr'[d] = wr[d]
        BY <2>0, <2>8 DEF WriteBreaks, IdleWrite
      <3>2. Dead(e)
        BY <2>8, <3>1, OverIf DEF WholeInv, FramesInv, WriteBreaks, Dead
      <3>3. \A r \in Ends : LastRead(r)' = LastRead(r) /\ (next'[r].op # "none" => next[r].op # "none")
        BY <3>1 DEF LastRead
      <3>4. Whole(e)'
        BY <2>0, <3>1, <3>3, WholeStutter DEF Mid
      <3>5. Whole(Other(e))'
        BY <2>0, <3>1, <3>2, <3>3, WholeStutter
      <3> QED  BY <3>4, <3>5, Others
    <2>9. CASE SendsUnmasked(e)
      BY <2>9, UnmaskedWhole
    <2>10. CASE AppSends(e) \/ AppCloses(e) \/ ConnectThrows \/ Timers(e) \/ Closing(e)
      BY <2>10, ReadersWhole
      DEF AppSends, AppCloses, ConnectThrows, Timers, TimerExpires, TimerHandler, Closing,
          StopService, Exit, Destroyed
    <2>11. CASE Stop(e)
      <3>1. /\ UNCHANGED <<wire, wr, cur>> /\ \A d \in Ends : d # e => next'[d] = next[d]
            /\ next'[e] = next[e] \/ (next[e].op = "accept" /\ next'[e].op = "accept")
        BY <2>0, <2>11 DEF Stop, Waiting
      <3>2. next[e].op = "accept" /\ next'[e].op = "accept" => next[e].op # "none" /\ LastRead(e)' = LastRead(e)
        BY DEF LastRead
      <3> QED  BY <3>1, <3>2, ReadersWhole
    <2> QED
      BY <1>3, <2>1, <2>2, <2>3, <2>4, <2>5, <2>6, <2>7, <2>8, <2>9, <2>10, <2>11
      DEF Step, Strand, Timers, Closing
  <1> QED  BY <1>1, <1>2, <1>3, StepCases

LEMMA WholeInit == Init => WholeInv
  <1> SUFFICES ASSUME Init PROVE WholeInv
    OBVIOUS
  <1>1. FramesInv
    BY FramesInit
  <1>2. \A r \in Ends : wire[r] = <<>> /\ next[r].op \in {"accept", "resolve"} /\ wr[r] = IdleWrite
    BY DEF Init, Each, Waiting
  <1>3. \A r \in Ends : LastRead(r) = Part("none", NoFrame) /\ ~Mid(r)
    BY <1>2 DEF LastRead, Mid, IdleWrite
  <1>4. \A r \in Ends : Whole(r)
    BY <1>2, <1>3, Others DEF Whole, Matched, EndsWell, LastPart, Before, Part
  <1> QED  BY <1>1, <1>4 DEF WholeInv

LEMMA WholeInvNext == WholeInv /\ [Next]_vars => WholeInv'
  BY FramesInvNext, WholeNext DEF WholeInv

\* ws/server.h:222-254, ws/client.h:181-200: what is written in two operations by the server and
\* read in two by both ends stays together, for any scripts, limits, timeouts and numbers of
\* threads, and when writes fail in the middle of the queue.
THEOREM FramesAreWhole == Spec => []FramesWhole
  <1>1. WholeInv => FramesWhole
    <2> SUFFICES ASSUME WholeInv, NEW r \in Ends, next[r].op # "none", NEW i \in DOMAIN wire[r]
                 PROVE  Follows(wire[r][i], IF i = 1 THEN LastRead(r) ELSE wire[r][i - 1])
      BY DEF FramesWhole
    <2>1. i \in 1 .. Len(wire[r])
      BY Typing DEF WholeInv, FramesInv
    <2> QED  BY <2>1 DEF WholeInv, Whole, Matched, Before
  <1> QED  BY WholeInit, WholeInvNext, <1>1, PTL DEF Spec

-----------------------------------------------------------------------------
(* Messages come in order.  The numbers of the frames an application has sent and the other has *)
(* not heard of yet lie one after the other in posted, send_queue and on the wire, with zeros    *)
(* for control frames and headers in between.                                                    *)

\* v[1 .. N] holds, zeros apart, a + 1, ..., b in this order.
Numbered(N, v, a, b) ==
  /\ a <= b
  /\ \A i \in 1 .. N : v[i] # 0 => a < v[i] /\ v[i] <= b
  /\ \A i, j \in 1 .. N : i < j /\ v[i] # 0 /\ v[j] # 0 => v[i] < v[j]
  /\ \A k \in (a + 1) .. b : \E i \in 1 .. N : v[i] = k

LEMMA NumberedAppend ==
  ASSUME NEW N \in Nat, NEW v \in [1 .. N -> Nat], NEW w \in [1 .. N + 1 -> Nat],
         NEW a \in Nat, NEW b \in Nat, Numbered(N, v, a, b), \A i \in 1 .. N : w[i] = v[i]
  PROVE  /\ w[N + 1] = 0 => Numbered(N + 1, w, a, b)
         /\ w[N + 1] = b + 1 => Numbered(N + 1, w, a, b + 1)
  <1>1. \A i \in 1 .. N + 1 : i \in 1 .. N \/ i = N + 1
    OBVIOUS
  <1>2. N + 1 \in 1 .. N + 1 /\ \A i \in 1 .. N : i \in 1 .. N + 1
    OBVIOUS
  <1>3. ASSUME w[N + 1] = 0 PROVE Numbered(N + 1, w, a, b)
    <2>1. \A i \in 1 .. N + 1 : w[i] # 0 => i \in 1 .. N /\ w[i] = v[i]
      BY <1>1, <1>3
    <2>2. \A k \in (a + 1) .. b : \E i \in 1 .. N + 1 : w[i] = k
      BY <1>2 DEF Numbered
    <2> QED  BY <2>1, <2>2 DEF Numbered
  <1>4. ASSUME w[N + 1] = b + 1 PROVE Numbered(N + 1, w, a, b + 1)
    <2>1. \A i \in 1 .. N + 1 : w[i] # 0 => a < w[i] /\ w[i] <= b + 1
      <3> TAKE i \in 1 .. N + 1
      <3>1. CASE i = N + 1
        BY <1>4, <3>1 DEF Numbered
      <3>2. CASE i \in 1 .. N
        BY <3>2 DEF Numbered
      <3> QED  BY <1>1, <3>1, <3>2
    <2>2. \A i, j \in 1 .. N + 1 : i < j /\ w[i] # 0 /\ w[j] # 0 => w[i] < w[j]
      <3> TAKE i, j \in 1 .. N + 1
      <3> HAVE i < j /\ w[i] # 0 /\ w[j] # 0
      <3>1. i \in 1 .. N
        OBVIOUS
      <3>2. CASE j = N + 1
        BY <1>4, <3>1, <3>2 DEF Numbered
      <3>3. CASE j \in 1 .. N
        BY <3>1, <3>3 DEF Numbered
      <3> QED  BY <1>1, <3>2, <3>3
    <2>3. \A k \in (a + 1) .. (b + 1) : \E i \in 1 .. N + 1 : w[i] = k
      <3> TAKE k \in (a + 1) .. (b + 1)
      <3>1. CASE k = b + 1
        BY <1>2, <1>4, <3>1
      <3>2. CASE k \in (a + 1) .. b
        BY <1>2, <3>2 DEF Numbered
      <3> QED  BY <3>1, <3>2
    <2>4. a <= b + 1
      BY DEF Numbered
    <2> QED  BY <2>1, <2>2, <2>3, <2>4 DEF Numbered
  <1> QED  BY <1>3, <1>4

LEMMA NumberedTail ==
  ASSUME NEW N \in Nat, N > 0, NEW v \in [1 .. N -> Nat], NEW w \in [1 .. N - 1 -> Nat],
         NEW a \in Nat, NEW b \in Nat, Numbered(N, v, a, b), \A i \in 1 .. N - 1 : w[i] = v[i + 1]
  PROVE  /\ v[1] = 0 => Numbered(N - 1, w, a, b)
         /\ v[1] # 0 => v[1] = a + 1 /\ Numbered(N - 1, w, a + 1, b)
  <1>1. \A i \in 1 .. N - 1 : i + 1 \in 1 .. N /\ w[i] = v[i + 1]
    OBVIOUS
  <1>2. \A i \in 1 .. N : i = 1 \/ (i - 1 \in 1 .. N - 1 /\ w[i - 1] = v[i])
    <2> TAKE i \in 1 .. N
    <2>1. i # 1 => i - 1 \in 1 .. N - 1 /\ (i - 1) + 1 = i
      OBVIOUS
    <2> QED  BY <2>1
  <1>3. \A i, j \in 1 .. N - 1 : i < j /\ w[i] # 0 /\ w[j] # 0 => w[i] < w[j]
    <2> TAKE i, j \in 1 .. N - 1
    <2>1. i < j => i + 1 < j + 1
      OBVIOUS
    <2> QED  BY <1>1, <2>1 DEF Numbered
  <1>4. \A i \in 1 .. N - 1 : w[i] # 0 => a < w[i] /\ w[i] <= b
    BY <1>1 DEF Numbered
  <1>5. ASSUME v[1] = 0 PROVE Numbered(N - 1, w, a, b)
    <2>1. ASSUME NEW k \in (a + 1) .. b PROVE \E i \in 1 .. N - 1 : w[i] = k
      <3>1. PICK i \in 1 .. N : v[i] = k
        BY DEF Numbered
      <3>2. i # 1
        BY <1>5, <3>1
      <3> QED  BY <1>2, <3>1, <3>2
    <2> QED  BY <1>3, <1>4, <2>1 DEF Numbered
  <1>6. ASSUME v[1] # 0 PROVE v[1] = a + 1 /\ Numbered(N - 1, w, a + 1, b)
    <2>0. 1 \in 1 .. N /\ v[1] \in Nat /\ a < v[1] /\ v[1] <= b
      BY <1>6 DEF Numbered
    <2>1. v[1] = a + 1
      <3>1. a + 1 \in (a + 1) .. b
        BY <2>0
      <3>2. PICK i \in 1 .. N : v[i] = a + 1
        BY <3>1 DEF Numbered
      <3>3. CASE i # 1
        <4>1. 1 < i /\ v[i] # 0
          BY <3>2, <3>3
        <4>2. v[1] < v[i]
          BY <1>6, <2>0, <4>1 DEF Numbered
        <4> QED  BY <2>0, <3>2, <4>2
      <3> QED  BY <3>2, <3>3
    <2>2. \A i \in 1 .. N - 1 : w[i] # 0 => a + 1 < w[i] /\ w[i] <= b
      <3> SUFFICES ASSUME NEW i \in 1 .. N - 1, w[i] # 0 PROVE a + 1 < w[i] /\ w[i] <= b
        OBVIOUS
      <3>1. 1 < i + 1 /\ i + 1 \in 1 .. N
        OBVIOUS
      <3>2. v[1] < v[i + 1]
        BY <1>1, <1>6, <2>0, <3>1 DEF Numbered
      <3> QED  BY <1>1, <1>4, <2>1, <3>2
    <2>3. ASSUME NEW k \in (a + 2) .. b PROVE \E i \in 1 .. N - 1 : w[i] = k
      <3>1. PICK i \in 1 .. N : v[i] = k
        BY DEF Numbered
      <3>2. i # 1
        BY <2>1, <3>1
      <3> QED  BY <1>2, <3>1, <3>2
    <2>4. a + 1 <= b /\ (a + 1) + 1 = a + 2
      BY <2>0
    <2> QED  BY <1>3, <2>1, <2>2, <2>3, <2>4 DEF Numbered
  <1> QED  BY <1>5, <1>6

Numbers(s) == [i \in 1 .. Len(s) |-> s[i].n]
Bodies(s) == [i \in 1 .. Len(s) |-> IF s[i].part = "body" THEN s[i].frame.n ELSE 0]

\* The frames of s are those numbered a + 1, ..., b, and control frames; so are those whose
\* bodies are in s.
InLine(s, a, b) == Numbered(Len(s), Numbers(s), a, b)
OnWire(s, a, b) == Numbered(Len(s), Bodies(s), a, b)

LEMMA LineEmpty == \A a \in Nat : InLine(<<>>, a, a) /\ OnWire(<<>>, a, a)
  BY DEF InLine, OnWire, Numbered

LEMMA HasNumber == (\A f \in Frames : f.n \in Nat) /\ (\A p \in Parts : p.frame.n \in Nat)
  <1>1. \A f \in Frames : f.n \in Nat
    BY DEF Frames
  <1>2. NoFrame.n \in Nat
    BY DEF NoFrame, Frame
  <1>3. \A p \in Parts : p.frame \in Frames \cup {NoFrame}
    BY DEF Parts
  <1> QED  BY <1>1, <1>2, <1>3

LEMMA LineAppend ==
  ASSUME NEW s \in Seq(Frames), NEW f \in Frames, NEW a \in Nat, NEW b \in Nat, InLine(s, a, b)
  PROVE  /\ f.n = 0 => InLine(Append(s, f), a, b)
         /\ f.n = b + 1 => InLine(Append(s, f), a, b + 1)
  <1> DEFINE t == Append(s, f)
             v == Numbers(s)
             w == Numbers(t)
  <1>1. /\ Len(s) \in Nat /\ Len(t) = Len(s) + 1 /\ t[Len(s) + 1] = f
        /\ \A i \in 1 .. Len(s) : t[i] = s[i] /\ s[i] \in Frames
    OBVIOUS
  <1>0. \A i \in 1 .. Len(s) : s[i].n \in Nat
    BY <1>1, HasNumber
  <1>2. f.n \in Nat
    BY HasNumber
  <1> HIDE DEF t
  <1>3. v \in [1 .. Len(s) -> Nat] /\ \A i \in 1 .. Len(s) : v[i] = s[i].n
    BY <1>0, <1>1 DEF Numbers
  <1>4. \A i \in 1 .. Len(s) + 1 : i \in 1 .. Len(s) \/ i = Len(s) + 1
    BY <1>1
  <1>5. w \in [1 .. Len(s) + 1 -> Nat] /\ \A i \in 1 .. Len(s) + 1 : w[i] = t[i].n
    <2>1. \A i \in 1 .. Len(s) + 1 : t[i].n \in Nat
      BY <1>0, <1>1, <1>2, <1>4
    <2> QED  BY <1>1, <2>1 DEF Numbers
  <1>6. (\A i \in 1 .. Len(s) : w[i] = v[i]) /\ w[Len(s) + 1] = f.n
    BY <1>1, <1>3, <1>5
  <1>7. Numbered(Len(s), v, a, b)
    BY DEF InLine
  <1> HIDE DEF v, w
  <1>8. /\ w[Len(s) + 1] = 0 => Numbered(Len(s) + 1, w, a, b)
        /\ w[Len(s) + 1] = b + 1 => Numbered(Len(s) + 1, w, a, b + 1)
    BY <1>1, <1>3, <1>5, <1>6, <1>7, NumberedAppend
  <1> QED  BY <1>1, <1>6, <1>8 DEF InLine, t, w

LEMMA LineTail ==
  ASSUME NEW s \in Seq(Frames), s # <<>>, NEW a \in Nat, NEW b \in Nat, InLine(s, a, b)
  PROVE  /\ Head(s).n = 0 => InLine(Tail(s), a, b)
         /\ Head(s).n # 0 => Head(s).n = a + 1 /\ InLine(Tail(s), a + 1, b)
  <1> DEFINE t == Tail(s)
             v == Numbers(s)
             w == Numbers(t)
  <1>1. /\ Len(s) \in Nat /\ Len(s) > 0 /\ Len(t) = Len(s) - 1 /\ Head(s) = s[1]
        /\ \A i \in 1 .. Len(t) : t[i] = s[i + 1]
        /\ \A i \in 1 .. Len(s) : s[i] \in Frames
    OBVIOUS
  <1>0. \A i \in 1 .. Len(s) : s[i].n \in Nat
    BY <1>1, HasNumber
  <1> HIDE DEF t
  <1>2. v \in [1 .. Len(s) -> Nat] /\ \A i \in 1 .. Len(s) : v[i] = s[i].n
    BY <1>0, <1>1 DEF Numbers
  <1>3. \A i \in 1 .. Len(s) - 1 : i + 1 \in 1 .. Len(s)
    BY <1>1
  <1>4. w \in [1 .. Len(s) - 1 -> Nat] /\ \A i \in 1 .. Len(s) - 1 : w[i] = v[i + 1]
    <2>1. \A i \in 1 .. Len(s) - 1 : t[i].n = s[i + 1].n /\ t[i].n \in Nat
      BY <1>0, <1>1, <1>3
    <2> QED  BY <1>1, <1>2, <1>3, <2>1 DEF Numbers
  <1>5. Numbered(Len(s), v, a, b) /\ v[1] = Head(s).n
    <2>1. 1 \in 1 .. Len(s)
      BY <1>1
    <2> QED  BY <1>1, <1>2, <2>1 DEF InLine
  <1> HIDE DEF v, w
  <1>6. /\ v[1] = 0 => Numbered(Len(s) - 1, w, a, b)
        /\ v[1] # 0 => v[1] = a + 1 /\ Numbered(Len(s) - 1, w, a + 1, b)
    BY <1>1, <1>2, <1>4, <1>5, NumberedTail
  <1> QED  BY <1>1, <1>5, <1>6 DEF InLine, t, w

LEMMA WireAppend ==
  ASSUME NEW s \in Seq(Parts), NEW p \in Parts, NEW a \in Nat, NEW b \in Nat, OnWire(s, a, b)
  PROVE  /\ p.part # "body" \/ p.frame.n = 0 => OnWire(Append(s, p), a, b)
         /\ p.part = "body" /\ p.frame.n = b + 1 => OnWire(Append(s, p), a, b + 1)
  <1> DEFINE t == Append(s, p)
             v == Bodies(s)
             w == Bodies(t)
  <1>1. /\ Len(s) \in Nat /\ Len(t) = Len(s) + 1 /\ t[Len(s) + 1] = p
        /\ \A i \in 1 .. Len(s) : t[i] = s[i] /\ s[i] \in Parts
    OBVIOUS
  <1>0. \A i \in 1 .. Len(s) : s[i].frame.n \in Nat
    BY <1>1, HasNumber
  <1>2. p.frame.n \in Nat
    BY HasNumber
  <1> HIDE DEF t
  <1>3. /\ v \in [1 .. Len(s) -> Nat]
        /\ \A i \in 1 .. Len(s) : v[i] = IF s[i].part = "body" THEN s[i].frame.n ELSE 0
    BY <1>0, <1>1 DEF Bodies
  <1>4. \A i \in 1 .. Len(s) + 1 : i \in 1 .. Len(s) \/ i = Len(s) + 1
    BY <1>1
  <1>5. /\ w \in [1 .. Len(s) + 1 -> Nat]
        /\ \A i \in 1 .. Len(s) + 1 : w[i] = IF t[i].part = "body" THEN t[i].frame.n ELSE 0
    <2>1. \A i \in 1 .. Len(s) + 1 : t[i].frame.n \in Nat
      BY <1>0, <1>1, <1>2, <1>4
    <2> QED  BY <1>1, <2>1 DEF Bodies
  <1>6. /\ \A i \in 1 .. Len(s) : w[i] = v[i]
        /\ w[Len(s) + 1] = IF p.part = "body" THEN p.frame.n ELSE 0
    BY <1>1, <1>3, <1>5
  <1>7. Numbered(Len(s), v, a, b)
    BY DEF OnWire
  <1> HIDE DEF v, w
  <1>8. /\ w[Len(s) + 1] = 0 => Numbered(Len(s) + 1, w, a, b)
        /\ w[Len(s) + 1] = b + 1 => Numbered(Len(s) + 1, w, a, b + 1)
    BY <1>1, <1>3, <1>5, <1>6, <1>7, NumberedAppend
  <1> QED  BY <1>1, <1>6, <1>8 DEF OnWire, t, w

LEMMA WirePair ==
  ASSUME NEW s \in Seq(Parts), NEW f \in Frames, NEW a \in Nat, NEW b \in Nat, OnWire(s, a, b)
  PROVE  /\ f.n = 0 => OnWire(s \o <<Part("header", f), Part("body", f)>>, a, b)
         /\ f.n = b + 1 => OnWire(s \o <<Part("header", f), Part("body", f)>>, a, b + 1)
  <1> DEFINE h == Part("header", f)
             p == Part("body", f)
  <1>1. h \in Parts /\ p \in Parts /\ h.part = "header" /\ p.part = "body" /\ p.frame = f
    BY DEF Part, Parts
  <1> HIDE DEF h, p
  <1>2. OnWire(Append(s, h), a, b) /\ Append(s, h) \in Seq(Parts)
    BY <1>1, WireAppend
  <1>3. /\ f.n = 0 => OnWire(Append(Append(s, h), p), a, b)
        /\ f.n = b + 1 => OnWire(Append(Append(s, h), p), a, b + 1)
    <2> DEFINE t == Append(s, h)
    <2>1. t \in Seq(Parts) /\ OnWire(t, a, b)
      BY <1>2
    <2> HIDE DEF t
    <2>2. /\ f.n = 0 => OnWire(Append(t, p), a, b)
          /\ f.n = b + 1 => OnWire(Append(t, p), a, b + 1)
      BY <1>1, <2>1, WireAppend
    <2> QED  BY <2>2 DEF t
  <1>4. s \o <<h, p>> = Append(Append(s, h), p)
    BY <1>1
  <1> QED  BY <1>3, <1>4 DEF h, p

LEMMA WireTail ==
  ASSUME NEW s \in Seq(Parts), s # <<>>, NEW a \in Nat, NEW b \in Nat, OnWire(s, a, b)
  PROVE  /\ Head(s).part # "body" \/ Head(s).frame.n = 0 => OnWire(Tail(s), a, b)
         /\ Head(s).part = "body" /\ Head(s).frame.n # 0 =>
              Head(s).frame.n = a + 1 /\ OnWire(Tail(s), a + 1, b)
  <1> DEFINE t == Tail(s)
             v == Bodies(s)
             w == Bodies(t)
  <1>1. /\ Len(s) \in Nat /\ Len(s) > 0 /\ Len(t) = Len(s) - 1 /\ Head(s) = s[1]
        /\ \A i \in 1 .. Len(t) : t[i] = s[i + 1]
        /\ \A i \in 1 .. Len(s) : s[i] \in Parts
    OBVIOUS
  <1>0. \A i \in 1 .. Len(s) : s[i].frame.n \in Nat
    BY <1>1, HasNumber
  <1> HIDE DEF t
  <1>2. /\ v \in [1 .. Len(s) -> Nat]
        /\ \A i \in 1 .. Len(s) : v[i] = IF s[i].part = "body" THEN s[i].frame.n ELSE 0
    BY <1>0, <1>1 DEF Bodies
  <1>3. \A i \in 1 .. Len(s) - 1 : i + 1 \in 1 .. Len(s)
    BY <1>1
  <1>4. w \in [1 .. Len(s) - 1 -> Nat] /\ \A i \in 1 .. Len(s) - 1 : w[i] = v[i + 1]
    <2>1. \A i \in 1 .. Len(s) - 1 : t[i] = s[i + 1] /\ t[i].frame.n \in Nat
      BY <1>0, <1>1, <1>3
    <2> QED  BY <1>1, <1>2, <1>3, <2>1 DEF Bodies
  <1>5. Numbered(Len(s), v, a, b) /\ v[1] = IF Head(s).part = "body" THEN Head(s).frame.n ELSE 0
    <2>1. 1 \in 1 .. Len(s)
      BY <1>1
    <2> QED  BY <1>1, <1>2, <2>1 DEF OnWire
  <1> HIDE DEF v, w
  <1>6. /\ v[1] = 0 => Numbered(Len(s) - 1, w, a, b)
        /\ v[1] # 0 => v[1] = a + 1 /\ Numbered(Len(s) - 1, w, a + 1, b)
    BY <1>1, <1>2, <1>4, <1>5, NumberedTail
  <1> QED  BY <1>1, <1>5, <1>6 DEF OnWire, t, w

\* The frames of e that are not on the wire.
Unsent(e) == IF wr[e].op = "message" /\ wr[e].res = "ok" THEN Tail(send_queue[e]) ELSE send_queue[e]

\* The frames after m are still to be written, up to the last e's application has sent,
\* unless what e writes reaches nobody or its application is another implementation's.
Ahead(e, m) ==
  \/ Dead(e)
  \/ \E k \in Nat : \E l \in Nat :
       /\ InLine(Unsent(e), m, k) /\ InLine(posted[e], k, l)
       /\ l = count[e] \/ count[e] > Len(Script[e])

\* The last data frame r's handlers have kept or given to the application.
Heard(r) == IF fragmented[r] # <<>> THEN Last(fragmented[r]) ELSE LastGiven(r, Len(delivered[r]))
\* What came between this frame and frame m were pings.
Caught(r, m) ==
  /\ Heard(r) <= m
  /\ \A j \in (Heard(r) + 1) .. m : j \in DOMAIN Script[Other(r)] /\ Script[Other(r)][j] = "ping"
\* The frame that has been read and not been handled.
Taken(r) == IF next[r] = [op |-> "content", res |-> "ok"] THEN cur[r].n ELSE 0

\* The frames up to m have been heard, are about to be, or are on the wire.
Behind(r, m) ==
  \E k \in Nat : \E l \in Nat :
    /\ Caught(r, k)
    /\ (Taken(r) = 0 /\ l = k) \/ (Taken(r) = k + 1 /\ l = k + 1)
    /\ OnWire(wire[r], l, m)

Flow(r) == next[r].op # "none" => \E m \in Nat : Behind(r, m) /\ Ahead(Other(r), m)

OrderInv == WholeInv /\ InOrder /\ \A r \in Ends : Flow(r)

LEMMA UnsentTyped ==
  ASSUME WholeInv, NEW e \in Ends
  PROVE  Unsent(e) \in Seq(Frames) /\ posted[e] \in Seq(Frames) /\ send_queue[e] \in Seq(Frames)
  <1>1. /\ posted[e] \in Seq(Frames) /\ send_queue[e] \in Seq(Frames)
        /\ wr[e].op = "message" => send_queue[e] # <<>>
    BY Typing, HasFrame DEF WholeInv, FramesInv
  <1> QED  BY <1>1 DEF Unsent

LEMMA Counts ==
  ASSUME WholeInv, NEW e \in Ends
  PROVE  count[e] \in Nat /\ Len(Script[e]) \in Nat /\ DOMAIN Script[e] = 1 .. Len(Script[e])
  <1>1. Script[e] \in Seq({"text", "first", "last", "ping"}) /\ count \in [Ends -> Nat]
    BY Typing DEF WholeInv, FramesInv
  <1> QED  BY <1>1

LEMMA AheadSame ==
  ASSUME WholeInv, [Next]_vars, NEW e \in Ends, NEW m \in Nat, Ahead(e, m),
         Unsent(e)' = Unsent(e), posted'[e] = posted[e],
         count'[e] = count[e] \/ count'[e] > Len(Script[e])
  PROVE  Ahead(e, m)'
  <1>1. CASE Dead(e)
    BY <1>1, DeadStays DEF WholeInv, FramesInv, Ahead
  <1>2. CASE ~Dead(e)
    <2>1. PICK k \in Nat : \E l \in Nat :
            /\ InLine(Unsent(e), m, k) /\ InLine(posted[e], k, l)
            /\ l = count[e] \/ count[e] > Len(Script[e])
      BY <1>2 DEF Ahead
    <2>2. PICK l \in Nat :
            /\ InLine(Unsent(e), m, k) /\ InLine(posted[e], k, l)
            /\ l = count[e] \/ count[e] > Len(Script[e])
      BY <2>1
    <2>3. /\ InLine(Unsent(e)', m, k) /\ InLine(posted'[e], k, l)
          /\ l = count'[e] \/ count'[e] > Len(Script[e])
      BY <2>2
    <2> QED  BY <2>3 DEF Ahead
  <1> QED  BY <1>1, <1>2

LEMMA AheadPosts ==
  ASSUME WholeInv, [Next]_vars, NEW e \in Ends, NEW f \in Frames, NEW m \in Nat, Ahead(e, m),
         Unsent(e)' = Unsent(e), posted'[e] = Append(posted[e], f),
         \/ f.n = 0 /\ count'[e] = count[e]
         \/ f.n = count[e] + 1 /\ count'[e] = count[e] + 1 /\ count[e] <= Len(Script[e])
  PROVE  Ahead(e, m)'
  <1>1. CASE Dead(e)
    BY <1>1, DeadStays DEF WholeInv, FramesInv, Ahead
  <1>2. CASE ~Dead(e)
    <2>0. posted[e] \in Seq(Frames) /\ count[e] \in Nat /\ Len(Script[e]) \in Nat
      BY UnsentTyped, Counts
    <2>1. PICK k \in Nat : \E l \in Nat :
            /\ InLine(Unsent(e), m, k) /\ InLine(posted[e], k, l)
            /\ l = count[e] \/ count[e] > Len(Script[e])
      BY <1>2 DEF Ahead
    <2>2. PICK l \in Nat :
            /\ InLine(Unsent(e), m, k) /\ InLine(posted[e], k, l)
            /\ l = count[e] \/ count[e] > Len(Script[e])
      BY <2>1
    <2>3. /\ f.n = 0 => InLine(posted'[e], k, l)
          /\ f.n = l + 1 => InLine(posted'[e], k, l + 1)
      BY <2>0, <2>2, LineAppend
    <2>4. \E x \in Nat : InLine(posted'[e], k, x) /\ (x = count'[e] \/ count'[e] > Len(Script[e]))
      <3>1. CASE f.n = 0 /\ count'[e] = count[e]
        BY <2>2, <2>3, <3>1
      <3>2. CASE f.n = count[e] + 1 /\ count'[e] = count[e] + 1 /\ count[e] <= Len(Script[e])
        <4>1. l = count[e]
          BY <2>0, <2>2, <3>2
        <4> QED  BY <2>0, <2>3, <3>2, <4>1
      <3> QED  BY <3>1, <3>2
    <2>5. InLine(Unsent(e)', m, k)
      BY <2>2
    <2> QED  BY <2>4, <2>5 DEF Ahead
  <1> QED  BY <1>1, <1>2

LEMMA AheadEnqueue ==
  ASSUME WholeInv, [Next]_vars, NEW e \in Ends, NEW m \in Nat, Ahead(e, m), Enqueue(e)
  PROVE  Ahead(e, m)'
  <1>1. CASE Dead(e)
    BY <1>1, DeadStays DEF WholeInv, FramesInv, Ahead
  <1>2. CASE ~Dead(e)
    <2>0. posted \in [Ends -> Seq(Frames)] /\ send_queue \in [Ends -> Seq(Frames)]
      BY Typing DEF WholeInv, FramesInv
    <2>1. PICK k \in Nat : \E l \in Nat :
            /\ InLine(Unsent(e), m, k) /\ InLine(posted[e], k, l)
            /\ l = count[e] \/ count[e] > Len(Script[e])
      BY <1>2 DEF Ahead
    <2>2. PICK l \in Nat :
            /\ InLine(Unsent(e), m, k) /\ InLine(posted[e], k, l)
            /\ l = count[e] \/ count[e] > Len(Script[e])
      BY <2>1
    <2> DEFINE f == Head(posted[e])
    <2>3. /\ posted[e] # <<>> /\ f \in Frames /\ posted'[e] = Tail(posted[e])
          /\ send_queue'[e] = Append(send_queue[e], f) /\ wr' = wr /\ count'[e] = count[e]
      BY <2>0 DEF Enqueue, QueueOnly, history
    <2> HIDE DEF f
    <2>4. Unsent(e)' = Append(Unsent(e), f)
      <3>1. wr[e].op = "message" => send_queue[e] # <<>>
        BY HasFrame DEF WholeInv
      <3>2. ASSUME NEW s \in Seq(Frames), s # <<>> PROVE Tail(Append(s, f)) = Append(Tail(s), f)
        BY <2>3, <3>2
      <3> QED  BY <2>0, <2>3, <3>1, <3>2 DEF Unsent
    <2>5. /\ f.n = 0 => InLine(posted'[e], k, l)
          /\ f.n # 0 => f.n = k + 1 /\ InLine(posted'[e], k + 1, l)
      BY <2>0, <2>2, <2>3, LineTail DEF f
    <2>6. /\ f.n = 0 => InLine(Unsent(e)', m, k)
          /\ f.n = k + 1 => InLine(Unsent(e)', m, k + 1)
      BY <2>2, <2>3, <2>4, UnsentTyped, LineAppend
    <2>7. \E x \in Nat : InLine(Unsent(e)', m, x) /\ InLine(posted'[e], x, l)
      BY <2>5, <2>6
    <2> QED  BY <2>2, <2>3, <2>7 DEF Ahead
  <1> QED  BY <1>1, <1>2

LEMMA BehindSame ==
  ASSUME NEW r \in Ends, NEW m \in Nat, Behind(r, m), wire'[r] = wire[r], delivered'[r] = delivered[r],
         fragmented'[r] = fragmented[r], Taken(r)' = Taken(r)
  PROVE  Behind(r, m)'
  <1>1. Heard(r)' = Heard(r)
    BY DEF Heard, LastGiven
  <1>2. PICK k \in Nat : \E l \in Nat :
          /\ Caught(r, k)
          /\ (Taken(r) = 0 /\ l = k) \/ (Taken(r) = k + 1 /\ l = k + 1)
          /\ OnWire(wire[r], l, m)
    BY DEF Behind
  <1>3. Caught(r, k)'
    BY <1>1, <1>2 DEF Caught
  <1>4. \E l \in Nat : ((Taken(r)' = 0 /\ l = k) \/ (Taken(r)' = k + 1 /\ l = k + 1))
                       /\ OnWire(wire[r], l, m)'
    BY <1>2
  <1> QED  BY <1>3, <1>4 DEF Behind

\* Parts have been put on the wire of r.
LEMMA BehindPut ==
  ASSUME NEW r \in Ends, NEW m \in Nat, NEW x \in Nat, Behind(r, m),
         \A l \in Nat : OnWire(wire[r], l, m) => OnWire(wire'[r], l, x),
         delivered'[r] = delivered[r], fragmented'[r] = fragmented[r], Taken(r)' = Taken(r)
  PROVE  Behind(r, x)'
  <1>1. Heard(r)' = Heard(r)
    BY DEF Heard, LastGiven
  <1>2. PICK k \in Nat : \E l \in Nat :
          /\ Caught(r, k)
          /\ (Taken(r) = 0 /\ l = k) \/ (Taken(r) = k + 1 /\ l = k + 1)
          /\ OnWire(wire[r], l, m)
    BY DEF Behind
  <1>3. PICK l \in Nat :
          /\ Caught(r, k)
          /\ (Taken(r) = 0 /\ l = k) \/ (Taken(r) = k + 1 /\ l = k + 1)
          /\ OnWire(wire[r], l, m)
    BY <1>2
  <1>4. Caught(r, k)'
    BY <1>1, <1>3 DEF Caught
  <1>5. OnWire(wire'[r], l, x)
    BY <1>3
  <1> QED  BY <1>3, <1>4, <1>5 DEF Behind

\* The part that is taken is heard of when it is a body.
LEMMA BehindTake ==
  ASSUME WholeInv, NEW r \in Ends, NEW m \in Nat, Behind(r, m), NEW p, Take(r, p),
         delivered'[r] = delivered[r], fragmented'[r] = fragmented[r],
         IF p = "body" THEN Taken(r) = 0 /\ Taken(r)' = Head(wire[r]).frame.n
                       ELSE Taken(r)' = Taken(r)
  PROVE  Behind(r, m)'
  <1>1. Heard(r)' = Heard(r)
    BY DEF Heard, LastGiven
  <1>2. PICK k \in Nat : \E l \in Nat :
          /\ Caught(r, k)
          /\ (Taken(r) = 0 /\ l = k) \/ (Taken(r) = k + 1 /\ l = k + 1)
          /\ OnWire(wire[r], l, m)
    BY DEF Behind
  <1>3. PICK l \in Nat :
          /\ Caught(r, k)
          /\ (Taken(r) = 0 /\ l = k) \/ (Taken(r) = k + 1 /\ l = k + 1)
          /\ OnWire(wire[r], l, m)
    BY <1>2
  <1>4. Caught(r, k)'
    BY <1>1, <1>3 DEF Caught
  <1>5. wire \in [Ends -> Seq(Parts)]
    BY Typing DEF WholeInv, FramesInv
  <1>6. wire[r] \in Seq(Parts) /\ wire[r] # <<>> /\ Head(wire[r]).part = p /\ wire'[r] = Tail(wire[r])
    BY <1>5 DEF Take
  <1>7. /\ Head(wire[r]).part # "body" \/ Head(wire[r]).frame.n = 0 => OnWire(wire'[r], l, m)
        /\ Head(wire[r]).part = "body" /\ Head(wire[r]).frame.n # 0 =>
             Head(wire[r]).frame.n = l + 1 /\ OnWire(wire'[r], l + 1, m)
    BY <1>3, <1>6, WireTail
  <1>8. \E x \in Nat : ((Taken(r)' = 0 /\ x = k) \/ (Taken(r)' = k + 1 /\ x = k + 1))
                       /\ OnWire(wire'[r], x, m)
    BY <1>3, <1>6, <1>7
  <1> QED  BY <1>4, <1>8 DEF Behind

\* The messages of the client's application are not sent between the fragments of another: the
\* server would forget the fragments.  RFC 6455 asks for it.
MessagesApart ==
  \A i, j \in DOMAIN Script["client"] :
    i < j /\ Script["client"][i] = "first" /\ Script["client"][j] = "text" =>
      \E k \in (i + 1) .. (j - 1) : Script["client"][k] = "last"

Final(e, k) == Script[e][k] \in {"text", "last"}

LEMMA InTurnAppend ==
  ASSUME NEW e, NEW s \in Seq(Nat), NEW h \in Nat, NEW n \in Nat, InTurn(e, h, s),
         NextData(e, IF s = <<>> THEN h ELSE Last(s), n)
  PROVE  InTurn(e, h, Append(s, n))
  <1> DEFINE t == Append(s, n)
  <1>1. /\ t \in Seq(Nat) /\ Len(t) = Len(s) + 1 /\ t[Len(s) + 1] = n /\ Len(s) \in Nat
        /\ \A i \in 1 .. Len(s) : t[i] = s[i]
        /\ DOMAIN t = 1 .. Len(s) + 1 /\ DOMAIN s = 1 .. Len(s)
        /\ s = <<>> <=> Len(s) = 0
    OBVIOUS
  <1> HIDE DEF t
  <1> SUFFICES ASSUME NEW j \in 1 .. Len(s) + 1 PROVE NextData(e, IF j = 1 THEN h ELSE t[j - 1], t[j])
    BY <1>1 DEF InTurn
  <1>2. CASE j \in 1 .. Len(s)
    <2>0. j # 1 => j - 1 \in 1 .. Len(s)
      BY <1>1, <1>2
    <2>1. t[j] = s[j] /\ (j # 1 => t[j - 1] = s[j - 1])
      BY <1>1, <1>2, <2>0
    <2> QED  BY <1>1, <1>2, <2>1 DEF InTurn
  <1>3. CASE j = Len(s) + 1
    <2>1. t[j] = n /\ (j = 1 <=> s = <<>>)
      BY <1>1, <1>3
    <2>2. s # <<>> => t[j - 1] = Last(s)
      <3>1. s # <<>> => Len(s) \in 1 .. Len(s) /\ j - 1 = Len(s)
        BY <1>1, <1>3
      <3> QED  BY <1>1, <3>1 DEF Last
    <2> QED  BY <2>1, <2>2
  <1> QED  BY <1>1, <1>2, <1>3

LEMMA HeardTyped ==
  ASSUME WholeInv, NEW r \in Ends, GivenInOrder(r)
  PROVE  LastGiven(r, Len(delivered[r])) \in Nat /\ Heard(r) \in Nat
  <1>1. /\ fragmented[r] \in Seq(Nat) /\ delivered[r] \in Seq(Seq(Nat))
    BY Typing DEF WholeInv, FramesInv
  <1>2. \A s \in Seq(Nat) : s # <<>> => Last(s) \in Nat
    BY DEF Last
  <1>3. ASSUME Len(delivered[r]) # 0
        PROVE  delivered[r][Len(delivered[r])] \in Seq(Nat) \ {<<>>}
    <2>1. Len(delivered[r]) \in DOMAIN delivered[r] /\ delivered[r][Len(delivered[r])] \in Seq(Nat)
      BY <1>1, <1>3
    <2> QED  BY <2>1 DEF GivenInOrder
  <1>4. LastGiven(r, Len(delivered[r])) \in Nat
    BY <1>2, <1>3 DEF LastGiven
  <1> QED  BY <1>1, <1>2, <1>4 DEF Heard

\* One more message is given.
LEMMA GivesMessage ==
  ASSUME WholeInv, NEW r \in Ends, GivenInOrder(r), NEW m \in Seq(Nat), m # <<>>,
         InTurn(Other(r), LastGiven(r, Len(delivered[r])), m),
         \A j \in DOMAIN m : j = Len(m) <=> Final(Other(r), m[j]),
         delivered'[r] = Append(delivered[r], m), fragmented'[r] = <<>>
  PROVE  GivenInOrder(r)' /\ Heard(r)' = Last(m)
  <1>a. PICK d : d = delivered[r]
    OBVIOUS
  <1>b. PICK t : t = Append(d, m)
    OBVIOUS
  <1>1. d \in Seq(Seq(Nat))
    BY <1>a, Typing DEF WholeInv, FramesInv
  <1>2. /\ Len(d) \in Nat /\ Len(t) = Len(d) + 1 /\ t[Len(d) + 1] = m
        /\ \A i \in 1 .. Len(d) : t[i] = d[i]
        /\ DOMAIN t = 1 .. Len(d) + 1 /\ DOMAIN d = 1 .. Len(d)
    BY <1>1, <1>b
  <1>3. delivered'[r] = t
    BY <1>a, <1>b
  <1>4. \A i \in 0 .. Len(d) : LastGiven(r, i)' = LastGiven(r, i)
    BY <1>2, <1>3, <1>a DEF LastGiven
  <1>5. ASSUME NEW i \in 1 .. Len(d) + 1
        PROVE  /\ t[i] # <<>> /\ InTurn(Other(r), LastGiven(r, i - 1)', t[i])
               /\ \A j \in DOMAIN t[i] : j = Len(t[i]) <=> Final(Other(r), t[i][j])
    <2>1. CASE i = Len(d) + 1
      <3>1. i - 1 = Len(d) /\ Len(d) \in 0 .. Len(d)
        BY <1>2, <2>1
      <3> QED  BY <1>2, <1>4, <1>a, <2>1, <3>1
    <2>2. CASE i \in 1 .. Len(d)
      <3>1. i - 1 \in 0 .. Len(d)
        BY <1>2, <2>2
      <3>2. t[i] = d[i] /\ LastGiven(r, i - 1)' = LastGiven(r, i - 1)
        BY <1>2, <1>4, <2>2, <3>1
      <3> QED  BY <1>2, <1>a, <2>2, <3>2 DEF GivenInOrder, Final
    <2> QED  BY <1>2, <2>1, <2>2
  <1>7. GivenInOrder(r)'
    <2>1. \A i \in DOMAIN delivered'[r] :
            /\ delivered'[r][i] # <<>> /\ InTurn(Other(r), LastGiven(r, i - 1)', delivered'[r][i])
            /\ \A j \in DOMAIN delivered'[r][i] :
                 j = Len(delivered'[r][i]) <=> Final(Other(r), delivered'[r][i][j])
      BY <1>2, <1>3, <1>5
    <2>2. InTurn(Other(r), LastGiven(r, Len(delivered[r]))', fragmented'[r])
      BY DEF InTurn
    <2>3. \A j \in DOMAIN fragmented'[r] : ~Final(Other(r), fragmented'[r][j])
      OBVIOUS
    <2> QED  BY <2>1, <2>2, <2>3 DEF GivenInOrder, Final
  <1>8. Heard(r)' = Last(m)
    <2>1. LastGiven(r, Len(t))' = Last(t[Len(t)])
      BY <1>2, <1>3 DEF LastGiven
    <2> QED  BY <1>2, <1>3, <2>1 DEF Heard
  <1> QED  BY <1>7, <1>8

LEMMA ReadFrame ==
  ASSUME WholeInv, NEW r \in Ends, cur[r].op # "none"
  PROVE  /\ cur[r].n \in Nat
         /\ cur[r].op \in {"pong", "close"} => cur[r].n = 0
         /\ cur[r].op \in {"text", "first", "last", "ping"} =>
              /\ cur[r].n \in DOMAIN Script[Other(r)] /\ cur[r].n # 0
              /\ Script[Other(r)][cur[r].n] = cur[r].op
  <1>1. Other(r) \in Ends /\ cur[r] \in FramesOf(Other(r)) \cup {NoFrame}
    BY Others DEF WholeInv, FramesInv, Received
  <1>2. cur[r] \in FramesOf(Other(r))
    BY <1>1 DEF NoFrame, Frame
  <1>3. cur[r] \in Frames /\ cur[r].n \in Nat
    BY <1>2, HasNumber DEF FramesOf
  <1>4. \A n \in DOMAIN Script[Other(r)] : n # 0 /\ Script[Other(r)][n] \in {"text", "first", "last", "ping"}
    <2>1. Script[Other(r)] \in Seq({"text", "first", "last", "ping"})
      BY <1>1, Typing DEF WholeInv, FramesInv
    <2> QED  BY <2>1
  <1> QED  BY <1>2, <1>3, <1>4 DEF FramesOf

LEMMA BehindHandled ==
  ASSUME WholeInv, NEW r \in Ends, NEW m \in Nat, Behind(r, m), GivenInOrder(r),
         next[r] = [op |-> "content", res |-> "ok"], cur[r].n \in Nat,
         wire'[r] = wire[r], Taken(r)' = 0,
         \/ cur[r].n = 0 /\ Heard(r)' = Heard(r)
         \/ cur[r].n # 0 /\ Heard(r)' = cur[r].n
         \/ /\ cur[r].n # 0 /\ Heard(r)' = Heard(r)
            /\ cur[r].n \in DOMAIN Script[Other(r)] /\ Script[Other(r)][cur[r].n] = "ping"
  PROVE  Behind(r, m)'
  <1>0. Heard(r) \in Nat
    BY HeardTyped
  <1>1. PICK k \in Nat : \E l \in Nat :
          /\ Caught(r, k)
          /\ (Taken(r) = 0 /\ l = k) \/ (Taken(r) = k + 1 /\ l = k + 1)
          /\ OnWire(wire[r], l, m)
    BY DEF Behind
  <1>2. PICK l \in Nat :
          /\ Caught(r, k)
          /\ (Taken(r) = 0 /\ l = k) \/ (Taken(r) = k + 1 /\ l = k + 1)
          /\ OnWire(wire[r], l, m)
    BY <1>1
  <1>3. Taken(r) = cur[r].n
    BY DEF Taken
  <1>4. OnWire(wire'[r], l, m)
    BY <1>2
  <1>5. Caught(r, l)'
    <2>1. CASE cur[r].n = 0 /\ Heard(r)' = Heard(r)
      <3>1. l = k
        BY <1>2, <1>3, <2>1
      <3> QED  BY <1>2, <2>1, <3>1 DEF Caught
    <2>2. CASE cur[r].n # 0 /\ Heard(r)' = cur[r].n
      <3>1. l = cur[r].n
        BY <1>2, <1>3, <2>2
      <3>2. (Heard(r)' + 1) .. l = {}
        BY <2>2, <3>1
      <3> QED  BY <2>2, <3>1, <3>2 DEF Caught
    <2>3. CASE /\ cur[r].n # 0 /\ Heard(r)' = Heard(r)
               /\ cur[r].n \in DOMAIN Script[Other(r)] /\ Script[Other(r)][cur[r].n] = "ping"
      <3>1. l = k + 1 /\ cur[r].n = k + 1
        BY <1>2, <1>3, <2>3
      <3>2. \A j \in (Heard(r) + 1) .. (k + 1) : j \in (Heard(r) + 1) .. k \/ j = k + 1
        BY <1>0
      <3>3. Heard(r) <= k + 1
        BY <1>0, <1>2 DEF Caught
      <3>4. \A j \in (Heard(r) + 1) .. (k + 1) :
              j \in DOMAIN Script[Other(r)] /\ Script[Other(r)][j] = "ping"
        BY <1>2, <2>3, <3>1, <3>2 DEF Caught
      <3> QED  BY <2>3, <3>1, <3>3, <3>4 DEF Caught
    <2> QED  BY <2>1, <2>2, <2>3
  <1>6. Caught(r, l)' /\ Taken(r)' = 0 /\ OnWire(wire'[r], l, m)
    BY <1>4, <1>5
  <1>7. l \in Nat /\ m \in Nat
    OBVIOUS
  <1> QED  BY <1>6, <1>7 DEF Behind

\* The data frame that has been read is the one that comes next.
LEMMA IsNext ==
  ASSUME OrderInv, NEW r \in Ends, next[r] = [op |-> "content", res |-> "ok"],
         cur[r].op \in {"text", "first", "last"}
  PROVE  NextData(Other(r), Heard(r), cur[r].n)
  <1>1. PICK m \in Nat : Behind(r, m)
    BY DEF OrderInv, Flow
  <1>2. PICK k \in Nat : Caught(r, k) /\ (Taken(r) = 0 \/ Taken(r) = k + 1)
    BY <1>1 DEF Behind
  <1>3. /\ cur[r].n \in DOMAIN Script[Other(r)] /\ cur[r].n # 0
        /\ Script[Other(r)][cur[r].n] = cur[r].op
    BY ReadFrame DEF OrderInv
  <1>4. cur[r].n = k + 1
    BY <1>2, <1>3 DEF Taken
  <1>5. Heard(r) \in Nat
    BY HeardTyped DEF OrderInv, InOrder
  <1>6. (cur[r].n) - 1 = k
    BY <1>4
  <1> QED  BY <1>2, <1>3, <1>4, <1>5, <1>6 DEF NextData, Caught

LEMMA NotFinal ==
  ASSUME WholeInv, NEW r \in Ends, GivenInOrder(r), fragmented[r] # <<>>
  PROVE  /\ Heard(r) \in DOMAIN Script[Other(r)] /\ Script[Other(r)][Heard(r)] = "first"
  <1>1. fragmented[r] \in Seq(Nat) /\ Script[Other(r)] \in Seq({"text", "first", "last", "ping"})
    BY Typing, Others DEF WholeInv, FramesInv
  <1> DEFINE s == fragmented[r]
  <1>2. Len(s) \in DOMAIN s /\ Heard(r) = s[Len(s)]
    BY <1>1 DEF Heard, Last
  <1>3. s[Len(s)] \in DOMAIN Script[Other(r)] /\ Script[Other(r)][s[Len(s)]] # "ping"
    BY <1>2 DEF GivenInOrder, InTurn, NextData
  <1>4. Script[Other(r)][s[Len(s)]] \notin {"text", "last"}
    BY <1>2 DEF GivenInOrder
  <1>5. Script[Other(r)][s[Len(s)]] \in {"text", "first", "last", "ping"}
    BY <1>1, <1>3
  <1> QED  BY <1>2, <1>3, <1>4, <1>5

\* A frame that is not the last of its message is kept.
LEMMA KeepsFragment ==
  ASSUME WholeInv, NEW r \in Ends, GivenInOrder(r), NEW n \in Nat, NextData(Other(r), Heard(r), n),
         ~Final(Other(r), n), delivered'[r] = delivered[r], fragmented'[r] = Append(fragmented[r], n)
  PROVE  GivenInOrder(r)' /\ Heard(r)' = n
  <1>0. fragmented[r] \in Seq(Nat) /\ LastGiven(r, Len(delivered[r])) \in Nat
    BY Typing, HeardTyped DEF WholeInv, FramesInv
  <1>1. \A i : LastGiven(r, i)' = LastGiven(r, i)
    BY DEF LastGiven
  <1>2. InTurn(Other(r), LastGiven(r, Len(delivered[r])), fragmented'[r])
    BY <1>0, InTurnAppend DEF GivenInOrder, Heard
  <1>3. \A j \in DOMAIN fragmented'[r] : ~Final(Other(r), fragmented'[r][j])
    <2>1. ASSUME NEW j \in DOMAIN fragmented'[r] PROVE ~Final(Other(r), fragmented'[r][j])
      <3>1. j \in DOMAIN fragmented[r] \/ j = Len(fragmented[r]) + 1
        BY <1>0
      <3>2. CASE j \in DOMAIN fragmented[r]
        <4>1. fragmented'[r][j] = fragmented[r][j]
          BY <1>0, <3>2
        <4> QED  BY <3>2, <4>1 DEF GivenInOrder, Final
      <3>3. CASE j = Len(fragmented[r]) + 1
        BY <1>0, <3>3
      <3> QED  BY <3>1, <3>2, <3>3
    <2> QED  BY <2>1
  <1>4. GivenInOrder(r)'
    <2>1. \A i \in DOMAIN delivered'[r] :
            /\ delivered'[r][i] # <<>> /\ InTurn(Other(r), LastGiven(r, i - 1)', delivered'[r][i])
            /\ \A j \in DOMAIN delivered'[r][i] :
                 j = Len(delivered'[r][i]) <=> Final(Other(r), delivered'[r][i][j])
      BY <1>1 DEF GivenInOrder, Final
    <2>2. InTurn(Other(r), LastGiven(r, Len(delivered[r]))', fragmented'[r])
      BY <1>1, <1>2
    <2> QED  BY <1>3, <2>1, <2>2 DEF GivenInOrder, Final
  <1>5. Heard(r)' = n
    BY <1>0 DEF Heard, Last
  <1> QED  BY <1>4, <1>5

LEMMA InTurnOne ==
  ASSUME NEW e, NEW h, NEW n, NextData(e, h, n)
  PROVE  InTurn(e, h, <<n>>)
  BY DEF InTurn

\* The fragments are continued: a message of the client's application does not come before
\* their last.
LEMMA Continued ==
  ASSUME MessagesApart, OrderInv, NEW r \in Ends, next[r] = [op |-> "content", res |-> "ok"],
         cur[r].op \in {"text", "last"}, fragmented[r] # <<>>
  PROVE  r = "client" \/ cur[r].op = "last"
  <1> SUFFICES ASSUME r = "server", cur[r].op = "text" PROVE FALSE
    OBVIOUS
  <1> DEFINE h == Heard(r)
             n == cur[r].n
  <1>1. Other(r) = "client" /\ GivenInOrder(r)
    BY DEF Other, OrderInv, InOrder
  <1>2. h \in DOMAIN Script["client"] /\ Script["client"][h] = "first"
    BY <1>1, NotFinal DEF OrderInv
  <1>3. /\ n \in DOMAIN Script["client"] /\ h < n
        /\ \A j \in (h + 1) .. (n - 1) : Script["client"][j] = "ping"
    BY <1>1, IsNext DEF NextData
  <1>4. Script["client"][n] = "text"
    BY <1>1, ReadFrame DEF OrderInv
  <1> HIDE DEF h, n
  <1>5. PICK k \in (h + 1) .. (n - 1) : Script["client"][k] = "last"
    BY <1>2, <1>3, <1>4 DEF MessagesApart
  <1> QED  BY <1>3, <1>5

LEMMA GivesAssembled ==
  ASSUME MessagesApart, OrderInv, NEW r \in Ends, next[r] = [op |-> "content", res |-> "ok"],
         cur[r].op \in {"text", "last"},
         delivered'[r] = Append(delivered[r], Assembled(r)), fragmented'[r] = <<>>
  PROVE  GivenInOrder(r)' /\ Heard(r)' = cur[r].n
  <1> DEFINE n == cur[r].n
             h == LastGiven(r, Len(delivered[r]))
             s == fragmented[r]
  <1>1. WholeInv /\ GivenInOrder(r)
    BY DEF OrderInv, InOrder
  <1>2. /\ NextData(Other(r), Heard(r), n) /\ Final(Other(r), n) /\ n \in Nat
    BY <1>1, IsNext, ReadFrame DEF Final
  <1>3. h \in Nat /\ s \in Seq(Nat)
    BY <1>1, HeardTyped, Typing DEF WholeInv, FramesInv
  <1>4. InTurn(Other(r), h, s) /\ \A j \in DOMAIN s : ~Final(Other(r), s[j])
    BY <1>1 DEF GivenInOrder, Final
  <1>5. PICK m : m = Assembled(r)
    OBVIOUS
  <1>6. CASE s = <<>>
    <2>1. m = <<n>> /\ Heard(r) = h
      BY <1>5, <1>6 DEF Assembled, Heard
    <2>2. InTurn(Other(r), h, m)
      BY <1>2, <2>1, InTurnOne
    <2>3. m \in Seq(Nat) /\ m # <<>> /\ Len(m) = 1 /\ DOMAIN m = {1} /\ m[1] = n /\ Last(m) = n
      BY <1>2, <2>1 DEF Last
    <2>4. \A j \in DOMAIN m : j = Len(m) <=> Final(Other(r), m[j])
      BY <1>2, <2>3
    <2>5. delivered'[r] = Append(delivered[r], m)
      BY <1>5
    <2> QED  BY <1>1, <2>2, <2>3, <2>4, <2>5, GivesMessage
  <1>7. CASE s # <<>>
    <2>1. m = Append(s, n) /\ Heard(r) = Last(s)
      BY <1>5, <1>7, Continued DEF Assembled, Heard
    <2>2. InTurn(Other(r), h, m)
      BY <1>2, <1>3, <1>4, <1>7, <2>1, InTurnAppend
    <2>3. /\ m \in Seq(Nat) /\ m # <<>> /\ Len(m) = Len(s) + 1 /\ DOMAIN m = 1 .. Len(s) + 1
          /\ m[Len(s) + 1] = n /\ \A j \in 1 .. Len(s) : m[j] = s[j] /\ j \in DOMAIN s
      BY <1>2, <1>3, <2>1
    <2>4. Last(m) = n
      BY <2>3 DEF Last
    <2>5. \A j \in DOMAIN m : j = Len(m) <=> Final(Other(r), m[j])
      <3> SUFFICES ASSUME NEW j \in 1 .. Len(s) + 1
                   PROVE  j = Len(s) + 1 <=> Final(Other(r), m[j])
        BY <2>3
      <3>0. Len(s) \in Nat
        BY <1>3
      <3>1. CASE j = Len(s) + 1
        BY <1>2, <2>3, <3>1
      <3>2. CASE j # Len(s) + 1
        <4>1. j \in 1 .. Len(s)
          BY <3>0, <3>2
        <4>2. ~Final(Other(r), m[j])
          BY <1>4, <2>3, <4>1
        <4> QED  BY <3>2, <4>2
      <3> QED  BY <3>1, <3>2
    <2>6. delivered'[r] = Append(delivered[r], m)
      BY <1>5
    <2> QED  BY <1>1, <2>2, <2>3, <2>4, <2>5, <2>6, GivesMessage
  <1> QED  BY <1>6, <1>7

LEMMA ContentOrder ==
  ASSUME MessagesApart, OrderInv, NEW r \in Ends, ContentHandler(r)
  PROVE  GivenInOrder(r)' /\ \A m \in Nat : Behind(r, m) => Behind(r, m)'
  <1> DEFINE n == cur[r].n
  <1>0. /\ WholeInv /\ GivenInOrder(r)
        /\ next \in [Ends -> [op : ReadOps, res : {"wait", "ok", "err", "-"}]]
        /\ fragmented \in [Ends -> Seq(Nat)] /\ delivered \in [Ends -> Seq(Seq(Nat))]
    BY Typing DEF OrderInv, InOrder, WholeInv, FramesInv
  <1>1. next[r] = [op |-> "content", res |-> "ok"] /\ UNCHANGED <<wire, cur>>
    BY DEF ContentHandler, Handler, network
  <1>2. CASE cur[r].op \in {"close", "ping", "pong"}
    <2>1. UNCHANGED <<delivered, fragmented>>
      BY <1>2 DEF ContentHandler, CloseAndEnd, End, told
    <2>2. Heard(r)' = Heard(r)
      BY <2>1 DEF Heard, LastGiven
    <2>3. GivenInOrder(r)'
      BY <1>0, <2>1 DEF GivenInOrder, LastGiven
    <2>4. n \in Nat /\ (cur[r].op # "ping" => n = 0)
          /\ (cur[r].op = "ping" => n # 0 /\ n \in DOMAIN Script[Other(r)] /\ Script[Other(r)][n] = "ping")
      BY <1>0, <1>2, ReadFrame
    <2>5. Taken(r)' = 0
      <3>1. CASE cur[r].op = "close"
        <4>1. Taken(r)' \in {0, cur'[r].n}
          BY DEF Taken
        <4> QED  BY <1>1, <2>4, <3>1, <4>1
      <3>2. CASE cur[r].op # "close"
        <4>1. next'[r] = Waiting("header")
          BY <1>0, <1>2, <3>2 DEF ContentHandler, Await
        <4> QED  BY <4>1 DEF Taken, Waiting
      <3> QED  BY <3>1, <3>2
    <2> QED  BY <1>0, <1>1, <2>2, <2>3, <2>4, <2>5, BehindHandled
  <1>3. CASE cur[r].op \in {"first", "text", "last"}
    <2>1. n \in Nat /\ n # 0 /\ Script[Other(r)][n] = cur[r].op
      BY <1>0, <1>3, ReadFrame
    <2>2. next'[r] = Waiting("header")
      BY <1>0, <1>3 DEF ContentHandler, Await
    <2>3. Taken(r)' = 0
      BY <2>2 DEF Taken, Waiting
    <2>4. GivenInOrder(r)' /\ Heard(r)' = n
      <3>1. CASE cur[r].op = "first"
        <4>1. fragmented'[r] = Append(fragmented[r], n) /\ delivered' = delivered
          BY <1>0, <3>1 DEF ContentHandler, told
        <4>2. ~Final(Other(r), n)
          BY <2>1, <3>1 DEF Final
        <4>3. NextData(Other(r), Heard(r), n)
          BY <1>1, <3>1, IsNext
        <4> QED  BY <1>0, <2>1, <4>1, <4>2, <4>3, KeepsFragment
      <3>2. CASE cur[r].op \in {"text", "last"}
        <4>1. delivered'[r] = Append(delivered[r], Assembled(r)) /\ fragmented'[r] = <<>>
          BY <1>0, <3>2 DEF ContentHandler
        <4> QED  BY <1>1, <3>2, <4>1, GivesAssembled
      <3> QED  BY <1>3, <3>1, <3>2
    <2> QED  BY <1>0, <1>1, <2>1, <2>3, <2>4, BehindHandled
  <1> QED  BY <1>2, <1>3 DEF ContentHandler

\* What end r reads and gives is as before, or r reads no more.
Listens(r) ==
  /\ GivenInOrder(r)'
  /\ next'[r].op = "none" \/ (next[r].op # "none" /\ \A m \in Nat : Behind(r, m) => Behind(r, m)')
Speaks(e) == \A m \in Nat : Ahead(e, m) => Ahead(e, m)'

OrderKept == InOrder' /\ \A r \in Ends : Flow(r)'

LEMMA BothKept ==
  ASSUME OrderInv, \A d \in Ends : Listens(d) /\ Speaks(d)
  PROVE  OrderKept
  <1>1. InOrder'
    BY DEF Listens, InOrder
  <1>2. ASSUME NEW r \in Ends, next'[r].op # "none" PROVE \E m \in Nat : Behind(r, m)' /\ Ahead(Other(r), m)'
    <2>1. PICK m \in Nat : Behind(r, m) /\ Ahead(Other(r), m)
      BY <1>2 DEF OrderInv, Flow, Listens
    <2> QED  BY <1>2, <2>1, Others DEF Listens, Speaks
  <1> QED  BY <1>1, <1>2 DEF OrderKept, Flow

LEMMA ReadsSame ==
  ASSUME OrderInv, NEW r \in Ends, wire'[r] = wire[r], cur'[r] = cur[r], delivered'[r] = delivered[r],
         fragmented'[r] = fragmented[r],
         \/ next'[r] = next[r] \/ next'[r].op = "none"
         \/ next[r].op # "none" /\ Taken(r)' = Taken(r)
  PROVE  Listens(r)
  <1>1. GivenInOrder(r)'
    BY DEF OrderInv, InOrder, GivenInOrder, LastGiven
  <1>2. next'[r] = next[r] => Taken(r)' = Taken(r)
    BY DEF Taken
  <1> QED  BY <1>1, <1>2, BehindSame DEF Listens

LEMMA WritesSame ==
  ASSUME OrderInv, [Next]_vars, NEW e \in Ends, posted'[e] = posted[e], send_queue'[e] = send_queue[e],
         wr'[e] = wr[e] \/ (wr[e].res = "wait" /\ wr'[e].res = "err"),
         count'[e] = count[e] \/ count'[e] > Len(Script[e])
  PROVE  Speaks(e)
  <1>1. Unsent(e)' = Unsent(e)
    BY DEF Unsent
  <1> QED  BY <1>1, AheadSame DEF OrderInv, Speaks

LEMMA WritesPosts ==
  ASSUME OrderInv, [Next]_vars, NEW e \in Ends, NEW f \in Frames, posted'[e] = Append(posted[e], f),
         send_queue'[e] = send_queue[e], wr'[e] = wr[e],
         \/ f.n = 0 /\ count'[e] = count[e]
         \/ f.n = count[e] + 1 /\ count'[e] = count[e] + 1 /\ count[e] <= Len(Script[e])
  PROVE  Speaks(e)
  <1>1. Unsent(e)' = Unsent(e)
    BY DEF Unsent
  <1> QED  BY <1>1, AheadPosts DEF OrderInv, Speaks

\* Only the chain of end e goes on.
LEMMA ReadersOrder ==
  ASSUME OrderInv, [Next]_vars, NEW e \in Ends,
         UNCHANGED <<wire, cur, delivered, fragmented, posted, send_queue, count>>,
         \A d \in Ends : wr'[d] = wr[d] \/ (wr[d].res = "wait" /\ wr'[d].res = "err"),
         \A d \in Ends : d # e => next'[d] = next[d],
         \/ next'[e] = next[e] \/ next'[e].op = "none"
         \/ next[e].op # "none" /\ Taken(e)' = Taken(e)
  PROVE  OrderKept
  <1>1. \A d \in Ends : Listens(d)
    BY ReadsSame
  <1>2. \A d \in Ends : Speaks(d)
    BY WritesSame
  <1> QED  BY <1>1, <1>2, BothKept

LEMMA ContentKept ==
  ASSUME MessagesApart, OrderInv, [Next]_vars, NEW e \in Ends, ContentHandler(e)
  PROVE  OrderKept
  <1> USE DEF reading, sending, network, history
  <1>0. /\ next \in [Ends -> [op : ReadOps, res : {"wait", "ok", "err", "-"}]]
        /\ posted \in [Ends -> Seq(Frames)]
        /\ fragmented \in [Ends -> Seq(Nat)] /\ delivered \in [Ends -> Seq(Seq(Nat))]
    BY Typing DEF OrderInv, WholeInv, FramesInv
  <1>1. next[e].op = "content" /\ UNCHANGED <<wire, cur, send_queue, wr, count>>
    BY DEF ContentHandler, Handler
  <1>2. \A d \in Ends : d # e =>
          next'[d] = next[d] /\ delivered'[d] = delivered[d] /\ fragmented'[d] = fragmented[d]
            /\ posted'[d] = posted[d]
    <2>1. \A d \in Ends : d # e => next'[d] = next[d]
      BY <1>0 DEF ContentHandler, CloseAndEnd, End, NoMore, Await
    <2>2. \A d \in Ends : d # e => delivered'[d] = delivered[d]
      BY <1>0 DEF ContentHandler, CloseAndEnd, End, told
    <2>3. \A d \in Ends : d # e => fragmented'[d] = fragmented[d]
      BY <1>0 DEF ContentHandler
    <2>4. \A d \in Ends : d # e => posted'[d] = posted[d]
      BY <1>0 DEF ContentHandler, Send
    <2> QED  BY <2>1, <2>2, <2>3, <2>4
  <1>3. posted'[e] = posted[e] \/ posted'[e] = Append(posted[e], Frame("pong", 0))
    BY <1>0 DEF ContentHandler, Send
  <1>4. Frame("pong", 0) \in Frames /\ Frame("pong", 0).n = 0
    BY DEF Frames, Frame
  <1>5. \A d \in Ends : Speaks(d)
    <2>1. Speaks(e)
      BY <1>1, <1>3, <1>4, WritesSame, WritesPosts
    <2>2. \A d \in Ends : d # e => Speaks(d)
      BY <1>1, <1>2, WritesSame
    <2> QED  BY <2>1, <2>2
  <1>6. Listens(e)
    BY <1>1, ContentOrder DEF Listens
  <1>7. \A d \in Ends : d # e => Listens(d)
    BY <1>1, <1>2, ReadsSame
  <1> QED  BY <1>5, <1>6, <1>7, BothKept

LEMMA StrandOrder ==
  ASSUME OrderInv, [Next]_vars, NEW e \in Ends, Strand(e)
  PROVE  OrderKept
  <1> USE DEF reading, network, history, message, told
  <1>a. NetInv
    BY DEF OrderInv, WholeInv, FramesInv
  <1>0. /\ wr \in [Ends -> Writes] /\ posted \in [Ends -> Seq(Frames)]
        /\ send_queue \in [Ends -> Seq(Frames)] /\ starts \in [Ends -> Nat]
    BY <1>a, Typing
  <1>1. UNCHANGED <<wire, cur, next, delivered, fragmented, count>>
    BY DEF Strand, Enqueue, StartWrite, HeaderWritten, MessageWritten, WriteFailed, QueueOnly
  <1>2. \A d \in Ends : d # e => wr'[d] = wr[d] /\ posted'[d] = posted[d] /\ send_queue'[d] = send_queue[d]
    BY <1>0 DEF Strand, Enqueue, StartWrite, HeaderWritten, MessageWritten, WriteFailed
  <1>3. \A d \in Ends : Listens(d)
    BY <1>1, ReadsSame
  <1>4. \A d \in Ends : d # e => Speaks(d)
    BY <1>1, <1>2, WritesSame
  <1>5. Speaks(e)
    <2>1. CASE Enqueue(e)
      BY <2>1, AheadEnqueue DEF OrderInv, Speaks
    <2>2. CASE StartWrite(e) \/ (e = "server" /\ HeaderWritten) \/ MessageWritten(e)
      <3>1. posted'[e] = posted[e]
        BY <2>2 DEF StartWrite, HeaderWritten, MessageWritten
      <3>2. Unsent(e)' = Unsent(e)
        <4>1. CASE StartWrite(e)
          <5>1. starts[e] \in Nat /\ starts[e] > 0 /\ wr'[e].res = "wait" /\ UNCHANGED send_queue
            BY <1>0, <4>1 DEF StartWrite
          <5>2. wr[e].op = "idle"
            BY <5>1 DEF OrderInv, WholeInv, FramesInv, NetInv, ToldInv, Typed, SendInv, OneWriter
          <5> QED  BY <5>1, <5>2 DEF Unsent
        <4>2. CASE e = "server" /\ HeaderWritten
          <5>1. wr[e].op = "header" /\ wr'[e].res = "wait" /\ UNCHANGED send_queue
            BY <1>0, <4>2 DEF HeaderWritten
          <5> QED  BY <5>1 DEF Unsent
        <4>3. CASE MessageWritten(e)
          <5>1. /\ wr[e].op = "message" /\ wr[e].res = "ok" /\ wr'[e].op = "idle"
                /\ send_queue'[e] = Tail(send_queue[e])
            BY <1>0, <4>3 DEF MessageWritten, IdleWrite
          <5> QED  BY <5>1 DEF Unsent
        <4> QED  BY <2>2, <4>1, <4>2, <4>3
      <3> QED  BY <1>1, <3>1, <3>2, AheadSame DEF OrderInv, Speaks
    <2>3. CASE WriteFailed(e)
      <3>1. Dead(e)
        BY <2>3 DEF OrderInv, WholeInv, FramesInv, Writing, WriteFailed
      <3> QED  BY <3>1, DeadStays DEF OrderInv, WholeInv, FramesInv, Speaks, Ahead
    <2> QED  BY <2>1, <2>2, <2>3 DEF Strand
  <1> QED  BY <1>3, <1>4, <1>5, BothKept

\* A control frame or a part of the handshake on the wire of r.
LEMMA ListensPut ==
  ASSUME OrderInv, NEW r \in Ends, NEW parts, wire'[r] = wire[r] \/ wire'[r] = wire[r] \o parts,
         next'[r] = next[r], cur'[r] = cur[r], delivered'[r] = delivered[r], fragmented'[r] = fragmented[r],
         \/ parts \in {<<Part("request", NoFrame)>>, <<Part("response", NoFrame)>>}
         \/ \E f \in Frames : parts = <<Part("header", f)>>
         \/ \E f \in Frames : f.n = 0 /\ parts = <<Part("header", f), Part("body", f)>>
         \/ \E f \in Frames : f.n = 0 /\ parts = <<Part("body", f)>>
  PROVE  Listens(r)
  <1>1. wire[r] \in Seq(Parts)
    BY Typing DEF OrderInv, WholeInv, FramesInv
  <1>2. Taken(r)' = Taken(r) /\ GivenInOrder(r)'
    BY DEF Taken, OrderInv, InOrder, GivenInOrder, LastGiven
  <1>3. ASSUME NEW l \in Nat, NEW m \in Nat, OnWire(wire[r], l, m) PROVE OnWire(wire[r] \o parts, l, m)
    <2>1. ASSUME NEW p \in Parts, parts = <<p>>, p.part # "body" \/ p.frame.n = 0
          PROVE  OnWire(wire[r] \o parts, l, m)
      <3>1. OnWire(Append(wire[r], p), l, m)
        BY <1>1, <1>3, <2>1, WireAppend
      <3>2. wire[r] \o parts = Append(wire[r], p)
        BY <1>1, <2>1
      <3> QED  BY <3>1, <3>2
    <2>2. CASE parts \in {<<Part("request", NoFrame)>>, <<Part("response", NoFrame)>>}
      <3>1. PICK q \in {"request", "response"} : parts = <<Part(q, NoFrame)>>
        BY <2>2
      <3>2. Part(q, NoFrame) \in Parts /\ Part(q, NoFrame).part # "body"
        BY DEF Part, Parts
      <3> QED  BY <2>1, <3>1, <3>2
    <2>3. CASE \E f \in Frames : parts = <<Part("header", f)>>
      <3>1. PICK f \in Frames : parts = <<Part("header", f)>>
        BY <2>3
      <3>2. Part("header", f) \in Parts /\ Part("header", f).part # "body"
        BY DEF Part, Parts
      <3> QED  BY <2>1, <3>1, <3>2
    <2>4. CASE \E f \in Frames : f.n = 0 /\ parts = <<Part("header", f), Part("body", f)>>
      <3>1. PICK f \in Frames : f.n = 0 /\ parts = <<Part("header", f), Part("body", f)>>
        BY <2>4
      <3> QED  BY <1>1, <1>3, <3>1, WirePair
    <2>5. CASE \E f \in Frames : f.n = 0 /\ parts = <<Part("body", f)>>
      <3>1. PICK f \in Frames : f.n = 0 /\ parts = <<Part("body", f)>>
        BY <2>5
      <3>2. Part("body", f) \in Parts /\ Part("body", f).frame.n = 0
        BY <3>1 DEF Part, Parts
      <3> QED  BY <2>1, <3>1, <3>2
    <2> QED  BY <2>2, <2>3, <2>4, <2>5
  <1>4. \A l \in Nat : \A m \in Nat : OnWire(wire[r], l, m) => OnWire(wire'[r], l, m)
    BY <1>3
  <1>5. \A m \in Nat : Behind(r, m) => Behind(r, m)'
    BY <1>2, <1>4, BehindPut
  <1> QED  BY <1>2, <1>5 DEF Listens

LEMMA SucceedsOrder ==
  ASSUME OrderInv, [Next]_vars, NEW e \in Ends, Succeeds(e)
  PROVE  OrderKept
  <1> USE DEF network
  <1>a. NetInv
    BY DEF OrderInv, WholeInv, FramesInv
  <1>0. /\ next \in [Ends -> [op : ReadOps, res : {"wait", "ok", "err", "-"}]]
        /\ cur \in [Ends -> Frames \cup {NoFrame}] /\ wire \in [Ends -> Seq(Parts)]
        /\ e \in Ends /\ Other(e) \in Ends /\ Other(Other(e)) = e /\ Other(e) # e
    BY <1>a, Typing, Others
  <1>1. /\ UNCHANGED <<posted, send_queue, wr, count, delivered, fragmented>>
        /\ next[e].res = "wait" /\ next[e].op # "none"
        /\ next'[e] = [op |-> next[e].op, res |-> "ok"] /\ \A d \in Ends : d # e => next'[d] = next[d]
    BY <1>0 DEF Succeeds, sending, message, told, history
  <1>2. \A d \in Ends : Speaks(d)
    BY <1>1, WritesSame
  <1>3. CASE next[e].op \in {"resolve", "connect", "accept", "write_request", "write_response"}
    <2>1. cur' = cur /\ wire'[e] = wire[e]
      BY <1>0, <1>3 DEF Succeeds, Put
    <2>2. Taken(e)' = Taken(e)
      BY <1>1, <1>3 DEF Taken
    <2>3. Listens(e)
      BY <1>1, <2>1, <2>2, ReadsSame
    <2>4. Listens(Other(e))
      <3>1. wire' = wire \/ \E p \in {"request", "response"} : Put(e, <<Part(p, NoFrame)>>)
        BY <1>3 DEF Succeeds
      <3>2. \/ wire'[Other(e)] = wire[Other(e)]
            \/ \E p \in {"request", "response"} : wire'[Other(e)] = wire[Other(e)] \o <<Part(p, NoFrame)>>
        BY <1>0, <3>1 DEF Put
      <3> QED  BY <1>0, <1>1, <2>1, <3>2, ListensPut, ReadsSame
    <2> QED  BY <1>2, <2>3, <2>4, Others, BothKept
  <1>4. CASE next[e].op \in {"read_request", "read_response", "header", "content"}
    <2>1. PICK p \in {"request", "response", "header", "body"} :
            /\ Take(e, p)
            /\ p = "body" <=> next[e].op = "content"
            /\ cur' = [cur EXCEPT ![e] = Head(wire[e]).frame] \/ UNCHANGED cur
            /\ p = "body" => UNCHANGED cur
      BY <1>4 DEF Succeeds
    <2>2. /\ wire'[Other(e)] = wire[Other(e)] /\ cur'[Other(e)] = cur[Other(e)]
      BY <1>0, <2>1 DEF Take
    <2>3. Listens(Other(e))
      BY <1>0, <1>1, <2>2, ReadsSame
    <2>4. IF p = "body" THEN Taken(e) = 0 /\ Taken(e)' = Head(wire[e]).frame.n ELSE Taken(e)' = Taken(e)
      <3>1. CASE p = "body"
        <4>1. LastRead(e) = Part("header", cur[e])
          BY <1>1, <2>1, <3>1 DEF LastRead
        <4>2. Matched(e)
          BY <1>1 DEF OrderInv, WholeInv, Whole
        <4>3. 1 \in 1 .. Len(wire[e]) /\ Head(wire[e]) = wire[e][1] /\ Head(wire[e]).part = "body"
          <5>1. wire[e] \in Seq(Parts) /\ wire[e] # <<>> /\ Head(wire[e]).part = p
            BY <1>0, <2>1 DEF Take
          <5> QED  BY <3>1, <5>1
        <4>4. Follows(wire[e][1], LastRead(e))
          BY <4>2, <4>3 DEF Matched, Before
        <4>5. Head(wire[e]).frame = cur[e]
          BY <4>1, <4>3, <4>4 DEF Follows, Part
        <4> QED  BY <1>1, <2>1, <3>1, <4>5 DEF Taken
      <3>2. CASE p # "body"
        BY <1>1, <2>1, <3>2 DEF Taken
      <3> QED  BY <3>1, <3>2
    <2>5. \A m \in Nat : Behind(e, m) => Behind(e, m)'
      BY <1>1, <2>1, <2>4, BehindTake DEF OrderInv
    <2>6. GivenInOrder(e)'
      BY <1>1 DEF OrderInv, InOrder, GivenInOrder, LastGiven
    <2>7. Listens(e)
      BY <1>1, <2>5, <2>6 DEF Listens
    <2> QED  BY <1>2, <2>3, <2>7, Others, BothKept
  <1> QED
    <2>1. next[e].op \in HandshakeOps(e) \cup {"header", "content", "none"}
      BY <1>0, <1>a DEF NetInv, ToldInv, Life
    <2> QED  BY <1>1, <1>3, <1>4, <2>1 DEF HandshakeOps

LEMMA UnmaskedOrder ==
  ASSUME OrderInv, [Next]_vars, NEW e \in Ends, SendsUnmasked(e)
  PROVE  OrderKept
  <1> DEFINE f == Frame("bad", 0)
             parts == <<Part("header", f), Part("body", f)>>
  <1>a. WholeInv /\ NetInv
    BY DEF OrderInv, WholeInv, FramesInv
  <1>0. /\ wire \in [Ends -> Seq(Parts)] /\ count \in [Ends -> Nat]
        /\ e \in Ends /\ Other(e) \in Ends /\ Other(Other(e)) = e /\ Other(e) # e
        /\ Len(Script[e]) \in Nat
    BY <1>a, Typing, Others, Counts
  <1>1. /\ UNCHANGED <<posted, send_queue, wr, delivered, fragmented, next, cur>> /\ Put(e, parts)
        /\ count'[e] > Len(Script[e]) /\ \A d \in Ends : d # e => count'[d] = count[d]
    BY <1>0 DEF SendsUnmasked, reading, sending, message, told
  <1>2. \A d \in Ends : Speaks(d)
    BY <1>1, WritesSame
  <1>3. f \in Frames /\ f.n = 0
    BY DEF Frame, Frames
  <1>4. Listens(Other(e))
    <2>1. wire'[Other(e)] = wire[Other(e)] \/ wire'[Other(e)] = wire[Other(e)] \o parts
      BY <1>0, <1>1 DEF Put
    <2> QED  BY <1>0, <1>1, <1>3, <2>1, ListensPut
  <1>5. Listens(e)
    <2>1. wire'[e] = wire[e]
      BY <1>0, <1>1 DEF Put
    <2> QED  BY <1>1, <2>1, ReadsSame
  <1> QED  BY <1>2, <1>4, <1>5, Others, BothKept

\* The message of a frame is written: it is on the wire and not in the queue any more.
LEMMA MessageOrder ==
  ASSUME OrderInv, [Next]_vars, NEW e \in Ends, Written(e), wr[e].op = "message"
  PROVE  Flow(Other(e))'
  <1> DEFINE r == Other(e)
             f == Head(send_queue[e])
             parts == IF e = "client" THEN <<Part("header", f), Part("body", f)>> ELSE <<Part("body", f)>>
  <1>a. WholeInv /\ FramesInv /\ NetInv
    BY DEF OrderInv, WholeInv, FramesInv
  <1>0. /\ wr \in [Ends -> Writes] /\ wire \in [Ends -> Seq(Parts)] /\ send_queue \in [Ends -> Seq(Frames)]
        /\ r \in Ends /\ Other(r) = e /\ r # e
    BY <1>a, Typing, Others
  <1>1. /\ wr[e].res = "wait" /\ Up(e) /\ UNCHANGED <<link, socket, next, cur, delivered, fragmented>>
        /\ UNCHANGED <<posted, send_queue, count>>
    BY DEF Written, reading, message, told, history
  <1>2. wr[e].frame = f /\ send_queue[e] # <<>> /\ f \in Frames
    BY <1>0, <1>a, HasFrame DEF FramesInv, Writing, FramesOf
  <1>3. Put(e, parts)
    BY <1>2 DEF Written
  <1>4. wr'[e].op = "message" /\ wr'[e].res = "ok"
    BY <1>0 DEF Written, Writes, IdleWrite
  <1>5. Unsent(e) = send_queue[e] /\ Unsent(e)' = Tail(send_queue[e])
    BY <1>1, <1>4 DEF Unsent
  <1> SUFFICES ASSUME next'[r].op # "none" PROVE \E m \in Nat : Behind(r, m)' /\ Ahead(e, m)'
    BY <1>0 DEF Flow
  <1>6. PICK m \in Nat : Behind(r, m) /\ Ahead(e, m)
    BY <1>0, <1>1 DEF OrderInv, Flow
  <1>7. Taken(r)' = Taken(r)
    BY <1>1 DEF Taken
  <1>8. CASE Left(r)
    <2>1. ~InHandshake(e)
      <3>1. wr[e] # IdleWrite
        BY DEF IdleWrite
      <3> QED  BY <1>a, <3>1, OverIf
    <2>2. Dead(e)
      BY <1>8, <2>1 DEF Dead
    <2>3. Ahead(e, m)'
      BY <1>a, <2>2, DeadStays DEF Ahead
    <2>4. Behind(r, m)'
      <3>1. wire' = wire
        BY <1>3, <1>8 DEF Put
      <3> QED  BY <1>0, <1>1, <1>6, <1>7, <3>1, BehindSame
    <2> QED  BY <2>3, <2>4
  <1>9. CASE ~Left(r)
    <2>1. wire'[r] = wire[r] \o parts /\ wire[r] \in Seq(Parts)
      BY <1>0, <1>3, <1>9 DEF Put
    <2> HIDE DEF r, f
    <2>2. ~Dead(e)
      BY <1>1, <1>9 DEF Dead, r
    <2>3. PICK k \in Nat : \E l \in Nat :
            /\ InLine(Unsent(e), m, k) /\ InLine(posted[e], k, l)
            /\ l = count[e] \/ count[e] > Len(Script[e])
      BY <1>6, <2>2 DEF Ahead
    <2>4. PICK l \in Nat :
            /\ InLine(Unsent(e), m, k) /\ InLine(posted[e], k, l)
            /\ l = count[e] \/ count[e] > Len(Script[e])
      BY <2>3
    <2>5. PICK x \in Nat : /\ (x = m /\ f.n = 0) \/ (x = m + 1 /\ f.n = m + 1)
                           /\ InLine(Tail(send_queue[e]), x, k)
      <3>1. /\ f.n = 0 => InLine(Tail(send_queue[e]), m, k)
            /\ f.n # 0 => f.n = m + 1 /\ InLine(Tail(send_queue[e]), m + 1, k)
        BY <1>0, <1>2, <1>5, <2>4, LineTail DEF f
      <3> QED  BY <3>1
    <2>6. Ahead(e, x)'
      BY <1>1, <1>5, <2>4, <2>5 DEF Ahead
    <2>7. \A i \in Nat : OnWire(wire[r], i, m) => OnWire(wire'[r], i, x)
      <3> SUFFICES ASSUME NEW i \in Nat, OnWire(wire[r], i, m) PROVE OnWire(wire[r] \o parts, i, x)
        BY <2>1
      <3>1. CASE e = "client"
        BY <1>2, <2>1, <2>5, <3>1, WirePair
      <3>2. CASE e # "client"
        <4>1. Part("body", f) \in Parts /\ Part("body", f).part = "body" /\ Part("body", f).frame = f
          BY <1>2 DEF Part, Parts
        <4>2. wire[r] \o parts = Append(wire[r], Part("body", f))
          BY <2>1, <3>2, <4>1
        <4>3. /\ f.n = 0 => OnWire(Append(wire[r], Part("body", f)), i, m)
              /\ f.n = m + 1 => OnWire(Append(wire[r], Part("body", f)), i, m + 1)
          BY <2>1, <4>1, WireAppend
        <4> QED  BY <2>5, <4>2, <4>3
      <3> QED  BY <3>1, <3>2
    <2>8. Behind(r, x)'
      BY <1>0, <1>1, <1>6, <1>7, <2>7, BehindPut
    <2> QED  BY <2>6, <2>8
  <1> QED  BY <1>8, <1>9

LEMMA WrittenOrder ==
  ASSUME OrderInv, [Next]_vars, NEW e \in Ends, Written(e)
  PROVE  OrderKept
  <1>a. WholeInv /\ FramesInv /\ NetInv
    BY DEF OrderInv, WholeInv, FramesInv
  <1>0. /\ wr \in [Ends -> Writes] /\ wire \in [Ends -> Seq(Parts)]
        /\ e \in Ends /\ Other(e) \in Ends /\ Other(Other(e)) = e /\ Other(e) # e
    BY <1>a, Typing, Others
  <1>1. /\ wr[e].res = "wait" /\ UNCHANGED <<next, cur, delivered, fragmented, posted, send_queue, count>>
        /\ \A d \in Ends : d # e => wr'[d] = wr[d]
    BY <1>0 DEF Written, reading, message, told, history
  <1>2. wr[e].op \in {"header", "message"}
    BY <1>0, <1>1 DEF Writes, IdleWrite
  <1>3. Speaks(Other(e))
    BY <1>0, <1>1, WritesSame
  <1>4. Listens(e)
    <2>1. wire'[e] = wire[e]
      BY <1>0 DEF Written, Put
    <2> QED  BY <1>1, <2>1, ReadsSame
  <1>5. CASE wr[e].op = "header"
    <2>1. e = "server" /\ wr[e].frame \in Frames
      BY <1>0, <1>5, <1>a DEF FramesInv, Writing, Writes, IdleWrite
    <2>2. Speaks(e)
      <3>1. wr'[e].op = "header"
        BY <1>0, <1>5 DEF Written, Writes, IdleWrite
      <3>2. Unsent(e)' = Unsent(e)
        BY <1>1, <1>5, <3>1 DEF Unsent
      <3> QED  BY <1>1, <3>2, AheadSame DEF OrderInv, Speaks
    <2>3. Put(e, <<Part("header", wr[e].frame)>>)
      BY <1>5, <2>1 DEF Written
    <2>4. \/ wire'[Other(e)] = wire[Other(e)]
          \/ wire'[Other(e)] = wire[Other(e)] \o <<Part("header", wr[e].frame)>>
      BY <1>0, <2>3 DEF Put
    <2>5. Listens(Other(e))
      BY <1>0, <1>1, <2>1, <2>4, ListensPut
    <2> QED  BY <1>3, <1>4, <2>2, <2>5, Others, BothKept
  <1>6. CASE wr[e].op = "message"
    <2>1. Flow(Other(e))'
      BY <1>6, MessageOrder
    <2>2. Flow(e)'
      <3> SUFFICES ASSUME next'[e].op # "none"
                   PROVE  \E m \in Nat : Behind(e, m)' /\ Ahead(Other(e), m)'
        BY DEF Flow
      <3>1. PICK m \in Nat : Behind(e, m) /\ Ahead(Other(e), m)
        BY <1>1 DEF OrderInv, Flow
      <3> QED  BY <1>3, <1>4, <3>1 DEF Listens, Speaks
    <2>3. InOrder'
      BY <1>1 DEF OrderInv, InOrder, GivenInOrder, LastGiven
    <2> QED  BY <2>1, <2>2, <2>3, Others DEF OrderKept
  <1> QED  BY <1>2, <1>5, <1>6

LEMMA OrderNext ==
  ASSUME MessagesApart, OrderInv, [Next]_vars
  PROVE  OrderKept
  <1> USE DEF reading, sending, network, message, told, history
  <1>a. NetInv
    BY DEF OrderInv, WholeInv, FramesInv
  <1>0. /\ next \in [Ends -> [op : ReadOps, res : {"wait", "ok", "err", "-"}]]
        /\ wr \in [Ends -> Writes] /\ posted \in [Ends -> Seq(Frames)] /\ count \in [Ends -> Nat]
    BY <1>a, Typing
  <1>1. CASE UNCHANGED vars
    BY <1>1, ReadersOrder DEF vars
  <1>2. CASE Breaks
    BY <1>2, ReadersOrder DEF Breaks
  <1>3. ASSUME NEW e \in Ends, Step(e) PROVE OrderKept
    <2>1. CASE ReadMessage(e)
      <3>1. /\ next[e] = [op |-> "header", res |-> "ok"]
            /\ UNCHANGED <<wire, cur, delivered, fragmented, posted, send_queue, count, wr>>
        BY <2>1 DEF ReadMessage, Handler, CloseAndEnd, End
      <3>2. \/ next' = [next EXCEPT ![e] = Waiting("content")] \/ next' = next
            \/ next' = [next EXCEPT ![e] = [op |-> "none", res |-> "-"]]
        BY <2>1 DEF ReadMessage, CloseAndEnd, End, NoMore, Await
      <3>3. \A d \in Ends : d # e => next'[d] = next[d]
        BY <1>0, <3>2
      <3>4. next'[e] \in {Waiting("content"), next[e], [op |-> "none", res |-> "-"]}
        BY <1>0, <3>2
      <3>5. next'[e] = Waiting("content") => Taken(e)' = Taken(e)
        BY <3>1 DEF Taken, Waiting
      <3> QED  BY <3>1, <3>3, <3>4, <3>5, ReadersOrder
    <2>2. CASE ContentHandler(e)
      BY <2>2, ContentKept
    <2>3. CASE ConnectionOpen(e)
      <3>1. /\ next[e].op \in HandshakeOps(e) /\ next' = [next EXCEPT ![e] = Waiting("header")]
            /\ UNCHANGED <<wire, cur, delivered, fragmented, posted, send_queue, count, wr>>
        BY <2>3 DEF ConnectionOpen, Handler, HandshakeOps, Await
      <3>2. next'[e] = Waiting("header") /\ \A d \in Ends : d # e => next'[d] = next[d]
        BY <1>0, <3>1
      <3>3. next[e].op # "none" /\ Taken(e)' = Taken(e)
        BY <3>1, <3>2 DEF Taken, HandshakeOps, Waiting
      <3> QED  BY <3>1, <3>2, <3>3, ReadersOrder
    <2>4. CASE ConnectionError(e)
      <3>1. /\ next' = [next EXCEPT ![e] = [op |-> "none", res |-> "-"]]
            /\ UNCHANGED <<wire, cur, delivered, fragmented, posted, send_queue, count, wr>>
        BY <2>4 DEF ConnectionError, End, NoMore
      <3>2. next'[e].op = "none" /\ \A d \in Ends : d # e => next'[d] = next[d]
        BY <1>0, <3>1
      <3> QED  BY <3>1, <3>2, ReadersOrder
    <2>5. CASE \E a \in Actors : SetClosed(e, a)
      <3>1. /\ next' = next \/ next' = [next EXCEPT ![e] = [op |-> "none", res |-> "-"]]
            /\ UNCHANGED <<wire, cur, delivered, fragmented, send_queue, count, wr>>
            /\ posted' = [posted EXCEPT ![e] = Append(@, Frame("close", 0))]
        BY <2>5 DEF SetClosed, End, NoMore, Send
      <3>2. /\ \A d \in Ends : next'[d] = next[d] \/ next'[d].op = "none"
            /\ \A d \in Ends : d # e => posted'[d] = posted[d]
            /\ posted'[e] = Append(posted[e], Frame("close", 0))
        BY <1>0, <3>1
      <3>3. \A d \in Ends : Listens(d)
        BY <3>1, <3>2, ReadsSame
      <3>4. Frame("close", 0) \in Frames /\ Frame("close", 0).n = 0
        BY DEF Frame, Frames
      <3>5. Speaks(e)
        BY <3>1, <3>2, <3>4, WritesPosts
      <3>6. \A d \in Ends : d # e => Speaks(d)
        BY <3>1, <3>2, WritesSame
      <3> QED  BY <3>3, <3>5, <3>6, BothKept
    <2>6. CASE AcceptHandler \/ RequestHandler \/ HandshakeDropped
                 \/ ResolveHandler \/ ConnectHandler \/ WriteRequestHandler
      <3>1. PICK d \in Ends : /\ next[d].op \in HandshakeOps(d)
                              /\ (\E op \in HandshakeOps(d) : Await(d, op)) \/ NoMore(d)
        <4>1. CASE AcceptHandler \/ RequestHandler \/ HandshakeDropped
          BY <4>1 DEF AcceptHandler, RequestHandler, HandshakeDropped, Handler, HandshakeOps
        <4>2. CASE ResolveHandler \/ ConnectHandler \/ WriteRequestHandler
          BY <4>2 DEF ResolveHandler, ConnectHandler, WriteRequestHandler, Handler, HandshakeOps
        <4> QED  BY <2>6, <4>1, <4>2
      <3>2. UNCHANGED <<wire, cur, delivered, fragmented, posted, send_queue, count, wr>>
        BY <2>6 DEF AcceptHandler, RequestHandler, HandshakeDropped, ResolveHandler, ConnectHandler,
                    WriteRequestHandler, HandshakeOnly
      <3>3. /\ next'[d].op \in HandshakeOps(d) \/ next'[d].op = "none"
            /\ \A x \in Ends : x # d => next'[x] = next[x]
        BY <1>0, <3>1 DEF Await, NoMore, Waiting
      <3>4. next[d].op # "none" /\ (next'[d].op \in HandshakeOps(d) => Taken(d)' = Taken(d))
        BY <3>1 DEF Taken, HandshakeOps
      <3> QED  BY <3>2, <3>3, <3>4, ReadersOrder
    <2>7. CASE Strand(e)
      BY <2>7, StrandOrder
    <2>8. CASE Succeeds(e)
      BY <2>8, SucceedsOrder
    <2>9. CASE Fails(e)
      <3>1. /\ next[e].res = "wait" /\ next' = [next EXCEPT ![e].res = "err"]
            /\ UNCHANGED <<wire, cur, delivered, fragmented, posted, send_queue, count, wr>>
        BY <2>9 DEF Fails
      <3>2. next'[e] = [op |-> next[e].op, res |-> "err"] /\ \A d \in Ends : d # e => next'[d] = next[d]
        BY <1>0, <3>1
      <3>3. Taken(e)' = Taken(e) /\ (next'[e].op = "none" <=> next[e].op = "none")
        BY <3>1, <3>2 DEF Taken
      <3> QED  BY <3>1, <3>2, <3>3, ReadersOrder
    <2>10. CASE Written(e)
      BY <2>10, WrittenOrder
    <2>11. CASE WriteBreaks(e)
      <3>1. /\ UNCHANGED <<wire, cur, delivered, fragmented, posted, send_queue, count, next>>
            /\ wr[e].res = "wait" /\ wr' = [wr EXCEPT ![e].res = "err"]
        BY <2>11 DEF WriteBreaks
      <3>2. \A d \in Ends : wr'[d] = wr[d] \/ (wr[d].res = "wait" /\ wr'[d].res = "err")
        <4>1. \A d \in Ends : d # e => wr'[d] = wr[d]
          BY <1>0, <3>1
        <4>2. wr'[e].res = "err"
          BY <1>0, <3>1 DEF Writes, IdleWrite
        <4> QED  BY <3>1, <4>1, <4>2
      <3> QED  BY <3>1, <3>2, ReadersOrder
    <2>12. CASE SendsUnmasked(e)
      BY <2>12, UnmaskedOrder
    <2>13. CASE AppSends(e)
      <3> DEFINE f == Frame(Script[e][count[e] + 1], count[e] + 1)
      <3>1. f \in Frames /\ f.n = count[e] + 1 /\ count[e] <= Len(Script[e])
        <4>1. f \in Frames /\ count[e] \in Nat /\ count[e] < Len(Script[e])
          BY <1>a, <2>13, AppFrame DEF FramesOf
        <4>2. Len(Script[e]) \in Nat
          BY Counts DEF OrderInv
        <4>3. f.n = count[e] + 1
          BY DEF Frame
        <4> QED  BY <4>1, <4>2, <4>3
      <3>2. /\ UNCHANGED <<wire, cur, delivered, fragmented, send_queue, wr, next>>
            /\ posted' = [posted EXCEPT ![e] = Append(@, f)] /\ count' = [count EXCEPT ![e] = @ + 1]
        BY <2>13 DEF AppSends, Send
      <3> HIDE DEF f
      <3>3. /\ \A d \in Ends : d # e => posted'[d] = posted[d] /\ count'[d] = count[d]
            /\ posted'[e] = Append(posted[e], f) /\ count'[e] = count[e] + 1
        BY <1>0, <3>2
      <3>4. \A d \in Ends : Listens(d)
        BY <3>2, ReadsSame
      <3>5. Speaks(e)
        BY <3>1, <3>2, <3>3, WritesPosts
      <3>6. \A d \in Ends : d # e => Speaks(d)
        BY <3>2, <3>3, WritesSame
      <3> QED  BY <3>4, <3>5, <3>6, BothKept
    <2>14. CASE AppCloses(e) \/ ConnectThrows \/ Timers(e) \/ Closing(e)
      BY <2>14, ReadersOrder
      DEF AppCloses, ConnectThrows, Timers, TimerExpires, TimerHandler, Closing, StopService, Exit,
          Destroyed
    <2>15. CASE Stop(e)
      <3>1. /\ UNCHANGED <<wire, cur, delivered, fragmented, posted, send_queue, count, wr>>
            /\ next' = next \/ (next[e] = Waiting("accept") /\ next' = [next EXCEPT ![e].res = "err"])
        BY <2>15 DEF Stop
      <3>2. /\ \A d \in Ends : d # e => next'[d] = next[d]
            /\ next'[e] = next[e] \/ (next[e].op = "accept" /\ next'[e].op = "accept")
        BY <1>0, <3>1 DEF Waiting
      <3>3. next[e].op = "accept" /\ next'[e].op = "accept" => next[e].op # "none" /\ Taken(e)' = Taken(e)
        BY DEF Taken
      <3> QED  BY <3>1, <3>2, <3>3, ReadersOrder
    <2> QED
      BY <1>3, <2>1, <2>2, <2>3, <2>4, <2>5, <2>6, <2>7, <2>8, <2>9, <2>10, <2>11, <2>12, <2>13,
         <2>14, <2>15
      DEF Step, Strand, Timers, Closing
  <1> QED  BY <1>1, <1>2, <1>3, StepCases

LEMMA OrderInit == Init => OrderInv
  <1> SUFFICES ASSUME Init PROVE OrderInv
    OBVIOUS
  <1>1. WholeInv
    BY WholeInit
  <1>2. \A r \in Ends : /\ wire[r] = <<>> /\ next[r].op \in {"accept", "resolve"} /\ wr[r] = IdleWrite
                        /\ delivered[r] = <<>> /\ fragmented[r] = <<>> /\ count[r] = 0
                        /\ posted[r] = <<>> /\ send_queue[r] = <<>>
    BY DEF Init, Each, Waiting
  <1>3. \A r \in Ends : GivenInOrder(r) /\ Heard(r) = 0 /\ Taken(r) = 0 /\ Unsent(r) = <<>>
    BY <1>2 DEF GivenInOrder, Heard, Taken, Unsent, LastGiven, InTurn, IdleWrite
  <1>4. \A r \in Ends : Caught(r, 0)
    BY <1>3 DEF Caught
  <1>5. InLine(<<>>, 0, 0) /\ OnWire(<<>>, 0, 0)
    BY LineEmpty
  <1>6. \A r \in Ends : Behind(r, 0)
    BY <1>2, <1>3, <1>4, <1>5 DEF Behind
  <1>7. \A r \in Ends : Ahead(r, 0)
    BY <1>2, <1>3, <1>5 DEF Ahead
  <1>8. \A r \in Ends : Flow(r)
    BY <1>6, <1>7, Others DEF Flow
  <1> QED  BY <1>1, <1>3, <1>8 DEF OrderInv, InOrder

LEMMA OrderInvNext == ASSUME MessagesApart PROVE OrderInv /\ [Next]_vars => OrderInv'
  BY WholeInvNext, OrderNext DEF OrderInv, OrderKept

\* ws/server.h:645-717, ws/client.h:611-646: the messages an application is given are those the
\* other has sent, in order, none missing and each with its fragments, whatever is sent between
\* them, whatever fails, and for any limits, timeouts and numbers of threads.
THEOREM MessagesInOrder == ASSUME MessagesApart PROVE Spec => []InOrder
  <1>1. OrderInv => InOrder
    BY DEF OrderInv
  <1> QED  BY OrderInit, OrderInvNext, <1>1, PTL DEF Spec
=============================================================================
