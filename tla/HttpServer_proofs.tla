--------------------------- MODULE HttpServer_proofs ---------------------------
(***************************************************************************)
(* The safety of the HTTP server for any number of connections and any       *)
(* requests made on them.                                                   *)
(*                                                                         *)
(* What a connection has read, handled and answered is right at each place   *)
(* of the chain of its operations (ConnOK): WholeRequest and TurnsSpec       *)
(* follow from it.  SetIsExact is inductive once it is known that stop() is   *)
(* called on an open acceptor unless the destructor calls it (StopOK).        *)
(***************************************************************************)
EXTENDS HttpServer, TLAPS

-----------------------------------------------------------------------------
(* Types, in groups of variables that change together.                       *)

ServerOK ==
  /\ case \in Cases
  /\ acceptor \in BOOLEAN
  /\ accepting \in {"none", "armed", "aborted", "posted", "failed"}
  /\ connections \subseteq Peers \cup {"waiting"}
  /\ stopping \in {"no", "acceptor", "cleared", "done"} /\ runner \in BOOLEAN
  /\ fate \in {"up", "timer"}

PhaseOK  == phase \in [Peers -> Phases] /\ done \in [Peers -> {"no", "ok", "error"}]
SocketOK == socket \in [Peers -> {"none", "late", "open", "closed", "moved"}]
TimersOK == timer \in [Peers -> BOOLEAN] /\ due \in [Peers -> BOOLEAN]
PeerOK   == peer \in [Peers -> {"idle", "open", "stuck", "gone"}]
SendsOK  == sends \in [Peers -> 0 .. MaxSends]

NumbersOK ==
  /\ got \in [Peers -> Nat] /\ taken \in [Peers -> Nat] /\ sent \in [Peers -> Nat]
  /\ req \in [Peers -> Nat] /\ handled \in [Peers -> Nat] /\ answered \in [Peers -> Nat]
  /\ refused \in [Peers -> BOOLEAN]

Typed ==
  ServerOK /\ PhaseOK /\ SocketOK /\ TimersOK /\ PeerOK /\ SendsOK /\ NumbersOK

LEMMA InitTyped == Init => Typed
  BY SendsAssumption
  DEF Init, Typed, ServerOK, PhaseOK, SocketOK, TimersOK, PeerOK, SendsOK, NumbersOK, Phases

\* A step on connection c writes each location of c only.
LEMMA PhaseType == ASSUME PhaseOK, NEW c \in Peers, Step(c) PROVE PhaseOK'
<1>1. /\ UNCHANGED phase \/ \E p \in Phases : phase' = [phase EXCEPT ![c] = p]
      /\ UNCHANGED done \/ \E r \in {"no", "ok", "error"} : done' = [done EXCEPT ![c] = r]
      BY DEF Step, Progress, Accepted, Finish, SendPart, AcceptHandler, Accept, FirstRead, Receives, Written, Fails,
             Completes, Left, HeaderHandler, ContentHandler, SizeHandler, DataHandler, Release, PartHandler,
             SendHandler, TimerExpires, TimerHandler, PeerStep, Connects, Asks, Leaves, Begin, Read, Chunk,
             FindResource, Refuse, ReadMore, NotUnderstood, Drop, Delete, SetTimeout, CancelTimeout, accepts,
             reads, timers, peers, answers, service, Phases, Reading, Writing
<1> QED BY <1>1 DEF PhaseOK

LEMMA SocketType == ASSUME SocketOK, NEW c \in Peers, Step(c) PROVE SocketOK'
<1>1. UNCHANGED socket \/ \E s \in {"none", "late", "open", "closed", "moved"} : socket' = [socket EXCEPT ![c] = s]
      BY DEF Step, Progress, Accepted, Finish, SendPart, AcceptHandler, Accept, FirstRead, Receives, Written, Fails,
             Completes, Left, HeaderHandler, ContentHandler, SizeHandler, DataHandler, Release, PartHandler,
             SendHandler, TimerExpires, TimerHandler, PeerStep, Connects, Asks, Leaves, Begin, Read, Chunk,
             FindResource, Refuse, ReadMore, NotUnderstood, Drop, Delete, SetTimeout, CancelTimeout, accepts,
             reads, timers, peers, answers, service, SocketOK
<1> QED BY <1>1 DEF SocketOK

LEMMA TimersType == ASSUME TimersOK, NEW c \in Peers, Step(c) PROVE TimersOK'
<1>1. /\ UNCHANGED timer \/ \E b \in BOOLEAN : timer' = [timer EXCEPT ![c] = b]
      /\ UNCHANGED due \/ \E b \in BOOLEAN : due' = [due EXCEPT ![c] = b]
      BY FlagsAssumption DEF Step, Progress, Accepted, Finish, SendPart, AcceptHandler, Accept, FirstRead, Receives, Written, Fails,
             Completes, Left, HeaderHandler, ContentHandler, SizeHandler, DataHandler, Release, PartHandler,
             SendHandler, TimerExpires, TimerHandler, PeerStep, Connects, Asks, Leaves, Begin, Read, Chunk,
             FindResource, Refuse, ReadMore, NotUnderstood, Drop, Delete, SetTimeout, CancelTimeout, accepts,
             reads, timers, peers, answers, service
<1> QED BY <1>1 DEF TimersOK

LEMMA PeerType == ASSUME PeerOK, NEW c \in Peers, Step(c) PROVE PeerOK'
<1>1. UNCHANGED peer \/ \E p \in {"open", "stuck", "gone"} : peer' = [peer EXCEPT ![c] = p]
      BY DEF Step, Progress, Accepted, Finish, SendPart, AcceptHandler, Accept, FirstRead, Receives, Written, Fails,
             Completes, Left, HeaderHandler, ContentHandler, SizeHandler, DataHandler, Release, PartHandler,
             SendHandler, TimerExpires, TimerHandler, PeerStep, Connects, Asks, Leaves, Begin, Read, Chunk,
             FindResource, Refuse, ReadMore, NotUnderstood, Drop, Delete, SetTimeout, CancelTimeout, accepts,
             reads, timers, peers, answers, service, PeerOK
<1> QED BY <1>1 DEF PeerOK

LEMMA SendsType == ASSUME SendsOK, NEW c \in Peers, Step(c) PROVE SendsOK'
<1>1. UNCHANGED sends \/ \E n \in 0 .. MaxSends : sends' = [sends EXCEPT ![c] = n]
      BY SendsAssumption DEF Step, Progress, Accepted, Finish, SendPart, AcceptHandler, Accept, FirstRead, Receives, Written, Fails,
             Completes, Left, HeaderHandler, ContentHandler, SizeHandler, DataHandler, Release, PartHandler,
             SendHandler, TimerExpires, TimerHandler, PeerStep, Connects, Asks, Leaves, Begin, Read, Chunk,
             FindResource, Refuse, ReadMore, NotUnderstood, Drop, Delete, SetTimeout, CancelTimeout, accepts,
             reads, timers, peers, answers, service, SendsOK
<1> QED BY <1>1 DEF SendsOK

LEMMA ServerType == ASSUME ServerOK, UNCHANGED case, NEW c \in Peers, Step(c) PROVE ServerOK'
<1>1. /\ UNCHANGED <<acceptor, stopping, runner>>
      /\ connections' \subseteq connections \cup {c, "waiting"}
      /\ accepting' \in {accepting, "none", "armed", "posted"}
      /\ fate' \in {fate, "timer"}
      BY DEF Step, Progress, Accepted, Finish, SendPart, AcceptHandler, Accept, FirstRead, Receives, Written, Fails,
             Completes, Left, HeaderHandler, ContentHandler, SizeHandler, DataHandler, Release, PartHandler,
             SendHandler, TimerExpires, TimerHandler, PeerStep, Connects, Asks, Leaves, Begin, Read, Chunk,
             FindResource, Refuse, ReadMore, NotUnderstood, Drop, Delete, SetTimeout, CancelTimeout, accepts,
             reads, timers, peers, answers, service
<1> QED BY <1>1 DEF ServerOK

-----------------------------------------------------------------------------
(* What a connection has read, handled and answered, at each place.           *)

ConnOK(c) ==
  /\ answered[c] <= req[c] /\ req[c] <= Len(Script[c])
  /\ taken[c] <= got[c] /\ got[c] <= sent[c] /\ sent[c] <= 5
  /\ phase[c] \in {"none", "accept", "session"} \cup Reading \cup {"refuse"} =>
       handled[c] = answered[c] /\ ~refused[c]
  /\ phase[c] \in {"app", "part", "send"} =>
       /\ handled[c] = req[c] /\ answered[c] < req[c] /\ ~refused[c]
       /\ got[c] = Parts(Kind(c)) /\ taken[c] = IF HasContent(Kind(c)) THEN 1 ELSE Parts(Kind(c))
  /\ phase[c] \in {"content", "size", "data", "refuse"} => answered[c] < req[c]
  /\ phase[c] \notin {"dropped", "end"} /\ sent[c] > 0 =>
       answered[c] < req[c] /\ sent[c] <= Parts(Kind(c))
  /\ phase[c] \in {"none", "accept", "session"} => got[c] = 0 /\ taken[c] = 0
  /\ phase[c] = "read" => taken[c] = 0 /\ (got[c] > 0 <=> done[c] = "ok")
  /\ phase[c] = "content" => /\ HasContent(Kind(c)) /\ taken[c] = 1
                             /\ got[c] = IF done[c] = "ok" THEN 2 ELSE 1
  /\ phase[c] = "size" => /\ HasChunks(Kind(c)) /\ taken[c] \in {1, 3}
                          /\ done[c] = "ok" => got[c] > taken[c]
  /\ phase[c] = "data" => /\ HasChunks(Kind(c)) /\ taken[c] \in {2, 4}
                          /\ got[c] = IF done[c] = "ok" THEN taken[c] + 1 ELSE taken[c]

LEMMA PartsValue ==
  ASSUME NEW k
  PROVE  /\ Parts(k) \in {1, 2, 5}
         /\ HasContent(k) => Parts(k) = 2 /\ ~HasChunks(k)
         /\ HasChunks(k) => Parts(k) = 5
         /\ Parts(k) = 1 <=> ~HasContent(k) /\ ~HasChunks(k)
  BY DEF Parts, HasContent, HasChunks

LEMMA InitConn == ASSUME Init, NEW c \in Peers PROVE ConnOK(c)
<1>1. Len(Script[c]) \in Nat
      BY CasesAssumption DEF Init, Script
<1> QED BY <1>1 DEF Init, ConnOK, Reading

\* Nothing of connection d changes.
LEMMA OtherConn ==
  ASSUME NEW d \in Peers, ConnOK(d), UNCHANGED case,
         phase'[d] = phase[d], done'[d] = done[d], got'[d] = got[d], taken'[d] = taken[d],
         sent'[d] = sent[d], req'[d] = req[d], handled'[d] = handled[d],
         answered'[d] = answered[d], refused'[d] = refused[d]
  PROVE  ConnOK(d)'
  BY DEF ConnOK, Kind, Script

LEMMA ElseConn ==
  ASSUME NEW c \in Peers, NEW d \in Peers, d # c, UNCHANGED case, Step(c), Typed, ConnOK(d)
  PROVE  ConnOK(d)'
<1>1. phase'[d] = phase[d] /\ done'[d] = done[d]
  <2>1. /\ UNCHANGED phase \/ \E p \in Phases : phase' = [phase EXCEPT ![c] = p]
        /\ UNCHANGED done \/ \E r \in {"no", "ok", "error"} : done' = [done EXCEPT ![c] = r]
        BY DEF Step, Progress, Accepted, Finish, SendPart, AcceptHandler, Accept, FirstRead, Receives, Written, Fails,
               Completes, Left, HeaderHandler, ContentHandler, SizeHandler, DataHandler, Release, PartHandler,
               SendHandler, TimerExpires, TimerHandler, PeerStep, Connects, Asks, Leaves, Begin, Read, Chunk,
               FindResource, Refuse, ReadMore, NotUnderstood, Drop, Delete, SetTimeout, CancelTimeout, accepts,
               reads, timers, peers, answers, service, Phases, Reading, Writing
  <2> QED BY <2>1 DEF Typed, PhaseOK
<1>2. got'[d] = got[d] /\ taken'[d] = taken[d] /\ sent'[d] = sent[d] /\ req'[d] = req[d]
  <2>1. /\ UNCHANGED got \/ \E n : got' = [got EXCEPT ![c] = n]
        /\ UNCHANGED taken \/ \E n : taken' = [taken EXCEPT ![c] = n]
        /\ UNCHANGED sent \/ \E n : sent' = [sent EXCEPT ![c] = n]
        /\ UNCHANGED req \/ \E n : req' = [req EXCEPT ![c] = n]
        BY DEF Step, Progress, Accepted, Finish, SendPart, AcceptHandler, Accept, FirstRead, Receives, Written, Fails,
               Completes, Left, HeaderHandler, ContentHandler, SizeHandler, DataHandler, Release, PartHandler,
               SendHandler, TimerExpires, TimerHandler, PeerStep, Connects, Asks, Leaves, Begin, Read, Chunk,
               FindResource, Refuse, ReadMore, NotUnderstood, Drop, Delete, SetTimeout, CancelTimeout, accepts,
               reads, timers, peers, answers, service
  <2> QED BY <2>1 DEF Typed, NumbersOK
<1>3. handled'[d] = handled[d] /\ answered'[d] = answered[d] /\ refused'[d] = refused[d]
  <2>1. /\ UNCHANGED handled \/ \E n : handled' = [handled EXCEPT ![c] = n]
        /\ UNCHANGED answered \/ \E n : answered' = [answered EXCEPT ![c] = n]
        /\ UNCHANGED refused \/ \E n : refused' = [refused EXCEPT ![c] = n]
        BY DEF Step, Progress, Accepted, Finish, SendPart, AcceptHandler, Accept, FirstRead, Receives, Written, Fails,
               Completes, Left, HeaderHandler, ContentHandler, SizeHandler, DataHandler, Release, PartHandler,
               SendHandler, TimerExpires, TimerHandler, PeerStep, Connects, Asks, Leaves, Begin, Read, Chunk,
               FindResource, Refuse, ReadMore, NotUnderstood, Drop, Delete, SetTimeout, CancelTimeout, accepts,
               reads, timers, peers, answers, service
  <2> QED BY <2>1 DEF Typed, NumbersOK
<1> QED BY <1>1, <1>2, <1>3, OtherConn

\* What Begin and Drop leave of the phase.
LEMMA PhaseAfter ==
  ASSUME Typed, NEW c \in Peers
  PROVE  /\ \A p : Begin(c, p) => phase'[c] = p /\ done'[c] = "no"
         /\ Drop(c) => phase'[c] \in {"dropped", "end"} /\ done'[c] = "no"
  BY DEF Typed, PhaseOK, Begin, Drop, Delete

SameNumbers == UNCHANGED <<got, taken, sent, req, handled, answered, refused>>

\* A step after which the numbers are the same.
LEMMA NumbersStay == ASSUME Typed, SameNumbers PROVE NumbersOK'
  BY DEF Typed, NumbersOK, SameNumbers

\* Steps that change nothing of what a connection has read or answered.
LEMMA QuietConn ==
  ASSUME Typed, NEW c \in Peers, ConnOK(c), UNCHANGED case,
         Accepted(c) \/ AcceptHandler(c) \/ Fails(c) \/ Written(c) \/ Release(c) \/ SendPart(c) \/ PartHandler(c)
           \/ TimerExpires(c) \/ TimerHandler(c) \/ (PeerStep(c) /\ ~Asks(c))
  PROVE  NumbersOK' /\ ConnOK(c)'
<1>1. SameNumbers
      BY DEF SameNumbers, Accepted, AcceptHandler, Fails, Written, Completes, Release, SendPart, PartHandler,
             TimerExpires, TimerHandler, PeerStep, Connects, Leaves, reads, peers, answers
<1>2. NumbersOK'
      BY <1>1, NumbersStay
<1>3. \/ phase'[c] = phase[c] /\ done'[c] = done[c]
      \/ phase[c] = "none" /\ phase'[c] = "accept"
      \/ phase[c] = "accept" /\ phase'[c] \in {"session", "dropped", "end"}
      \/ phase[c] \in {"app", "part", "send"} /\ phase'[c] \in {"app", "part", "send"}
      \/ phase'[c] = phase[c] /\ done[c] = "no" /\ done'[c] = "error"
      \/ phase'[c] = phase[c] /\ phase[c] \in Writing
      \/ phase[c] = "dropped" /\ phase'[c] = "end"
  <2>1. CASE Accepted(c)
        BY <2>1 DEF Accepted, Typed, PhaseOK
  <2>2. CASE AcceptHandler(c)
        BY <2>2, PhaseAfter DEF AcceptHandler, Typed, PhaseOK
  <2>3. CASE Fails(c) \/ Written(c)
        BY <2>3 DEF Fails, Written, Completes, Pending, Typed, PhaseOK
  <2>4. CASE Release(c) \/ SendPart(c) \/ PartHandler(c)
        BY <2>4, PhaseAfter DEF Release, SendPart, PartHandler, Typed, PhaseOK
  <2>5. CASE TimerExpires(c) \/ TimerHandler(c) \/ (PeerStep(c) /\ ~Asks(c))
        BY <2>5 DEF TimerExpires, TimerHandler, PeerStep, Delete, Typed, PhaseOK
  <2> QED BY <2>1, <2>2, <2>3, <2>4, <2>5
<1> QED BY <1>1, <1>2, <1>3 DEF ConnOK, SameNumbers, Kind, Script, Reading, Writing

LEMMA AsksConn ==
  ASSUME Typed, NEW c \in Peers, ConnOK(c), UNCHANGED case, PeerStep(c), Asks(c)
  PROVE  NumbersOK' /\ ConnOK(c)'
<1> DEFINE n == Parts(Script[c][req[c] + 1])
<1>1. /\ answered[c] = req[c] /\ ~refused[c] /\ phase[c] \notin {"dropped", "end"}
      /\ req[c] < Len(Script[c])
      BY DEF Asks
<1>2. sent[c] = 0 /\ got[c] = 0 /\ taken[c] = 0
      BY <1>1 DEF ConnOK, Typed, NumbersOK
<1>3. PICK m \in 1 .. n : sent' = [sent EXCEPT ![c] = m]
      BY DEF Asks
<1>4. n \in {1, 2, 5} /\ m \in 1 .. 5
      BY PartsValue
<1>5. req' = [req EXCEPT ![c] = req[c] + 1]
      /\ UNCHANGED <<got, taken, handled, answered, refused, phase, done>>
      BY DEF Asks, PeerStep, reads, answers
<1>6. req'[c] = req[c] + 1 /\ sent'[c] = m /\ Parts(Kind(c)') = n
      BY <1>3, <1>5 DEF Typed, NumbersOK, Kind, Script
<1>7. NumbersOK'
      BY <1>3, <1>4, <1>5 DEF Typed, NumbersOK
<1>8. Script' = Script /\ answered[c] \in Nat /\ req[c] \in Nat
      BY DEF Script, Typed, NumbersOK
<1>9. phase[c] \in {"none", "accept", "session", "read", "upgraded"}
  <2>1. phase[c] \in Phases
        BY DEF Typed, PhaseOK
  <2>2. ~(answered[c] < req[c])
        BY <1>1, <1>8
  <2>3. phase[c] \notin {"app", "part", "send", "content", "size", "data", "refuse"}
        BY <2>2 DEF ConnOK
  <2> QED BY <1>1, <2>1, <2>3 DEF Phases, Reading, Writing
<1> HIDE DEF n
<1> QED BY <1>1, <1>2, <1>4, <1>5, <1>6, <1>7, <1>8, <1>9 DEF ConnOK, Reading

\* read() of a new session.
LEMMA FirstReadConn ==
  ASSUME Typed, NEW c \in Peers, ConnOK(c), UNCHANGED case, FirstRead(c)
  PROVE  NumbersOK' /\ ConnOK(c)'
<1>1. phase[c] = "session" /\ phase'[c] = "read" /\ done'[c] = "no"
      BY PhaseAfter DEF FirstRead, Read
<1>2. /\ got' = [got EXCEPT ![c] = 0] /\ taken' = [taken EXCEPT ![c] = 0]
      /\ sent' = [sent EXCEPT ![c] = sent[c] - got[c]]
      /\ UNCHANGED <<req, handled, answered, refused>>
      BY DEF FirstRead, Read, answers
<1>3. got[c] = 0 /\ taken[c] = 0
      BY <1>1 DEF ConnOK
<1>4. SameNumbers
      BY <1>2, <1>3 DEF SameNumbers, Typed, NumbersOK
<1> QED BY <1>1, <1>3, <1>4, NumbersStay DEF ConnOK, SameNumbers, Kind, Script, Reading

LEMMA ReceivesConn ==
  ASSUME Typed, NEW c \in Peers, ConnOK(c), UNCHANGED case, Receives(c)
  PROVE  NumbersOK' /\ ConnOK(c)'
<1>1. PICK n \in taken[c] + 1 .. sent[c] :
        /\ n >= got[c] /\ (phase[c] \in {"content", "data"} => n = taken[c] + 1)
        /\ got' = [got EXCEPT ![c] = n]
      BY DEF Receives
<1>2. /\ phase[c] \in Reading /\ UNCHANGED phase /\ done'[c] = "ok"
      /\ UNCHANGED <<taken, sent, req, handled, answered, refused>>
      BY DEF Receives, Completes, Pending, peers, answers, Typed, PhaseOK
<1>3. taken[c] \in Nat /\ sent[c] \in Nat /\ got[c] \in Nat
      BY DEF Typed, NumbersOK
<1>4. NumbersOK' /\ got'[c] = n /\ n \in Nat
      BY <1>1, <1>2, <1>3 DEF Typed, NumbersOK
<1> QED BY <1>1, <1>2, <1>3, <1>4 DEF ConnOK, Kind, Script, Reading

LEMMA LeftConn ==
  ASSUME Typed, NEW c \in Peers, ConnOK(c), UNCHANGED case, Left(c)
  PROVE  NumbersOK' /\ ConnOK(c)'
<1>1. phase'[c] \in {"dropped", "end"}
      BY PhaseAfter DEF Left
<1>2. UNCHANGED <<got, taken, sent, req, handled>>
      BY DEF Left, reads, peers
<1>3. /\ UNCHANGED answered \/ answered' = [answered EXCEPT ![c] = req[c]]
      /\ UNCHANGED refused \/ refused' = [refused EXCEPT ![c] = phase[c] = "refuse"]
      BY DEF Left
<1>4. req[c] \in Nat /\ answered[c] <= req[c]
      BY DEF Typed, NumbersOK, ConnOK
<1>5. answered' \in [Peers -> Nat] /\ answered'[c] <= req[c]
      BY <1>3, <1>4 DEF Typed, NumbersOK
<1>6. refused' \in [Peers -> BOOLEAN]
  <2>1. (phase[c] = "refuse") \in BOOLEAN
        OBVIOUS
  <2>2. \A b \in BOOLEAN : [refused EXCEPT ![c] = b] \in [Peers -> BOOLEAN]
        BY DEF Typed, NumbersOK
  <2>3. refused \in [Peers -> BOOLEAN]
        BY DEF Typed, NumbersOK
  <2> QED BY <1>3, <2>1, <2>2, <2>3, Zenon
<1>7. NumbersOK'
      BY <1>2, <1>5, <1>6 DEF Typed, NumbersOK
<1> QED BY <1>1, <1>2, <1>5, <1>7 DEF ConnOK, Script, Reading

\* What find_resource() does to the connection.
LEMMA Found ==
  ASSUME Typed, NEW c \in Peers, FindResource(c)
  PROVE  \/ phase'[c] \in {"upgraded", "dropped", "end"} /\ UNCHANGED handled
         \/ phase'[c] = "app" /\ handled' = [handled EXCEPT ![c] = req[c]]
  BY PhaseAfter DEF FindResource, Typed, PhaseOK

\* The request's numbers while it is read.
LEMMA ReadingConn ==
  ASSUME Typed, NEW c \in Peers, ConnOK(c), phase[c] \in Reading, done[c] = "ok"
  PROVE  /\ got[c] \in 1 .. sent[c] /\ sent[c] \in 1 .. Parts(Kind(c)) /\ taken[c] \in 0 .. got[c]
         /\ answered[c] < req[c] /\ req[c] <= Len(Script[c])
         /\ handled[c] = answered[c] /\ ~refused[c]
         /\ answered[c] \in Nat /\ req[c] \in Nat /\ sent[c] <= 5
<1>1. /\ got[c] \in Nat /\ taken[c] \in Nat /\ sent[c] \in Nat /\ answered[c] \in Nat /\ req[c] \in Nat
      BY DEF Typed, NumbersOK
<1>2. got[c] > 0
      BY <1>1 DEF ConnOK, Reading
<1>3. sent[c] > 0 /\ taken[c] <= got[c] /\ got[c] <= sent[c] /\ sent[c] <= 5
      BY <1>1, <1>2 DEF ConnOK
<1>4. answered[c] < req[c] /\ sent[c] <= Parts(Kind(c))
      BY <1>3 DEF ConnOK, Reading
<1>5. handled[c] = answered[c] /\ ~refused[c] /\ req[c] <= Len(Script[c])
      BY DEF ConnOK, Reading
<1> QED BY <1>1, <1>2, <1>3, <1>4, <1>5, PartsValue

\* One of the handlers that read a request: t parts are taken, and the connection goes
\* on in one of these ways.
Went(c, t) ==
  /\ taken' = [taken EXCEPT ![c] = t]
  /\ UNCHANGED <<got, sent, req, answered, refused>>
  /\ \/ phase'[c] \in {"upgraded", "dropped", "end"} /\ UNCHANGED handled
     \/ phase'[c] = "refuse" /\ UNCHANGED handled
     \/ /\ phase'[c] = "app" /\ handled' = [handled EXCEPT ![c] = req[c]]
        /\ got[c] = Parts(Kind(c)) /\ t = IF HasContent(Kind(c)) THEN 1 ELSE Parts(Kind(c))
     \/ /\ phase'[c] = "content" /\ done'[c] = "no" /\ UNCHANGED handled
        /\ HasContent(Kind(c)) /\ t = 1 /\ got[c] = 1
     \/ /\ phase'[c] = "size" /\ done'[c] = "no" /\ UNCHANGED handled
        /\ HasChunks(Kind(c)) /\ t \in {1, 3}
     \/ /\ phase'[c] = "data" /\ done'[c] = "no" /\ UNCHANGED handled
        /\ HasChunks(Kind(c)) /\ t \in {2, 4} /\ got[c] = t

LEMMA WentConn ==
  ASSUME Typed, NEW c \in Peers, ConnOK(c), UNCHANGED case, phase[c] \in Reading, done[c] = "ok",
         NEW t \in 0 .. got[c], Went(c, t)
  PROVE  NumbersOK' /\ ConnOK(c)'
<1>1. /\ got[c] \in 1 .. sent[c] /\ sent[c] \in 1 .. Parts(Kind(c)) /\ answered[c] < req[c]
      /\ handled[c] = answered[c] /\ ~refused[c] /\ req[c] <= Len(Script[c])
      /\ answered[c] \in Nat /\ req[c] \in Nat /\ sent[c] <= 5
      BY ReadingConn
<1>2. taken'[c] = t /\ Kind(c)' = Kind(c) /\ Script' = Script /\ t \in Nat /\ t <= got[c]
      /\ got[c] \in Nat /\ sent[c] \in Nat
      BY <1>1 DEF Went, Typed, NumbersOK, Kind, Script
<1>3. NumbersOK'
      BY <1>1, <1>2 DEF Went, Typed, NumbersOK
<1>4. (handled'[c] = handled[c] \/ handled'[c] = req[c]) /\ (phase'[c] = "app" => handled'[c] = req[c])
      /\ (phase'[c] # "app" => handled'[c] = handled[c])
      BY DEF Went, Typed, NumbersOK
<1>5. CASE phase'[c] \in {"upgraded", "dropped", "end", "refuse", "app"}
      BY <1>1, <1>2, <1>3, <1>4, <1>5 DEF Went, ConnOK, Reading
<1>6. CASE phase'[c] \in {"content", "size", "data"}
      BY <1>1, <1>2, <1>3, <1>4, <1>6 DEF Went, ConnOK, Reading
<1> QED BY <1>5, <1>6 DEF Went

LEMMA HeaderConn ==
  ASSUME Typed, NEW c \in Peers, ConnOK(c), UNCHANGED case, HeaderHandler(c)
  PROVE  NumbersOK' /\ ConnOK(c)'
<1>1. phase[c] = "read" /\ done[c] = "ok" /\ phase[c] \in Reading
      BY DEF HeaderHandler, Handler, Reading
<1>2. /\ taken' = [taken EXCEPT ![c] = 1] /\ UNCHANGED <<got, sent, req, answered, refused>>
      BY DEF HeaderHandler, peers
<1>3. got[c] \in 1 .. Parts(Kind(c))
      BY <1>1, ReadingConn, PartsValue
<1>4. Went(c, 1)
  <2>1. CASE Refuse(c)
        BY <2>1, <1>2, PhaseAfter DEF Refuse, Went
  <2>2. CASE NotUnderstood(c)
        BY <2>2, <1>2, PhaseAfter DEF NotUnderstood, Went
  <2>3. CASE HasContent(Kind(c)) /\ got[c] < 2 /\ ReadMore(c, "content")
        BY <2>3, <1>2, <1>3, PhaseAfter, PartsValue DEF ReadMore, Went
  <2>4. CASE HasChunks(Kind(c)) /\ ReadMore(c, "size")
        BY <2>4, <1>2, PhaseAfter DEF ReadMore, Went
  <2>5. CASE got[c] >= Parts(Kind(c)) /\ ~HasChunks(Kind(c)) /\ FindResource(c)
    <3>1. got[c] = Parts(Kind(c)) /\ 1 = IF HasContent(Kind(c)) THEN 1 ELSE Parts(Kind(c))
          BY <1>3, <2>5, PartsValue
    <3> QED BY <3>1, <2>5, <1>2, Found DEF Went
  <2> QED BY <2>1, <2>2, <2>3, <2>4, <2>5 DEF HeaderHandler
<1> QED BY <1>1, <1>3, <1>4, WentConn, PartsValue

LEMMA ContentConn ==
  ASSUME Typed, NEW c \in Peers, ConnOK(c), UNCHANGED case, ContentHandler(c)
  PROVE  NumbersOK' /\ ConnOK(c)'
<1>1. phase[c] = "content" /\ done[c] = "ok" /\ phase[c] \in Reading
      BY DEF ContentHandler, Handler, Reading
<1>2. UNCHANGED <<got, taken, sent, req, answered, refused>>
      BY DEF ContentHandler, reads, peers
<1>3. HasContent(Kind(c)) /\ taken[c] = 1 /\ got[c] = 2
      BY <1>1 DEF ConnOK
<1>4. taken' = [taken EXCEPT ![c] = 1]
      BY <1>2, <1>3 DEF Typed, NumbersOK
<1>5. Went(c, 1)
  <2>1. CASE Refuse(c)
        BY <2>1, <1>2, <1>4, PhaseAfter DEF Refuse, Went
  <2>2. CASE FindResource(c)
        BY <2>2, <1>2, <1>3, <1>4, Found, PartsValue DEF Went
  <2> QED BY <2>1, <2>2 DEF ContentHandler
<1> QED BY <1>1, <1>3, <1>5, WentConn

LEMMA ChunkConn ==
  ASSUME Typed, NEW c \in Peers, ConnOK(c), UNCHANGED case, NEW n \in {3, 5}, Chunk(c, n), n <= got[c],
         phase[c] \in {"size", "data"}, done[c] = "ok", UNCHANGED <<got, sent, req, answered, refused>>
  PROVE  NumbersOK' /\ ConnOK(c)'
<1>1. HasChunks(Kind(c)) /\ phase[c] \in Reading
      BY DEF ConnOK, Reading
<1>2. got[c] \in 1 .. 5
      BY <1>1, ReadingConn, PartsValue
<1>3. Went(c, n)
  <2>1. CASE n = 5 /\ FindResource(c)
        BY <2>1, <1>1, <1>2, Found, PartsValue DEF Chunk, Went
  <2>2. CASE n < 5 /\ Refuse(c)
        BY <2>2, PhaseAfter DEF Chunk, Refuse, Went
  <2>3. CASE n < 5 /\ ReadMore(c, "size")
        BY <2>3, <1>1, PhaseAfter DEF Chunk, ReadMore, Went
  <2> QED BY <2>1, <2>2, <2>3 DEF Chunk
<1> QED BY <1>1, <1>2, <1>3, WentConn

LEMMA SizeConn ==
  ASSUME Typed, NEW c \in Peers, ConnOK(c), UNCHANGED case, SizeHandler(c)
  PROVE  NumbersOK' /\ ConnOK(c)'
<1>1. phase[c] = "size" /\ done[c] = "ok" /\ phase[c] \in Reading
      BY DEF SizeHandler, Handler, Reading
<1>2. UNCHANGED <<got, sent, req, answered, refused>>
      BY DEF SizeHandler, peers
<1>3. HasChunks(Kind(c)) /\ taken[c] \in {1, 3} /\ got[c] > taken[c] /\ got[c] \in Nat
      BY <1>1 DEF ConnOK, Typed, NumbersOK
<1>4. CASE NotUnderstood(c) /\ UNCHANGED taken
  <2>1. Went(c, taken[c])
        BY <1>2, <1>4, PhaseAfter DEF NotUnderstood, Went, Typed, NumbersOK
  <2> QED BY <1>1, <1>3, <2>1, WentConn
<1>5. CASE got[c] = taken[c] + 1 /\ taken' = [taken EXCEPT ![c] = taken[c] + 1] /\ ReadMore(c, "data")
  <2>1. Went(c, taken[c] + 1)
        BY <1>2, <1>3, <1>5, PhaseAfter DEF ReadMore, Went
  <2> QED BY <1>1, <1>3, <1>5, <2>1, WentConn
<1>6. CASE got[c] > taken[c] + 1 /\ Chunk(c, taken[c] + 2)
  <2>1. taken[c] + 2 \in {3, 5} /\ taken[c] + 2 <= got[c]
        BY <1>3, <1>6
  <2> QED BY <1>1, <1>2, <1>6, <2>1, ChunkConn
<1> QED BY <1>4, <1>5, <1>6 DEF SizeHandler

LEMMA DataConn ==
  ASSUME Typed, NEW c \in Peers, ConnOK(c), UNCHANGED case, DataHandler(c)
  PROVE  NumbersOK' /\ ConnOK(c)'
<1>1. phase[c] = "data" /\ done[c] = "ok" /\ Chunk(c, taken[c] + 1)
      BY DEF DataHandler, Handler
<1>2. UNCHANGED <<got, sent, req, answered, refused>>
      BY DEF DataHandler, peers
<1>3. taken[c] \in {2, 4} /\ got[c] = taken[c] + 1
      BY <1>1 DEF ConnOK
<1>4. taken[c] + 1 \in {3, 5} /\ taken[c] + 1 <= got[c]
      BY <1>3
<1> QED BY <1>1, <1>2, <1>4, ChunkConn

LEMMA SendConn ==
  ASSUME Typed, NEW c \in Peers, ConnOK(c), UNCHANGED case, SendHandler(c)
  PROVE  NumbersOK' /\ ConnOK(c)'
<1>1. phase[c] = "send" /\ done[c] = "ok"
      BY DEF SendHandler, Handler
<1>2. answered' = [answered EXCEPT ![c] = req[c]] /\ UNCHANGED <<req, handled, refused>>
      BY DEF SendHandler
<1>3. /\ handled[c] = req[c] /\ ~refused[c] /\ got[c] = Parts(Kind(c)) /\ req[c] \in Nat
      /\ req[c] <= Len(Script[c]) /\ answered'[c] = req[c]
      BY <1>1, <1>2 DEF ConnOK, Typed, NumbersOK
<1>4. got[c] <= sent[c] /\ sent[c] \in Nat /\ got[c] \in Nat /\ got[c] > 0 /\ taken[c] <= got[c] /\ sent[c] <= 5
      BY <1>3, PartsValue DEF ConnOK, Typed, NumbersOK
<1>5. sent[c] = got[c]
      BY <1>1, <1>3, <1>4 DEF ConnOK
<1>6. CASE Drop(c) /\ UNCHANGED <<got, taken, sent>>
  <2>1. NumbersOK' /\ phase'[c] \in {"dropped", "end"}
        BY <1>2, <1>3, <1>6, PhaseAfter DEF Typed, NumbersOK
  <2> QED BY <1>2, <1>3, <1>4, <1>6, <2>1 DEF ConnOK, Script, Reading
<1>7. CASE Read(c)
  <2>1. phase'[c] = "read" /\ done'[c] = "no"
        BY <1>7, PhaseAfter DEF Read
  <2>2. got'[c] = 0 /\ taken'[c] = 0 /\ sent'[c] = 0 /\ NumbersOK'
        BY <1>2, <1>3, <1>4, <1>5, <1>7 DEF Read, Typed, NumbersOK
  <2> QED BY <1>2, <1>3, <2>1, <2>2 DEF ConnOK, Script, Reading
<1> QED BY <1>6, <1>7 DEF SendHandler, reads

LEMMA StepConn ==
  ASSUME Typed, NEW c \in Peers, ConnOK(c), UNCHANGED case, Step(c)
  PROVE  NumbersOK' /\ ConnOK(c)'
<1>1. CASE PeerStep(c) /\ Asks(c)
      BY <1>1, AsksConn
<1>2. CASE FirstRead(c)
      BY <1>2, FirstReadConn
<1>3. CASE Receives(c)
      BY <1>3, ReceivesConn
<1>4. CASE Left(c)
      BY <1>4, LeftConn
<1>5. CASE HeaderHandler(c)
      BY <1>5, HeaderConn
<1>6. CASE ContentHandler(c)
      BY <1>6, ContentConn
<1>7. CASE SizeHandler(c)
      BY <1>7, SizeConn
<1>8. CASE DataHandler(c)
      BY <1>8, DataConn
<1>9. CASE SendHandler(c)
      BY <1>9, SendConn
<1> QED BY <1>1, <1>2, <1>3, <1>4, <1>5, <1>6, <1>7, <1>8, <1>9, QuietConn DEF Step, Progress, Finish

\* The steps of no connection.
ServerStep == AcceptBreaks \/ AcceptFailed \/ Stop \/ Destroy

LEMMA ServerStepConn ==
  ASSUME Typed, \A c \in Peers : ConnOK(c), UNCHANGED case, ServerStep \/ UNCHANGED vars
  PROVE  Typed' /\ \A c \in Peers : ConnOK(c)'
<1>1. /\ UNCHANGED <<phase, done, got, taken, sent, req, handled, answered, refused>>
      /\ UNCHANGED <<timer, due, sends, peer>>
      BY DEF ServerStep, AcceptBreaks, AcceptFailed, Stop, StopAcceptor, StopConnections, StopService,
             Destroy, vars, accepts, reads, timers, peers, answers, service
<1>2. \A c \in Peers : ConnOK(c)'
      BY <1>1, OtherConn
<1>3. SocketOK'
  <2>1. \/ UNCHANGED socket
        \/ socket' = [c \in Peers |-> IF c \in connections /\ socket[c] = "open" THEN "closed" ELSE socket[c]]
        BY DEF ServerStep, AcceptBreaks, AcceptFailed, Stop, StopAcceptor, StopConnections, StopService,
               Destroy, vars
  <2> QED BY <2>1 DEF Typed, SocketOK
<1>4. ServerOK'
  <2>1. CASE AcceptBreaks \/ AcceptFailed
        BY <2>1 DEF AcceptBreaks, AcceptFailed, Accept, service, Typed, ServerOK
  <2>2. CASE Stop \/ Destroy
        BY <2>2 DEF Stop, StopAcceptor, StopConnections, StopService, Destroy, accepts, service, Typed, ServerOK
  <2>3. CASE UNCHANGED vars
        BY <2>3 DEF vars, accepts, service, Typed, ServerOK
  <2> QED BY <2>1, <2>2, <2>3 DEF ServerStep
<1> QED BY <1>1, <1>2, <1>3, <1>4 DEF Typed, PhaseOK, TimersOK, PeerOK, SendsOK, NumbersOK

Inv == Typed /\ \A c \in Peers : ConnOK(c)

LEMMA NextCases ==
  ASSUME [Next \/ Idle]_vars
  PROVE  /\ UNCHANGED case
         /\ ServerStep \/ UNCHANGED vars \/ \E c \in Peers : Step(c)
  BY DEF Next, Idle, ServerStep, vars

LEMMA Inductive == ASSUME Inv, [Next \/ Idle]_vars PROVE Inv'
<1>1. CASE ServerStep \/ UNCHANGED vars
      BY <1>1, NextCases, ServerStepConn DEF Inv
<1>2. ASSUME NEW c \in Peers, Step(c) PROVE Inv'
  <2>1. UNCHANGED case
        BY NextCases
  <2>2. Typed'
        BY <1>2, <2>1, ServerType, PhaseType, SocketType, TimersType, PeerType, SendsType, StepConn
        DEF Inv, Typed
  <2>3. \A d \in Peers : ConnOK(d)'
        BY <1>2, <2>1, StepConn, ElseConn DEF Inv
  <2> QED BY <2>2, <2>3 DEF Inv
<1> QED BY <1>1, <1>2, NextCases

LEMMA Invariance == Spec => []Inv
<1>1. Init => Inv
      BY InitTyped, InitConn DEF Inv
<1> QED BY <1>1, Inductive, PTL DEF Spec

\* Every location has its type, for any connections and requests: what is counted of a
\* request never passes its five parts.
THEOREM TypeCorrect == Spec => []TypeOK
<1>1. ASSUME Inv PROVE TypeOK
  <2>1. \A c \in Peers : /\ taken[c] <= got[c] /\ got[c] <= sent[c] /\ sent[c] <= 5
                         /\ req[c] <= Len(Script[c])
        BY <1>1 DEF Inv, ConnOK
  <2>2. got \in [Peers -> 0 .. 5] /\ taken \in [Peers -> 0 .. 5] /\ sent \in [Peers -> 0 .. 5]
    <3>1. ASSUME NEW c \in Peers PROVE got[c] \in 0 .. 5 /\ taken[c] \in 0 .. 5 /\ sent[c] \in 0 .. 5
      <4>1. got[c] \in Nat /\ taken[c] \in Nat /\ sent[c] \in Nat
            BY <1>1 DEF Inv, Typed, NumbersOK
      <4> QED BY <2>1, <4>1
    <3> QED BY <1>1, <3>1 DEF Inv, Typed, NumbersOK
  <2> QED BY <1>1, <2>1, <2>2
          DEF Inv, Typed, TypeOK, ServerOK, PhaseOK, SocketOK, TimersOK, PeerOK, SendsOK, NumbersOK
<1> QED BY <1>1, Invariance, PTL

\* The application is given a request only when all of it was read, and nothing of the
\* next one: in whatever pieces it came, and whatever its kind.
THEOREM RequestsAreWhole == Spec => []WholeRequest
<1>1. Inv => WholeRequest
      BY DEF Inv, ConnOK, WholeRequest
<1> QED BY <1>1, Invariance, PTL

-----------------------------------------------------------------------------
(* The set of connections.                                                   *)

\* stop() runs on an open acceptor, or is called by the destructor.
StopOK ==
  /\ acceptor => stopping = "no"
  /\ stopping = "no" /\ runner => acceptor

Gone == {"none", "end", "upgraded"}

\* Connection c stays what it is for the set.
Keeps(c) ==
  /\ UNCHANGED <<connections, accepting>>
  /\ phase' = phase \/ (phase[c] \notin Gone /\ \E p \in Phases \ Gone : phase' = [phase EXCEPT ![c] = p])

\* It is deleted, or taken over.
Loses(c) ==
  /\ UNCHANGED accepting /\ connections' = connections \ {c}
  /\ \E p \in {"end", "upgraded"} : phase' = [phase EXCEPT ![c] = p]

LEMMA StepSet ==
  ASSUME Typed, NEW c \in Peers, Step(c)
  PROVE  /\ UNCHANGED <<acceptor, stopping, runner>>
         /\ Keeps(c) \/ Loses(c) \/ Accepted(c) \/ (AcceptHandler(c) /\ runner)
<1>1. UNCHANGED <<acceptor, stopping, runner>>
      BY DEF Step, Progress, Accepted, Finish, SendPart, AcceptHandler, Accept, FirstRead, Receives, Written, Fails,
             Completes, Left, HeaderHandler, ContentHandler, SizeHandler, DataHandler, Release, PartHandler,
             SendHandler, TimerExpires, TimerHandler, PeerStep, Drop, Delete, accepts, service
<1> SUFFICES Keeps(c) \/ Loses(c) \/ Accepted(c) \/ (AcceptHandler(c) /\ runner)
      BY <1>1
<1>2. ASSUME phase[c] \notin Gone, UNCHANGED accepting, Drop(c) PROVE Keeps(c) \/ Loses(c)
      BY <1>2 DEF Drop, Delete, Keeps, Loses, Gone, Phases
<1>3. ASSUME phase[c] \notin Gone, UNCHANGED <<accepting, connections>>, NEW p \in Phases \ Gone, Begin(c, p)
      PROVE  Keeps(c)
      BY <1>3 DEF Begin, Keeps
<1>4. {"read", "content", "size", "data", "part", "send", "refuse", "app", "session"} \subseteq Phases \ Gone
      BY DEF Phases, Gone, Reading, Writing
<1>5. ASSUME phase[c] \notin Gone, UNCHANGED accepting, FindResource(c) PROVE Keeps(c) \/ Loses(c)
  <2>1. CASE Drop(c)
        BY <1>2, <1>5, <2>1
  <2>2. CASE Begin(c, "app") /\ UNCHANGED connections
        BY <1>3, <1>4, <1>5, <2>2
  <2> QED BY <1>5, <2>1, <2>2 DEF FindResource, Loses
<1>6. CASE FirstRead(c) \/ Receives(c) \/ Written(c) \/ Fails(c) \/ Release(c) \/ SendPart(c) \/ PartHandler(c)
             \/ TimerExpires(c) \/ PeerStep(c)
  <2>1. CASE FirstRead(c)
        BY <2>1, <1>3, <1>4 DEF FirstRead, Read, accepts, Gone
  <2>2. CASE Release(c) \/ SendPart(c)
        BY <2>2, <1>3, <1>4 DEF Release, SendPart, accepts, Gone
  <2>3. CASE PartHandler(c)
        BY <2>3, <1>4 DEF PartHandler, accepts, Gone, Keeps
  <2>4. CASE Receives(c) \/ Written(c) \/ Fails(c) \/ TimerExpires(c) \/ PeerStep(c)
        BY <2>4 DEF Receives, Written, Fails, Completes, TimerExpires, PeerStep, accepts, Keeps
  <2> QED BY <1>6, <2>1, <2>2, <2>3, <2>4
<1>7. CASE Left(c)
      BY <1>7, <1>2 DEF Left, accepts, Reading, Gone
<1>8. CASE HeaderHandler(c) \/ ContentHandler(c) \/ SizeHandler(c) \/ DataHandler(c)
  <2>1. phase[c] \notin Gone /\ UNCHANGED accepting
        BY <1>8 DEF HeaderHandler, ContentHandler, SizeHandler, DataHandler, Handler, accepts, Gone
  <2>2. \/ FindResource(c) \/ Drop(c)
        \/ \E p \in {"refuse", "content", "size", "data"} : Begin(c, p) /\ UNCHANGED connections
        BY <1>8 DEF HeaderHandler, ContentHandler, SizeHandler, DataHandler, Chunk, Refuse, ReadMore, NotUnderstood
  <2> QED BY <2>1, <2>2, <1>2, <1>3, <1>4, <1>5
<1>9. CASE SendHandler(c)
  <2>1. phase[c] \notin Gone /\ UNCHANGED accepting
        BY <1>9 DEF SendHandler, Handler, accepts, Gone
  <2> QED BY <2>1, <1>9, <1>2, <1>3, <1>4 DEF SendHandler, Read
<1>10. CASE TimerHandler(c)
      BY <1>10 DEF TimerHandler, Delete, Keeps, Loses, accepts
<1>11. CASE AcceptHandler(c) /\ ~runner
      BY <1>11, <1>2 DEF AcceptHandler, Gone
<1> QED BY <1>6, <1>7, <1>8, <1>9, <1>10, <1>11 DEF Step, Progress, Finish

SetOK == SetIsExact /\ StopOK

LEMMA StepSetOK == ASSUME Typed, SetOK, NEW c \in Peers, Step(c) PROVE SetOK'
<1>1. UNCHANGED <<acceptor, stopping, runner>>
      BY StepSet
<1>2. c # "waiting"
      BY PeersAssumption
<1>3. CASE Keeps(c)
  <2>1. Alive' = Alive
        BY <1>3 DEF Keeps, Alive, Gone, Typed, PhaseOK
  <2> QED BY <1>1, <1>3, <2>1 DEF Keeps, SetOK, SetIsExact, StopOK
<1>4. CASE Loses(c)
  <2>1. Alive' = Alive \ {c}
        BY <1>2, <1>4 DEF Loses, Alive, Typed, PhaseOK
  <2> QED BY <1>1, <1>4, <2>1 DEF Loses, SetOK, SetIsExact, StopOK
<1>5. CASE Accepted(c)
  <2>1. "waiting" \in Alive /\ Alive' = (Alive \ {"waiting"}) \cup {c}
        BY <1>2, <1>5, PeersAssumption DEF Accepted, Alive, Typed, PhaseOK
  <2> QED BY <1>1, <1>5, <2>1 DEF Accepted, SetOK, SetIsExact, StopOK
<1>6. CASE AcceptHandler(c) /\ runner
  <2>1. Alive' = Alive \cup {"waiting"} /\ connections' = connections \cup {"waiting"}
        BY <1>2, <1>6 DEF AcceptHandler, Accept, Alive, Typed, PhaseOK
  <2> QED BY <1>1, <2>1 DEF SetOK, SetIsExact, StopOK
<1> QED BY <1>3, <1>4, <1>5, <1>6, StepSet

LEMMA ServerStepSetOK ==
  ASSUME Typed, SetOK, ServerStep \/ UNCHANGED vars PROVE SetOK'
<1>1. CASE AcceptBreaks
  <2>1. Alive' = Alive
        BY <1>1 DEF AcceptBreaks, Alive
  <2> QED BY <1>1, <2>1 DEF AcceptBreaks, service, SetOK, SetIsExact, StopOK
<1>2. CASE AcceptFailed
  <2>1. UNCHANGED <<acceptor, stopping, runner, phase>>
        BY <1>2 DEF AcceptFailed, service
  <2>2. CASE accepting = "failed" /\ Accept
    <3>1. Alive' = Alive /\ "waiting" \in Alive
          BY <2>1, <2>2 DEF Accept, Alive
    <3> QED BY <2>1, <2>2, <3>1 DEF Accept, SetOK, SetIsExact, StopOK
  <2>3. CASE accepting' = "none" /\ connections' = connections \ {"waiting"}
    <3>1. Alive' = Alive \ {"waiting"}
          BY <2>1, <2>3, PeersAssumption DEF Alive
    <3> QED BY <2>1, <2>3, <3>1 DEF SetOK, SetIsExact, StopOK
  <2> QED BY <1>2, <2>2, <2>3 DEF AcceptFailed
<1>3. CASE StopAcceptor
  <2>1. Alive' = Alive
        BY <1>3 DEF StopAcceptor, Alive
  <2> QED BY <1>3, <2>1 DEF StopAcceptor, SetOK, SetIsExact, StopOK
<1>4. CASE StopConnections
      BY <1>4 DEF StopConnections, accepts, SetOK, SetIsExact, StopOK
<1>5. CASE StopService \/ Destroy \/ UNCHANGED vars
  <2>1. Alive' = Alive
        BY <1>5 DEF StopService, Destroy, vars, accepts, Alive
  <2> QED BY <1>5, <2>1 DEF StopService, Destroy, vars, accepts, service, SetOK, SetIsExact, StopOK
<1> QED BY <1>1, <1>2, <1>3, <1>4, <1>5 DEF ServerStep, Stop

\* The set of plain pointers is exact, whoever of any number of connections is accepted,
\* taken over, timed out or dropped, and whenever stop() and the destructor run.
THEOREM ConnectionsAreExact == Spec => []SetIsExact
<1>1. Init => SetOK
      BY DEF Init, SetOK, SetIsExact, StopOK, Alive
<1>2. Inv /\ SetOK /\ [Next \/ Idle]_vars => SetOK'
      BY NextCases, StepSetOK, ServerStepSetOK DEF Inv
<1>3. Spec => []SetOK
      BY <1>1, <1>2, Invariance, PTL DEF Spec
<1> QED BY <1>3, PTL DEF SetOK

-----------------------------------------------------------------------------
(* The order of the requests.                                                *)

LEMMA StepTurns ==
  ASSUME Typed, NEW c \in Peers, ConnOK(c), Step(c)
  PROVE  Turns!Next \/ UNCHANGED <<req, handled, answered, refused>>
<1>1. req[c] \in Nat /\ answered[c] \in Nat /\ handled[c] \in Nat
      BY DEF Typed, NumbersOK
<1>2. CASE PeerStep(c) /\ Asks(c)
  <2>1. Turns!Ask(c)
        BY <1>2 DEF PeerStep, Asks, answers, Turns!Ask
  <2> QED BY <2>1 DEF Turns!Next
<1>3. CASE HeaderHandler(c) \/ ContentHandler(c) \/ SizeHandler(c) \/ DataHandler(c)
  <2>1. phase[c] \in Reading /\ done[c] = "ok" /\ UNCHANGED <<req, answered, refused>>
        BY <1>3 DEF HeaderHandler, ContentHandler, SizeHandler, DataHandler, Handler, Reading, peers
  <2>2. UNCHANGED handled \/ handled' = [handled EXCEPT ![c] = req[c]]
        BY <1>3, Found DEF HeaderHandler, ContentHandler, SizeHandler, DataHandler, Chunk, Refuse, ReadMore,
                           NotUnderstood
  <2>3. answered[c] < req[c] /\ handled[c] = answered[c] /\ ~refused[c]
        BY <2>1, ReadingConn
  <2>4. Turns!Handle(c) \/ UNCHANGED handled
        BY <2>1, <2>2, <2>3 DEF Turns!Handle, Turns!Waits
  <2> QED BY <2>1, <2>4 DEF Turns!Next
<1>4. CASE Left(c)
  <2>1. UNCHANGED <<req, handled>>
        BY <1>4 DEF Left, peers
  <2>2. CASE phase[c] = "send" /\ done[c] = "ok"
    <3>1. handled[c] = req[c] /\ answered[c] < req[c] /\ ~refused[c]
          BY <2>2 DEF ConnOK
    <3>2. answered' = [answered EXCEPT ![c] = req[c]] /\ refused' = [refused EXCEPT ![c] = FALSE]
          BY <1>4, <2>2 DEF Left, Writing
    <3>3. refused[c] = FALSE
          BY <3>1 DEF Typed, NumbersOK
    <3>4. UNCHANGED refused
          BY <3>2, <3>3 DEF Typed, NumbersOK
    <3>5. Turns!Answer(c)
          BY <2>1, <3>1, <3>2, <3>4 DEF Turns!Answer, Turns!Waits
    <3> QED BY <3>5 DEF Turns!Next
  <2>3. CASE phase[c] = "refuse" /\ done[c] = "ok"
    <3>1. handled[c] = answered[c] /\ answered[c] < req[c] /\ ~refused[c]
          BY <2>3 DEF ConnOK
    <3>2. answered' = [answered EXCEPT ![c] = req[c]] /\ refused' = [refused EXCEPT ![c] = TRUE]
          BY <1>4, <2>3 DEF Left, Writing
    <3>3. Turns!Refuse(c)
          BY <2>1, <3>1, <3>2 DEF Turns!Refuse, Turns!Waits
    <3> QED BY <3>3 DEF Turns!Next
  <2>4. CASE ~(phase[c] \in {"send", "refuse"} /\ done[c] = "ok")
        BY <1>4, <2>1, <2>4 DEF Left, Reading, Writing
  <2> QED BY <2>2, <2>3, <2>4
<1>5. CASE SendHandler(c)
  <2>1. phase[c] = "send" /\ UNCHANGED <<req, handled, refused>> /\ answered' = [answered EXCEPT ![c] = req[c]]
        BY <1>5 DEF SendHandler, Handler
  <2>2. handled[c] = req[c] /\ answered[c] < req[c] /\ ~refused[c]
        BY <2>1 DEF ConnOK
  <2>3. Turns!Answer(c)
        BY <2>1, <2>2 DEF Turns!Answer, Turns!Waits
  <2> QED BY <2>3 DEF Turns!Next
<1>6. CASE \/ AcceptHandler(c) \/ FirstRead(c) \/ Finish(c) \/ Release(c) \/ PartHandler(c) \/ TimerExpires(c)
           \/ TimerHandler(c) \/ Accepted(c) \/ SendPart(c) \/ (PeerStep(c) /\ ~Asks(c))
      BY <1>6 DEF AcceptHandler, FirstRead, Finish, Receives, Written, Fails, Completes, Release, PartHandler,
                  TimerExpires, TimerHandler, Accepted, SendPart, PeerStep, Connects, Leaves, peers, answers
<1> QED BY <1>2, <1>3, <1>4, <1>5, <1>6 DEF Step, Progress, Finish

\* Any number of requests on any number of connections are handled and answered in turn:
\* the server implements the order that clients of a kept connection count on.
THEOREM TurnsImplementation == Spec => TurnsSpec
<1>1. Init => Turns!Init
      BY DEF Init, Turns!Init
<1>2. Inv /\ [Next \/ Idle]_vars => [Turns!Next]_<<req, handled, answered, refused>>
  <2>1. SUFFICES ASSUME Inv, [Next \/ Idle]_vars
                 PROVE  Turns!Next \/ UNCHANGED <<req, handled, answered, refused>>
        OBVIOUS
  <2>2. CASE ServerStep \/ UNCHANGED vars
        BY <2>2 DEF ServerStep, AcceptBreaks, AcceptFailed, Stop, StopAcceptor, StopConnections, StopService,
                    Destroy, vars, peers, answers
  <2>3. CASE \E c \in Peers : Step(c)
        BY <2>1, <2>3, StepTurns DEF Inv
  <2> QED BY <2>1, <2>2, <2>3, NextCases
<1> QED BY <1>1, <1>2, Invariance, PTL DEF Spec, TurnsSpec, Turns!Spec
=============================================================================
