-------------------------- MODULE HttpClient_proofs --------------------------
(***************************************************************************)
(* HttpClient for any number of requests, threads, connections and faults:   *)
(* a connection serves one request at a time, one connection of the pool at  *)
(* most is not in use, the synchronous request() returns without its answer  *)
(* only where another thread or an exception came between, a request is      *)
(* called back at most once and handled twice at most (HttpCall), and what   *)
(* it returns is its answer.                                                *)
(*                                                                         *)
(* NotShared is not inductive: a new connection is nobody's because nobody   *)
(* holds one that was not created (Created), and a request whose session has *)
(* not begun has no operation outstanding (Posted).  Each invariant rests on *)
(* the one before: IInv (the pool), TypeInv (types, and what a handler reads *)
(* is there), SentInv (where each request and its answer can be), AnswerInv  *)
(* (that what was read and what is under way begin the answer).             *)
(***************************************************************************)
EXTENDS HttpClient, SequenceTheorems, WellFoundedInduction, TLAPS

Phases  == {"new", "calling", "posted", "counted", "running", "ran", "returned", "threw"}
Results == {"-", "wait", "ok", "err", "eof", "aborted"}
Ops     == [name : OpNames \cup {"none"}, res : Results]
Sockets == {"none", "closed", "open", "gone"}

Begun(name) == [name |-> name, res |-> "wait"]

Shape ==
  /\ phase \in [Requests -> Phases]
  /\ op \in [Requests -> Ops]
  /\ conn \in [Requests -> Connections \cup {NoConnection}]
  /\ in_use \in [Connections -> BOOLEAN]
  /\ socket \in [Connections -> Sockets]

\* The connections of the pool and of the sessions have been created.
Created ==
  /\ \A c \in connections : c \in Connections /\ socket[c] # "none"
  /\ \A q \in Requests : Active(q) => conn[q] \in Connections /\ socket[conn[q]] # "none"

Posted == \A q \in Requests : phase[q] \in {"new", "calling"} => op[q] = NoOp

IInv == Shape /\ Created /\ Posted /\ NotShared /\ OneIdle

-----------------------------------------------------------------------------

\* An operation that is begun, or has a result, is one.
LEMMA OpsFacts ==
  /\ NoOp \in Ops
  /\ \A name \in OpNames : Begun(name) \in Ops /\ Begun(name) # NoOp
BY DEF Ops, Begun, NoOp, OpNames, Results

LEMMA HandlerOp ==
  ASSUME NEW q, NEW name, NEW res, res # "-", Handler(q, name, res)
  PROVE  op[q] # NoOp
<1>1. op[q].res = res
  BY DEF Handler
<1> QED BY <1>1 DEF NoOp

\* A step that leaves the pool and its owners alone, or ends a session without a callback,
\* preserves the invariant.
LEMMA PoolUntouched ==
  ASSUME IInv, Shape', Posted', UNCHANGED <<conn, in_use>>,
         connections' \subseteq connections,
         \A c \in Connections : socket[c] # "none" => socket'[c] # "none",
         \A q \in Requests : Active(q)' => Active(q)
  PROVE  IInv'
<1>1. Created'
  BY DEF IInv, Created, Shape, Phases, Sockets
<1>2. NotShared'
  BY DEF IInv, NotShared
<1>3. OneIdle'
  BY DEF IInv, OneIdle, Idle
<1> QED BY <1>1, <1>2, <1>3 DEF IInv

\* The callback gives the connection back: of the pool's unused connections one is left.
LEMMA CallbackSafe ==
  ASSUME IInv, NEW q \in Requests, op[q] # NoOp, NEW result, Callback(q, result)
  PROVE  IInv'
<1> DEFINE c == conn[q]
           rest == IF result = "error" THEN connections \ {c} ELSE connections
           unused == {d \in rest : d = c \/ ~in_use[d]}
<1>1. Active(q) /\ c \in Connections /\ phase[q] \notin {"new", "calling"}
  BY DEF IInv, Created, Posted, Active
<1>2. PICK kept \in (IF unused = {} THEN {{}} ELSE {{d} : d \in unused}) :
        connections' = (rest \ unused) \cup kept
  BY DEF Callback
<1>3. kept \subseteq unused /\ \A d, e \in kept : d = e
  BY <1>2
<1>4. /\ in_use' = [in_use EXCEPT ![c] = FALSE]
      /\ op' = [op EXCEPT ![q] = NoOp]
      /\ phase' = phase /\ conn' = conn
      /\ socket' = [d \in Connections |->
                      IF d \in (connections \cup {c}) \ connections' THEN "gone" ELSE socket[d]]
  BY DEF Callback, Drop
<1>5. connections' \subseteq connections
  BY <1>2, <1>3
<1>6. \A p \in Requests : Active(p)' <=> (Active(p) /\ p # q)
  BY <1>1, <1>4 DEF IInv, Shape, Active
<1>7. Shape'
  <2>1. in_use' \in [Connections -> BOOLEAN] /\ op' \in [Requests -> Ops]
    BY <1>1, <1>4, OpsFacts DEF IInv, Shape, Phases, Sockets
  <2>2. socket' \in [Connections -> Sockets]
    BY <1>4 DEF IInv, Shape, Phases, Sockets
  <2> QED BY <1>4, <2>1, <2>2 DEF IInv, Shape, Phases, Sockets
<1>8. Created'
  BY <1>4, <1>5, <1>6 DEF IInv, Created
<1>9. Posted'
  BY <1>4 DEF IInv, Posted, Shape
<1>10. NotShared'
  <2> SUFFICES ASSUME NEW p \in Requests, Active(p)'
               PROVE  /\ in_use'[conn[p]]
                      /\ \A r \in Requests \ {p} : Active(r)' => conn[r] # conn[p]
    BY <1>4 DEF NotShared
  <2>1. Active(p) /\ p # q
    BY <1>6
  <2>2. conn[p] # c /\ in_use[conn[p]] /\ conn[p] \in Connections
    BY <1>1, <2>1 DEF IInv, NotShared, Created
  <2> QED BY <1>4, <1>6, <2>1, <2>2 DEF IInv, NotShared, Shape
<1>11. OneIdle'
  <2>1. ASSUME NEW d \in connections', ~in_use'[d]
        PROVE  d \in kept
    <3>1. CASE d \in kept
      BY <3>1
    <3>2. CASE d \in rest \ unused
      <4>1. d # c /\ in_use[d] /\ d \in Connections
        BY <3>2, <1>5, <2>1 DEF IInv, Created
      <4> QED BY <4>1, <1>4, <2>1 DEF IInv, Shape
    <3> QED BY <3>1, <3>2, <1>2
  <2> QED BY <2>1, <1>3 DEF OneIdle, Idle
<1> QED BY <1>7, <1>8, <1>9, <1>10, <1>11 DEF IInv

\* A connection just created is nobody's.
LEMMA NewIsFree ==
  ASSUME IInv, Fresh # {}
  PROVE  /\ NewConnection \in Connections /\ socket[NewConnection] = "none"
         /\ NewConnection \notin connections
         /\ \A p \in Requests : Active(p) => conn[p] # NewConnection
<1>1. NewConnection \in Fresh
  BY DEF NewConnection
<1> QED BY <1>1 DEF Fresh, IInv, Created

-----------------------------------------------------------------------------

\* In the initial state there is no connection.
THEOREM InitSafe == Init => IInv
<1> SUFFICES ASSUME Init PROVE IInv
  OBVIOUS
<1>1. Shape /\ Posted
  <2>1. NoOp \in Ops
    BY OpsFacts
  <2> QED BY <2>1 DEF Init, Shape, Posted, Phases, Sockets
<1>2. \A q \in Requests : ~Active(q)
  BY DEF Init, Active
<1> QED BY <1>1, <1>2 DEF Init, IInv, Created, NotShared, OneIdle, Idle

LEMMA GetConnectionSafe ==
  ASSUME IInv, NEW q \in Requests, GetConnection(q)
  PROVE  IInv'
<1>1. phase[q] = "new" /\ phase' = [phase EXCEPT ![q] = "calling"] /\ op' = op
  BY DEF GetConnection, Goto
<1>2. PICK c \in (IF Idle # {} THEN Idle ELSE {NewConnection}) :
        /\ conn' = [conn EXCEPT ![q] = c]
        /\ connections' = connections \cup {c}
        /\ in_use' = [in_use EXCEPT ![c] = TRUE]
        /\ socket' = [socket EXCEPT ![c] = IF @ = "none" THEN "closed" ELSE @]
  BY DEF GetConnection
<1>3. /\ c \in Connections
      /\ \A p \in Requests : Active(p) => conn[p] # c
  <2>1. CASE Idle # {}
    BY <2>1, <1>2 DEF IInv, Created, NotShared, Idle
  <2>2. CASE Idle = {}
    <3>1. Fresh # {}
      BY <2>2 DEF GetConnection
    <3> QED BY <3>1, <2>2, <1>2, NewIsFree
  <2> QED BY <2>1, <2>2
<1>4. \A p \in Requests : Active(p)' <=> (Active(p) \/ p = q)
  BY <1>1 DEF IInv, Shape, Active
<1>5. Shape'
  <2>1. phase' \in [Requests -> Phases] /\ op' \in [Requests -> Ops]
    BY <1>1 DEF IInv, Shape, Phases, Sockets
  <2>2. conn' \in [Requests -> Connections \cup {NoConnection}] /\ in_use' \in [Connections -> BOOLEAN]
    BY <1>2, <1>3 DEF IInv, Shape, Phases, Sockets
  <2>3. socket' \in [Connections -> Sockets]
    BY <1>2, <1>3 DEF IInv, Shape, Phases, Sockets
  <2> QED BY <2>1, <2>2, <2>3 DEF Shape, Phases, Sockets
<1>6. \A d \in Connections : (socket[d] # "none" \/ d = c) => socket'[d] # "none"
  BY <1>2, <1>3 DEF IInv, Shape, Phases, Sockets
<1>7. \A p \in Requests \ {q} : conn'[p] = conn[p]
  BY <1>2 DEF IInv, Shape, Phases, Sockets
<1>8. conn'[q] = c
  BY <1>2 DEF IInv, Shape
<1>9. Created'
  BY <1>2, <1>3, <1>4, <1>6, <1>7, <1>8 DEF IInv, Created
<1>10. Posted'
  BY <1>1 DEF IInv, Posted, Shape
<1>11. \A d \in Connections : in_use'[d] <=> (in_use[d] \/ d = c)
  BY <1>2 DEF IInv, Shape
<1>12. NotShared'
  BY <1>3, <1>4, <1>7, <1>8, <1>11 DEF IInv, NotShared, Created
<1>13. OneIdle'
  BY <1>2, <1>3, <1>11 DEF IInv, OneIdle, Idle, Created
<1> QED BY <1>5, <1>9, <1>10, <1>12, <1>13 DEF IInv

LEMMA RetrySafe ==
  ASSUME IInv, NEW q \in Requests, Retry(q)
  PROVE  IInv'
<1> DEFINE c == NewConnection
           old == conn[q]
<1>1. /\ op[q] # NoOp /\ Fresh # {} /\ old \in connections
      /\ op' = [op EXCEPT ![q] = Begun("resolve")]
      /\ phase' = phase
      /\ conn' = [conn EXCEPT ![q] = c]
      /\ connections' = (connections \ {old}) \cup {c}
      /\ in_use' = [in_use EXCEPT ![c] = TRUE]
      /\ socket' = [socket EXCEPT ![c] = "closed", ![old] = "gone"]
  <2>1. op[q] # NoOp
    BY HandlerOp DEF Retry
  <2> QED BY <2>1 DEF Retry, calls, Begun
<1>2. /\ c \in Connections /\ socket[c] = "none" /\ c \notin connections
      /\ \A p \in Requests : Active(p) => conn[p] # c
  BY <1>1, NewIsFree
<1>3. Active(q) /\ old \in Connections /\ phase[q] \notin {"new", "calling"}
  BY <1>1 DEF IInv, Created, Posted, Active
<1>4. \A p \in Requests : Active(p)' <=> Active(p)
  BY <1>1, <1>3, OpsFacts DEF IInv, Shape, Active, OpNames
<1>5. Shape'
  <2>1. phase' \in [Requests -> Phases] /\ op' \in [Requests -> Ops]
    BY <1>1, OpsFacts DEF IInv, Shape, Phases, Sockets, OpNames
  <2>2. conn' \in [Requests -> Connections \cup {NoConnection}] /\ in_use' \in [Connections -> BOOLEAN]
    BY <1>1, <1>2 DEF IInv, Shape, Phases, Sockets
  <2>3. socket' \in [Connections -> Sockets]
    BY <1>1, <1>2 DEF IInv, Shape, Phases, Sockets
  <2> QED BY <2>1, <2>2, <2>3 DEF Shape, Phases, Sockets
<1>6. \A d \in Connections : (socket[d] # "none" \/ d = c) => socket'[d] # "none"
  BY <1>1, <1>2, <1>3 DEF IInv, Shape, Phases, Sockets
<1>7. \A p \in Requests \ {q} : conn'[p] = conn[p]
  BY <1>1 DEF IInv, Shape, Phases, Sockets
<1>8. conn'[q] = c
  BY <1>1 DEF IInv, Shape
<1>9. Created'
  BY <1>1, <1>2, <1>4, <1>6, <1>7, <1>8 DEF IInv, Created
<1>10. Posted'
  BY <1>1, <1>3 DEF IInv, Posted, Shape
<1>11. \A d \in Connections : in_use'[d] <=> (in_use[d] \/ d = c)
  BY <1>1, <1>2 DEF IInv, Shape
<1>12. NotShared'
  BY <1>2, <1>4, <1>7, <1>8, <1>11 DEF IInv, NotShared, Created
<1>13. OneIdle'
  BY <1>1, <1>2, <1>11 DEF IInv, OneIdle, Idle, Created
<1> QED BY <1>5, <1>9, <1>10, <1>12, <1>13 DEF IInv

-----------------------------------------------------------------------------

\* Calls that only move the thread on.
LEMMA CallerSafe ==
  ASSUME IInv, NEW q \in Requests,
         Connect(q) \/ Count(q) \/ Run(q) \/ RunReturns(q) \/ Returns(q)
  PROVE  IInv'
<1>1. CASE Connect(q)
  <2>1. /\ phase[q] = "calling" /\ phase' = [phase EXCEPT ![q] = "posted"]
        /\ \E name \in OpNames : op' = [op EXCEPT ![q] = Begun(name)]
        /\ UNCHANGED <<conn, in_use, connections, socket>>
    BY <1>1 DEF Connect, Goto, Start, pool, Begun, OpNames
  <2>2. Active(q)
    BY <2>1 DEF Active
  <2>3. Shape' /\ Posted' /\ \A p \in Requests : Active(p)' => Active(p)
    <3>1. Shape'
      BY <2>1, OpsFacts DEF IInv, Shape, Phases, Sockets
    <3>2. Posted'
      BY <2>1 DEF IInv, Shape, Posted, Phases, Sockets
    <3>3. \A p \in Requests : Active(p)' => Active(p)
      BY <2>1, <2>2 DEF IInv, Shape, Active
    <3> QED BY <3>1, <3>2, <3>3
  <2> QED BY <2>1, <2>3, PoolUntouched
<1>2. CASE Count(q) \/ Run(q) \/ RunReturns(q) \/ Returns(q)
  <2>1. /\ phase[q] \notin {"new", "calling"}
        /\ \E p \in {"counted", "running", "ran", "returned"} : phase' = [phase EXCEPT ![q] = p]
        /\ UNCHANGED <<op, conn, in_use, connections, socket>>
    BY <1>2 DEF Count, Run, RunReturns, Returns, Goto, session, pool, sockets
  <2>2. Shape' /\ Posted' /\ \A p \in Requests : Active(p)' => Active(p)
    <3>1. Shape'
      BY <2>1 DEF IInv, Shape, Phases, Sockets
    <3>2. Posted'
      BY <2>1 DEF IInv, Shape, Posted, Phases, Sockets
    <3>3. \A p \in Requests : Active(p)' => Active(p)
      BY <2>1 DEF IInv, Shape, Active
    <3> QED BY <3>1, <3>2, <3>3
  <2> QED BY <2>1, <2>2, PoolUntouched
<1> QED BY <1>1, <1>2

\* A handler that starts the next operation of its session.
LEMMA ContinueSafe ==
  ASSUME IInv, NEW q \in Requests, op[q] # NoOp,
         NEW name \in OpNames, op' = [op EXCEPT ![q] = Begun(name)],
         UNCHANGED <<phase, conn, connections, in_use>>, socket' \in [Connections -> Sockets],
         \A c \in Connections : socket[c] # "none" => socket'[c] # "none"
  PROVE  IInv'
<1>1. Shape'
  BY OpsFacts DEF IInv, Shape, Phases, Sockets
<1>2. phase[q] \notin {"new", "calling"}
  BY DEF IInv, Posted
<1>3. Posted'
  BY <1>2 DEF IInv, Posted, Shape
<1>4. \A p \in Requests : Active(p)' => Active(p)
  BY DEF IInv, Shape, Active
<1> QED BY <1>1, <1>3, <1>4, PoolUntouched

LEMMA GoesOn ==
  ASSUME IInv, NEW q \in Requests, op[q] # NoOp, NEW name \in OpNames, Continue(q, name)
  PROVE  IInv'
<1>1. /\ op' = [op EXCEPT ![q] = Begun(name)]
      /\ UNCHANGED <<phase, conn, connections, in_use, socket>>
  BY DEF Continue, Start, Begun, calls
<1> QED BY <1>1, ContinueSafe DEF IInv, Shape

LEMMA HandlesSafe ==
  ASSUME IInv, NEW q \in Requests, Handles(q)
  PROVE  IInv'
<1>1. CASE ResolveHandler(q)
  <2>1. op[q] # NoOp
    BY <1>1, HandlerOp DEF ResolveHandler
  <2>2. /\ op' = [op EXCEPT ![q] = Begun("connect")]
        /\ UNCHANGED <<phase, conn, connections, in_use>>
        /\ socket' = [socket EXCEPT ![conn[q]] = "open"]
    BY <1>1 DEF ResolveHandler, Start, Begun, calls, pool
  <2>3. /\ socket' \in [Connections -> Sockets]
        /\ \A c \in Connections : socket[c] # "none" => socket'[c] # "none"
    BY <2>2 DEF IInv, Shape, Phases, Sockets
  <2> QED BY <2>1, <2>2, <2>3, ContinueSafe DEF OpNames
<1>2. CASE ConnectHandler(q) \/ WriteHandler(q)
  <2>1. op[q] # NoOp
    BY <1>2, HandlerOp DEF ConnectHandler, WriteHandler
  <2>2. \E name \in OpNames : Continue(q, name)
    BY <1>2 DEF ConnectHandler, WriteHandler, OpNames
  <2> QED BY <2>1, <2>2, GoesOn
<1>3. CASE Failed(q) \/ NoRetry(q) \/ TooBig(q) \/ ContentHandler(q)
  <2>1. \E name, res : res # "-" /\ Handler(q, name, res)
    BY <1>3 DEF Failed, NoRetry, TooBig, ContentHandler
  <2>2. \E result : Callback(q, result)
    BY <1>3 DEF Failed, NoRetry, TooBig, ContentHandler
  <2> QED BY <2>1, <2>2, HandlerOp, CallbackSafe
<1>4. CASE HeaderHandler(q) \/ SizeHandler(q) \/ DataHandler(q)
  <2>1. op[q] # NoOp
    BY <1>4, HandlerOp DEF HeaderHandler, SizeHandler, DataHandler
  <2>2. (\E result : Callback(q, result)) \/ \E name \in OpNames : Continue(q, name)
    <3>1. CASE HeaderHandler(q)
      BY <3>1 DEF HeaderHandler, OpNames
    <3>2. CASE SizeHandler(q) \/ DataHandler(q)
      BY <3>2 DEF SizeHandler, DataHandler, Chunk, OpNames
    <3> QED BY <1>4, <3>1, <3>2
  <2> QED BY <2>1, <2>2, GoesOn, CallbackSafe
<1>5. CASE Retry(q)
  BY <1>5, RetrySafe
<1>6. CASE NoLock(q)
  <2>1. /\ op' = [op EXCEPT ![q] = NoOp]
        /\ UNCHANGED <<phase, conn, connections, in_use>>
        /\ socket' \in [Connections -> Sockets]
        /\ \A c \in Connections : socket[c] # "none" => socket'[c] # "none"
    BY <1>6 DEF NoLock, Drop, calls, pool, IInv, Shape, Phases, Sockets
  <2>2. Shape' /\ Posted' /\ \A p \in Requests : Active(p)' => Active(p)
    <3>1. Shape'
      BY <2>1, OpsFacts DEF IInv, Shape, Phases, Sockets
    <3>2. Posted' /\ \A p \in Requests : Active(p)' => Active(p)
      BY <2>1 DEF IInv, Shape, Posted, Active, Phases, Sockets
    <3> QED BY <3>1, <3>2
  <2> QED BY <2>1, <2>2, PoolUntouched
<1>7. CASE HeaderThrows(q)
  <2>1. /\ op' = [op EXCEPT ![q] = NoOp]
        /\ UNCHANGED <<conn, connections, in_use>>
        /\ socket' \in [Connections -> Sockets]
        /\ \A c \in Connections : socket[c] # "none" => socket'[c] # "none"
    BY <1>7 DEF HeaderThrows, Drop, IInv, Shape, Phases, Sockets
  <2>2. phase' = phase \/ \E p \in Running : phase' = [phase EXCEPT ![p] = "threw"]
    BY <1>7 DEF HeaderThrows, Goto
  <2>3. /\ phase' \in [Requests -> Phases]
        /\ \A p \in Requests : phase'[p] \in {"new", "calling"} => phase[p] = phase'[p]
    BY <2>2 DEF Running, IInv, Shape, Phases
  <2>4. Shape'
    BY <2>1, <2>3, OpsFacts DEF IInv, Shape, Phases, Sockets
  <2>5. Posted' /\ \A p \in Requests : Active(p)' => Active(p)
    BY <2>1, <2>3 DEF IInv, Shape, Posted, Active
  <2> QED BY <2>1, <2>4, <2>5, PoolUntouched
<1> QED BY <1>1, <1>2, <1>3, <1>4, <1>5, <1>6, <1>7 DEF Handles

\* Results of operations, cancelling included, make no session active or inactive.
LEMMA ResultsSafe ==
  ASSUME IInv, UNCHANGED <<phase, conn, in_use>>, connections' \subseteq connections,
         socket' \in [Connections -> Sockets],
         \A c \in Connections : socket[c] # "none" => socket'[c] # "none",
         op' \in [Requests -> Ops],
         \A q \in Requests : op[q] = NoOp => op'[q] = NoOp
  PROVE  IInv'
<1>1. Shape' /\ Posted' /\ \A p \in Requests : Active(p)' => Active(p)
  BY DEF IInv, Shape, Posted, Active, Phases, Sockets
<1> QED BY <1>1, PoolUntouched

\* Cancelling touches operations that are waited for.
LEMMA CancelledIsOp ==
  ASSUME Shape, NEW cs
  PROVE  /\ Cancelled(cs) \in [Requests -> Ops]
         /\ \A q \in Requests : op[q] = NoOp => Cancelled(cs)[q] = NoOp
<1>1. \A o \in Ops : [o EXCEPT !.res = "aborted"] \in Ops
  BY DEF Ops, Results
<1>2. NoOp.res # "wait"
  BY DEF NoOp
<1> QED BY <1>1, <1>2 DEF Shape, Cancelled

LEMMA EnvironmentSafe ==
  ASSUME IInv,
         \/ \E q \in Requests : OpensOrWrites(q) \/ Reads(q) \/ ServesLate(q)
         \/ \E c \in Connections : TimerExpires(c) \/ TimerHandler(c) \/ Serves(c) \/ Closes(c)
         \/ OutOfWork \/ Stop \/ Destroy
  PROVE  IInv'
<1>1. ASSUME NEW q \in Requests, OpensOrWrites(q) \/ Reads(q)
      PROVE  IInv'
  <2>1. /\ op[q].res = "wait"
        /\ \E res \in Results : Completes(q, res)
        /\ UNCHANGED <<phase, conn, in_use, connections, socket>>
    <3>1. CASE OpensOrWrites(q)
      <4>1. UNCHANGED <<phase, conn, in_use, connections, socket>> /\ op[q].res = "wait"
        BY <3>1 DEF OpensOrWrites, calls, pool, sockets
      <4>2. Succeeds(q) \/ Fails(q)
        BY <3>1 DEF OpensOrWrites
      <4> QED BY <4>1, <4>2 DEF Succeeds, Fails, Results
    <3>2. CASE Reads(q)
      <4>1. UNCHANGED <<phase, conn, in_use, connections, socket>> /\ op[q].res = "wait"
        BY <3>2 DEF Reads, calls, pool, sockets
      <4>2. Completes(q, "ok") \/ Completes(q, EndOf(conn[q]))
        BY <3>2 DEF Reads
      <4> QED BY <4>1, <4>2 DEF EndOf, Results
    <3> QED BY <1>1, <3>1, <3>2
  <2>2. /\ op' \in [Requests -> Ops]
        /\ \A p \in Requests : op[p] = NoOp => op'[p] = NoOp
    <3>1. \A o \in Ops, res \in Results : [o EXCEPT !.res = res] \in Ops
      BY DEF Ops, Results
    <3>2. op[q] # NoOp
      BY <2>1 DEF NoOp
    <3>3. PICK o \in Ops : op' = [op EXCEPT ![q] = o]
      BY <2>1, <3>1 DEF Completes, IInv, Shape
    <3> QED BY <3>2, <3>3 DEF IInv, Shape
  <2> QED BY <2>1, <2>2, ResultsSafe DEF IInv, Shape
<1>2. CASE \/ \E c \in Connections : TimerExpires(c) \/ Serves(c) \/ Closes(c)
           \/ \E q \in Requests : ServesLate(q)
  <2>1. UNCHANGED <<phase, op, conn, in_use, connections, socket>>
    BY <1>2 DEF TimerExpires, Serves, Closes, ServesLate, calls, session, pool, sockets
  <2> QED BY <2>1, ResultsSafe DEF IInv, Shape
<1>3. ASSUME NEW c \in Connections, TimerHandler(c)
      PROVE  IInv'
  <2>1. /\ op' = Cancelled({c}) \/ op' = op
        /\ UNCHANGED <<phase, conn, in_use, connections, socket>>
    BY <1>3 DEF TimerHandler, calls, pool
  <2> QED BY <2>1, CancelledIsOp, ResultsSafe DEF IInv, Shape
<1>4. CASE OutOfWork
  <2>1. UNCHANGED <<phase, op, conn, in_use, connections, socket>>
    BY <1>4 DEF OutOfWork, calls, session, pool, sockets
  <2> QED BY <2>1, ResultsSafe DEF IInv, Shape
<1>5. CASE Stop \/ Destroy
  <2>1. /\ op' = Cancelled(connections) /\ connections' = {}
        /\ UNCHANGED <<phase, conn, in_use>>
        /\ socket' \in [Connections -> Sockets]
        /\ \A c \in Connections : socket[c] # "none" => socket'[c] # "none"
    BY <1>5 DEF Stop, Destroy, Drop, calls, IInv, Shape, Phases, Sockets
  <2> QED BY <2>1, CancelledIsOp, ResultsSafe DEF IInv
<1> QED BY <1>1, <1>2, <1>3, <1>4, <1>5

\* The invariant is inductive.
THEOREM StepSafe == IInv /\ [Next]_vars => IInv'
<1> SUFFICES ASSUME IInv, [Next]_vars PROVE IInv'
  OBVIOUS
<1>1. CASE UNCHANGED vars
  <2>1. UNCHANGED <<phase, op, conn, in_use, connections, socket>>
    BY <1>1 DEF vars, calls, session, pool, sockets
  <2> QED BY <2>1, ResultsSafe DEF IInv, Shape
<1>2. CASE Next
  <2>1. ASSUME NEW q \in Requests, Caller(q) PROVE IInv'
    BY <2>1, GetConnectionSafe, CallerSafe DEF Caller
  <2>2. ASSUME NEW q \in Requests, Handles(q) PROVE IInv'
    BY <2>2, HandlesSafe
  <2> QED BY <1>2, <2>1, <2>2, EnvironmentSafe DEF Next
<1> QED BY <1>1, <1>2

\* However requests, retries, stop() and late timers interleave, a connection that serves
\* a request is marked in_use and serves no other (Connection::in_use, client.h:112).
THEOREM OneRequestPerConnection == Spec => []NotShared
<1>1. IInv => NotShared
  BY DEF IInv
<1> QED BY InitSafe, StepSafe, <1>1, PTL DEF Spec

\* The pool never holds two unused connections: what client.h:234 promises of the end of a
\* request holds at all times.
THEOREM AtMostOneIdle == Spec => []OneIdle
<1>1. IInv => OneIdle
  BY DEF IInv
<1> QED BY InitSafe, StepSafe, <1>1, PTL DEF Spec

-----------------------------------------------------------------------------
(* The types, and what has been read: an answer is taken from what was got.  *)

Outcomes   == {"wait", "ok", "err", "eof", "aborted"}
SessionOps == [name : OpNames, res : Outcomes]
PartNames  == {"header", "junk", "body", "huge", "size", "data", "fill", "zero", "crlf",
              "half"}
Parts      == [of : Requests, part : PartNames]

CallTypes ==
  /\ phase \in [Requests -> Phases]
  /\ called \in [Requests -> {"no", "ok", "error"}]

SessionTypes ==
  /\ conn \in [Requests -> Connections \cup {NoConnection}]
  /\ op \in [Requests -> SessionOps \cup {NoOp}]
  /\ got \in [Requests -> Seq(Parts)]
  /\ taken \in [Requests -> Nat]

PoolTypes ==
  /\ connections \subseteq Connections
  /\ in_use \in [Connections -> BOOLEAN] /\ attempt_reconnect \in [Connections -> BOOLEAN]

SocketTypes ==
  /\ socket \in [Connections -> Sockets]
  /\ timer \in [Connections -> BOOLEAN] /\ fired \in [Connections -> BOOLEAN]

NetworkTypes ==
  /\ link \in [Connections -> {"none", "up", "closed", "reset", "gone"}]
  /\ requests \in [Connections -> Seq(Requests)]
  /\ answers \in [Connections -> Seq(Parts)]
  /\ handled \in [Requests -> Nat] /\ late \in [Requests -> Nat]

RestTypes ==
  /\ style \in {"sync", "async"} /\ kind \in [Requests -> Kinds]
  /\ stopped \in BOOLEAN /\ stop_called \in BOOLEAN /\ alive \in BOOLEAN
  /\ faults \in Nat

Typed == CallTypes /\ SessionTypes /\ PoolTypes /\ SocketTypes /\ NetworkTypes /\ RestTypes

\* A part of the answer is there when it is read: the length of a chunk, the chunk, the header.
HasHeader(s) == \E i \in DOMAIN s : IsHeader(s[i])

ReadsPart(q) ==
  /\ taken[q] <= Len(got[q])
  /\ op[q].name = "data" => taken[q] + 1 <= Len(got[q])
  /\ op[q].name = "data" /\ op[q].res = "ok" => taken[q] + 2 <= Len(got[q])
  /\ op[q].name = "size" /\ op[q].res = "ok" => taken[q] + 1 <= Len(got[q])
  /\ op[q].name = "header" /\ op[q].res = "ok" => HasHeader(got[q])

ReadsParts == \A q \in Requests : ReadsPart(q)

TypeInv == IInv /\ Typed /\ ReadsParts

\* Operations that are begun, cancelled or have a result; none is NoOp.
LEMMA SessionOpsFacts ==
  /\ NoOp \notin SessionOps /\ NoOp.name = "none" /\ NoOp.res = "-"
  /\ \A name \in OpNames : Begun(name) \in SessionOps
  /\ \A o \in SessionOps, res \in Outcomes :
       /\ [o EXCEPT !.res = res] \in SessionOps
       /\ [o EXCEPT !.res = res].name = o.name /\ [o EXCEPT !.res = res].res = res
BY DEF SessionOps, NoOp, OpNames, Outcomes, Begun

\* An operation with an outcome belongs to a session, and that to a connection.
LEMMA OpOfSession ==
  ASSUME IInv, Typed, NEW q \in Requests, op[q] # NoOp
  PROVE  /\ op[q] \in SessionOps /\ conn[q] \in Connections
         /\ socket[conn[q]] # "none" /\ in_use[conn[q]]
         /\ phase[q] \notin {"new", "calling"}
         /\ \A p \in Requests \ {q} : Active(p) => conn[p] # conn[q]
<1>1. Active(q)
  BY DEF Active
<1> QED BY <1>1 DEF IInv, Typed, SessionTypes, Created, NotShared, Posted

LEMMA InitTyped == Init => TypeInv
<1> SUFFICES ASSUME Init PROVE TypeInv
  OBVIOUS
<1>1. CallTypes /\ SessionTypes /\ PoolTypes /\ SocketTypes /\ NetworkTypes
  BY DEF Init, CallTypes, SessionTypes, PoolTypes, SocketTypes, NetworkTypes, Phases, Sockets
<1>2. RestTypes
  <2>1. PICK x \in Cases : style = x.style /\ kind = x.kind /\ faults = x.faults
    BY DEF Init
  <2>2. x.style \in {"sync", "async"} /\ x.kind \in [Requests -> Kinds] /\ x.faults \in Nat
    BY ConstantsAssumption
  <2> QED BY <2>1, <2>2 DEF Init, RestTypes
<1>3. ReadsParts
  BY DEF Init, ReadsParts, ReadsPart, NoOp
<1> QED BY <1>1, <1>2, <1>3, InitSafe DEF TypeInv, Typed

-----------------------------------------------------------------------------
(* The effects that handlers have in common keep the types.                  *)

LEMMA CallbackTyped ==
  ASSUME Typed, NEW q \in Requests, NEW result \in {"ok", "error"}, Callback(q, result),
         UNCHANGED <<Elsewhere, got>>, taken' \in [Requests -> Nat],
         attempt_reconnect' \in [Connections -> BOOLEAN]
  PROVE  Typed'
<1> USE DEF Typed
<1>1. CallTypes' /\ SessionTypes'
  BY DEF Callback, CallTypes, SessionTypes
<1>2. connections' \subseteq connections
  BY DEF Callback
<1>3. PoolTypes'
  BY <1>2 DEF Callback, PoolTypes
<1>4. SocketTypes'
  BY DEF Callback, CancelTimeout, Drop, SocketTypes, Sockets, Elsewhere
<1>5. NetworkTypes' /\ RestTypes'
  <2>1. link' \in [Connections -> {"none", "up", "closed", "reset", "gone"}]
    BY DEF Callback, Drop, NetworkTypes
  <2>2. answers' \in [Connections -> Seq(Parts)]
    BY DEF Callback, Drop, NetworkTypes
  <2> QED BY <2>1, <2>2 DEF NetworkTypes, RestTypes, Elsewhere, chosen, bounded
<1> QED BY <1>1, <1>3, <1>4, <1>5

LEMMA ContinueTyped ==
  ASSUME Typed, NEW q \in Requests, NEW name \in OpNames, Continue(q, name),
         UNCHANGED <<Elsewhere, got>>, taken' \in [Requests -> Nat],
         attempt_reconnect' \in [Connections -> BOOLEAN]
  PROVE  Typed'
<1> USE DEF Typed
<1>1. op' = [op EXCEPT ![q] = Begun(name)] /\ Begun(name) \in SessionOps
  BY SessionOpsFacts DEF Continue, Start, Begun
<1>2. CallTypes' /\ SessionTypes'
  BY <1>1 DEF Continue, CallTypes, SessionTypes, calls
<1>3. timer' \in [Connections -> BOOLEAN]
  BY ConstantsAssumption DEF Continue, Start, SocketTypes
<1> QED BY <1>2, <1>3 DEF Continue, PoolTypes, SocketTypes, NetworkTypes, RestTypes,
                          Elsewhere, chosen, bounded

\* The operations that are cancelled are of sessions.
LEMMA CancelledTyped ==
  ASSUME Typed, NEW cs
  PROVE  /\ Cancelled(cs) \in [Requests -> SessionOps \cup {NoOp}]
         /\ \A q \in Requests :
              \/ Cancelled(cs)[q] = op[q]
              \/ /\ op[q] # NoOp /\ op[q].res = "wait" /\ op[q].name # "resolve"
                 /\ Cancelled(cs)[q] = [op[q] EXCEPT !.res = "aborted"]
<1>1. \A q \in Requests : op[q] \in SessionOps \cup {NoOp}
  BY DEF Typed, SessionTypes
<1>2. NoOp.res # "wait"
  BY DEF NoOp
<1>3. \A o \in SessionOps : [o EXCEPT !.res = "aborted"] \in SessionOps
  BY SessionOpsFacts DEF Outcomes
<1> QED BY <1>1, <1>2, <1>3 DEF Cancelled

\* A set of naturals has a least one, and so a buffer with a header a first one.
LEMMA HasFirst ==
  ASSUME NEW T \in SUBSET Nat, T # {}
  PROVE  \E n \in T : \A m \in T : n <= m
<1>1. PICK n \in T : \A m \in T : ~ (<<m, n>> \in OpToRel(<, Nat))
  BY NatLessThanWellFounded, WFMin
<1>2. ASSUME NEW m \in T PROVE n <= m
  <2>1. m \in Nat /\ n \in Nat
    OBVIOUS
  <2>2. ~(m < n)
    BY <1>1, <2>1 DEF OpToRel
  <2> QED BY <2>1, <2>2
<1> QED BY <1>2

LEMMA HeaderEndIs ==
  ASSUME Typed, NEW q \in Requests, HasHeader(got[q])
  PROVE  /\ HeaderEnd(q) \in 1..Len(got[q])
         /\ IsHeader(got[q][HeaderEnd(q)])
         /\ \A j \in 1..(HeaderEnd(q) - 1) : ~IsHeader(got[q][j])
<1> DEFINE T == {i \in 1..Len(got[q]) : IsHeader(got[q][i])}
<1>1. got[q] \in Seq(Parts)
  BY DEF Typed, SessionTypes
<1>2. DOMAIN got[q] = 1..Len(got[q]) /\ Len(got[q]) \in Nat
  BY <1>1
<1>3. T \in SUBSET Nat /\ T # {}
  BY <1>2 DEF HasHeader
<1>4. PICK n \in T : \A m \in T : n <= m
  BY <1>3, HasFirst
<1>5. n \in DOMAIN got[q] /\ IsHeader(got[q][n])
  BY <1>2, <1>4
<1>6. \A j \in 1..(n - 1) : ~IsHeader(got[q][j])
  <2> SUFFICES ASSUME NEW j \in 1..(n - 1), IsHeader(got[q][j]) PROVE FALSE
    OBVIOUS
  <2>1. n \in 1..Len(got[q])
    BY <1>4
  <2>2. j \in 1..Len(got[q]) /\ ~(n <= j)
    BY <1>2, <2>1
  <2> QED BY <2>2, <1>4
<1>7. /\ HeaderEnd(q) \in DOMAIN got[q]
      /\ IsHeader(got[q][HeaderEnd(q)]) /\ \A j \in 1..(HeaderEnd(q) - 1) : ~IsHeader(got[q][j])
  BY <1>5, <1>6 DEF HeaderEnd
<1> QED BY <1>2, <1>7

LEMMA CallerTyped ==
  ASSUME IInv, Typed, NEW q \in Requests, Caller(q)
  PROVE  Typed'
<1> USE DEF Typed
<1>1. CASE GetConnection(q)
  <2>1. PICK c \in IF Idle # {} THEN Idle ELSE {NewConnection} :
          /\ conn' = [conn EXCEPT ![q] = c]
          /\ connections' = connections \cup {c}
          /\ in_use' = [in_use EXCEPT ![c] = TRUE]
          /\ attempt_reconnect' = [attempt_reconnect EXCEPT ![c] = TRUE]
          /\ socket' = [socket EXCEPT ![c] = IF @ = "none" THEN "closed" ELSE @]
    BY <1>1 DEF GetConnection
  <2>2. c \in Connections
    <3>1. Idle \subseteq Connections
      BY DEF Idle, PoolTypes
    <3>2. CASE Idle = {}
      BY <2>1, <3>2, <1>1, NewIsFree DEF GetConnection
    <3> QED BY <2>1, <3>1, <3>2
  <2>3. CallTypes' /\ SessionTypes'
    BY <1>1, <2>1, <2>2 DEF GetConnection, Goto, CallTypes, SessionTypes, Phases
  <2>4. PoolTypes' /\ SocketTypes'
    <3>1. socket' \in [Connections -> Sockets]
      BY <2>1, <2>2 DEF SocketTypes, Sockets
    <3> QED BY <1>1, <2>1, <2>2, <3>1 DEF GetConnection, PoolTypes, SocketTypes
  <2>5. NetworkTypes' /\ RestTypes'
    BY <1>1 DEF GetConnection, network, chosen, bounded, NetworkTypes, RestTypes
  <2> QED BY <2>3, <2>4, <2>5
<1>2. CASE Connect(q)
  <2>1. PICK name \in OpNames : op' = [op EXCEPT ![q] = Begun(name)]
    BY <1>2 DEF Connect, Start, Begun, OpNames
  <2>2. CallTypes' /\ SessionTypes'
    BY <1>2, <2>1, SessionOpsFacts DEF Connect, Goto, CallTypes, SessionTypes, Phases
  <2>3. timer' \in [Connections -> BOOLEAN]
    BY <1>2, ConstantsAssumption DEF Connect, Start, SocketTypes
  <2> QED BY <1>2, <2>2, <2>3 DEF Connect, pool, network, chosen, bounded,
                PoolTypes, SocketTypes, NetworkTypes, RestTypes
<1>3. CASE Count(q) \/ Run(q) \/ RunReturns(q) \/ Returns(q)
  <2>1. /\ \E p \in {"counted", "running", "ran", "returned"} : phase' = [phase EXCEPT ![q] = p]
        /\ UNCHANGED <<called, session, pool, sockets, network, chosen, bounded>>
        /\ stopped' \in BOOLEAN
    BY <1>3 DEF Count, Run, RunReturns, Returns, Goto, RestTypes
  <2>2. CallTypes'
    BY <2>1 DEF CallTypes, Phases
  <2> QED BY <2>1, <2>2 DEF session, pool, sockets, network, chosen, bounded,
                SessionTypes, PoolTypes, SocketTypes, NetworkTypes, RestTypes
<1> QED BY <1>1, <1>2, <1>3 DEF Caller

\* A chunk: the callback or the next length.
LEMMA ChunkTyped ==
  ASSUME Typed, NEW q \in Requests, Chunk(q), UNCHANGED <<Elsewhere, got, attempt_reconnect>>
  PROVE  Typed'
<1>1. taken' \in [Requests -> Nat]
  BY DEF Chunk, Typed, SessionTypes
<1>2. Callback(q, "ok") \/ Callback(q, "error") \/ Continue(q, "size")
  BY DEF Chunk
<1>3. attempt_reconnect' \in [Connections -> BOOLEAN]
  BY DEF Typed, PoolTypes
<1> QED BY <1>1, <1>2, <1>3, CallbackTyped, ContinueTyped DEF OpNames

LEMMA HeaderTyped ==
  ASSUME TypeInv, NEW q \in Requests, HeaderHandler(q)
  PROVE  Typed'
<1>1. attempt_reconnect' \in [Connections -> BOOLEAN] /\ UNCHANGED <<Elsewhere, got>>
  BY DEF HeaderHandler, TypeInv, Typed, PoolTypes
<1>2. HeaderEnd(q) \in Nat
  <2>1. HasHeader(got[q])
    BY DEF HeaderHandler, Handler, TypeInv, ReadsParts, ReadsPart
  <2>2. got[q] \in Seq(Parts)
    BY DEF TypeInv, Typed, SessionTypes
  <2>3. HeaderEnd(q) \in 1..Len(got[q])
    BY <2>1, HeaderEndIs DEF TypeInv
  <2> QED BY <2>2, <2>3
<1>3. taken' = taken \/ taken' = [taken EXCEPT ![q] = HeaderEnd(q)]
  BY DEF HeaderHandler
<1>4. taken' \in [Requests -> Nat]
  BY <1>2, <1>3 DEF TypeInv, Typed, SessionTypes
<1>5. \/ Callback(q, "error") \/ Callback(q, "ok") \/ Continue(q, "content")
      \/ Continue(q, "size") \/ Continue(q, "eof")
  BY DEF HeaderHandler
<1>6. Typed
  BY DEF TypeInv
<1> QED BY <1>1, <1>4, <1>5, <1>6, CallbackTyped, ContinueTyped DEF OpNames

LEMMA RetryTyped ==
  ASSUME IInv, Typed, NEW q \in Requests, Retry(q)
  PROVE  Typed'
<1> USE DEF Typed
<1>1. PICK c : c = NewConnection
  OBVIOUS
<1>2. c \in Connections
  BY <1>1, NewIsFree DEF Retry
<1>3. Begun("resolve") \in SessionOps
  BY SessionOpsFacts DEF OpNames
<1>4. CallTypes' /\ SessionTypes'
  BY <1>1, <1>2, <1>3 DEF Retry, calls, CallTypes, SessionTypes, Begun
<1>5. PoolTypes'
  BY <1>1, <1>2 DEF Retry, PoolTypes
<1>6. SocketTypes'
  <2>1. socket' \in [Connections -> Sockets]
    BY <1>1, <1>2 DEF Retry, SocketTypes, Sockets
  <2>2. timer' \in [Connections -> BOOLEAN]
    BY <1>1, <1>2, ConstantsAssumption DEF Retry, SocketTypes
  <2> QED BY <2>1, <2>2 DEF Retry, Elsewhere, SocketTypes
<1>7. NetworkTypes'
  <2>1. link' \in [Connections -> {"none", "up", "closed", "reset", "gone"}]
    BY DEF Retry, NetworkTypes
  <2>2. answers' \in [Connections -> Seq(Parts)]
    <3>1. <<>> \in Seq(Parts) /\ answers \in [Connections -> Seq(Parts)]
      BY DEF NetworkTypes
    <3>2. answers' = [answers EXCEPT ![conn[q]] = <<>>]
      BY DEF Retry
    <3> QED BY <3>1, <3>2
  <2> QED BY <2>1, <2>2 DEF Retry, Elsewhere, NetworkTypes
<1> QED BY <1>4, <1>5, <1>6, <1>7 DEF Retry, Elsewhere, RestTypes, chosen, bounded

LEMMA HandlesTyped ==
  ASSUME TypeInv, NEW q \in Requests, Handles(q)
  PROVE  Typed'
<1> USE DEF TypeInv
<1>a. taken \in [Requests -> Nat] /\ attempt_reconnect \in [Connections -> BOOLEAN]
  BY DEF Typed, SessionTypes, PoolTypes
<1>1. CASE ResolveHandler(q)
  <2>1. op' = [op EXCEPT ![q] = Begun("connect")] /\ Begun("connect") \in SessionOps
    BY <1>1, SessionOpsFacts DEF ResolveHandler, Start, Begun, OpNames
  <2>2. SessionTypes'
    BY <1>1, <2>1 DEF ResolveHandler, Typed, SessionTypes
  <2>3. SocketTypes'
    BY <1>1, ConstantsAssumption DEF ResolveHandler, Start, Elsewhere, Typed, SocketTypes, Sockets
  <2> QED BY <1>1, <2>2, <2>3 DEF ResolveHandler, Elsewhere, calls, pool, chosen, bounded, Typed,
               CallTypes, PoolTypes, NetworkTypes, RestTypes
<1>2. CASE ConnectHandler(q) \/ WriteHandler(q)
  <2>1. \E name \in OpNames : Continue(q, name)
    BY <1>2 DEF ConnectHandler, WriteHandler, OpNames
  <2>2. UNCHANGED <<Elsewhere, got, taken, attempt_reconnect>>
    BY <1>2 DEF ConnectHandler, WriteHandler
  <2> QED BY <2>1, <2>2, <1>a, ContinueTyped
<1>3. CASE Failed(q) \/ NoRetry(q) \/ TooBig(q) \/ ContentHandler(q)
  <2>1. \E result \in {"ok", "error"} : Callback(q, result)
    BY <1>3 DEF Failed, NoRetry, TooBig, ContentHandler
  <2>2. UNCHANGED <<Elsewhere, got, taken, attempt_reconnect>>
    BY <1>3 DEF Failed, NoRetry, TooBig, ContentHandler
  <2> QED BY <2>1, <2>2, <1>a, CallbackTyped
<1>4. CASE HeaderHandler(q)
  BY <1>4, HeaderTyped
<1>5. CASE SizeHandler(q) \/ DataHandler(q)
  <2>1. UNCHANGED <<Elsewhere, got, attempt_reconnect>>
    BY <1>5 DEF SizeHandler, DataHandler
  <2>2. \/ Chunk(q)
        \/ taken' = taken /\ (Callback(q, "error") \/ Continue(q, "data"))
    BY <1>5 DEF SizeHandler, DataHandler
  <2> QED BY <2>1, <2>2, <1>a, ChunkTyped, CallbackTyped, ContinueTyped DEF OpNames
<1>6. CASE Retry(q)
  BY <1>6, RetryTyped
<1>7. CASE NoLock(q)
  <2>1. SessionTypes'
    BY <1>7 DEF NoLock, Typed, SessionTypes
  <2>2. SocketTypes'
    BY <1>7 DEF NoLock, Drop, CancelTimeout, Elsewhere, Typed, SocketTypes, Sockets
  <2>3. NetworkTypes'
    <3>1. link' \in [Connections -> {"none", "up", "closed", "reset", "gone"}]
      BY <1>7 DEF NoLock, Drop, Typed, NetworkTypes
    <3>2. answers' \in [Connections -> Seq(Parts)]
      BY <1>7 DEF NoLock, Drop, Typed, NetworkTypes
    <3> QED BY <1>7, <3>1, <3>2 DEF NoLock, Elsewhere, Typed, NetworkTypes
  <2> QED BY <1>7, <2>1, <2>2, <2>3 DEF NoLock, Elsewhere, calls, pool, chosen, bounded, Typed,
               CallTypes, PoolTypes, RestTypes
<1>8. CASE HeaderThrows(q)
  <2>1. SessionTypes'
    BY <1>8 DEF HeaderThrows, Typed, SessionTypes
  <2>2. SocketTypes' /\ PoolTypes'
    BY <1>8 DEF HeaderThrows, Drop, CancelTimeout, Typed, SocketTypes, PoolTypes, Sockets
  <2>3. NetworkTypes'
    <3>1. link' \in [Connections -> {"none", "up", "closed", "reset", "gone"}]
      BY <1>8 DEF HeaderThrows, Drop, Typed, NetworkTypes
    <3>2. answers' \in [Connections -> Seq(Parts)]
      BY <1>8 DEF HeaderThrows, Drop, Typed, NetworkTypes
    <3> QED BY <1>8, <3>1, <3>2 DEF HeaderThrows, Typed, NetworkTypes
  <2>4. CallTypes'
    <3>1. phase' = phase \/ \E p \in Requests : phase' = [phase EXCEPT ![p] = "threw"]
      BY <1>8 DEF HeaderThrows, Goto, Running
    <3>2. called' = called
      BY <1>8 DEF HeaderThrows
    <3> QED BY <3>1, <3>2 DEF Typed, CallTypes, Phases
  <2>5. stopped' \in BOOLEAN
    BY <1>8 DEF HeaderThrows, Typed, RestTypes
  <2> QED BY <1>8, <2>1, <2>2, <2>3, <2>4, <2>5 DEF HeaderThrows, chosen, bounded, Typed, RestTypes
<1> QED BY <1>1, <1>2, <1>3, <1>4, <1>5, <1>6, <1>7, <1>8 DEF Handles

-----------------------------------------------------------------------------
(* What the network does to the sequences of parts.                          *)

\* The two ends of a sequence.
LEMMA Cut ==
  ASSUME NEW s \in Seq(Parts), NEW n \in 0..Len(s)
  PROVE  /\ SubSeq(s, 1, n) \in Seq(Parts) /\ Len(SubSeq(s, 1, n)) = n
         /\ \A i \in 1..n : SubSeq(s, 1, n)[i] = s[i]
         /\ SubSeq(s, n + 1, Len(s)) \in Seq(Parts) /\ Len(SubSeq(s, n + 1, Len(s))) = Len(s) - n
         /\ \A i \in 1..(Len(s) - n) : SubSeq(s, n + 1, Len(s))[i] = s[n + i]
<1>1. Len(s) \in Nat /\ n \in Nat /\ n <= Len(s) /\ \A i \in 1..Len(s) : s[i] \in Parts
  OBVIOUS
<1>2. \A i \in 1..n : s[i] \in Parts
  BY <1>1
<1>3. \A i \in n + 1..Len(s) : s[i] \in Parts
  BY <1>1
<1>4. /\ SubSeq(s, 1, n) \in Seq(Parts)
      /\ Len(SubSeq(s, 1, n)) = IF 1 <= n THEN n - 1 + 1 ELSE 0
      /\ \A i \in 1..(n - 1 + 1) : SubSeq(s, 1, n)[i] = s[1 + i - 1]
  BY <1>1, <1>2, SubSeqProperties
<1>5. /\ SubSeq(s, n + 1, Len(s)) \in Seq(Parts)
      /\ Len(SubSeq(s, n + 1, Len(s))) = IF n + 1 <= Len(s) THEN Len(s) - (n + 1) + 1 ELSE 0
      /\ \A i \in 1..(Len(s) - (n + 1) + 1) : SubSeq(s, n + 1, Len(s))[i] = s[n + 1 + i - 1]
  BY <1>1, <1>3, SubSeqProperties
<1>6. /\ n - 1 + 1 = n /\ (IF 1 <= n THEN n - 1 + 1 ELSE 0) = n
      /\ Len(s) - (n + 1) + 1 = Len(s) - n
      /\ (IF n + 1 <= Len(s) THEN Len(s) - (n + 1) + 1 ELSE 0) = Len(s) - n
      /\ \A i \in Int : 1 + i - 1 = i /\ n + 1 + i - 1 = n + i
  BY <1>1
<1>7. ASSUME NEW i \in 1..n PROVE SubSeq(s, 1, n)[i] = s[i]
  <2>1. i \in 1..(n - 1 + 1) /\ 1 + i - 1 = i
    BY <1>1
  <2> QED BY <1>4, <2>1
<1>8. ASSUME NEW i \in 1..(Len(s) - n) PROVE SubSeq(s, n + 1, Len(s))[i] = s[n + i]
  <2>1. i \in 1..(Len(s) - (n + 1) + 1) /\ n + 1 + i - 1 = n + i
    BY <1>1
  <2> QED BY <1>5, <2>1
<1> QED BY <1>4, <1>5, <1>6, <1>7, <1>8

\* Joining: where each part comes from.
LEMMA Joined ==
  ASSUME NEW s \in Seq(Parts), NEW t \in Seq(Parts)
  PROVE  /\ s \o t \in Seq(Parts) /\ Len(s \o t) = Len(s) + Len(t)
         /\ \A i \in 1..Len(s) : (s \o t)[i] = s[i]
         /\ \A i \in 1..Len(t) : (s \o t)[Len(s) + i] = t[i]
         /\ \A i \in 1..(Len(s) + Len(t)) :
              \/ i \in 1..Len(s) /\ (s \o t)[i] = s[i]
              \/ \E j \in 1..Len(t) : i = Len(s) + j /\ (s \o t)[i] = t[j]
<1>1. Len(s) \in Nat /\ Len(t) \in Nat
  OBVIOUS
<1>2. /\ s \o t \in Seq(Parts) /\ Len(s \o t) = Len(s) + Len(t)
      /\ \A i \in 1..(Len(s) + Len(t)) :
           (s \o t)[i] = IF i <= Len(s) THEN s[i] ELSE t[i - Len(s)]
  BY ConcatProperties
<1>3. \A i \in 1..Len(s) : i \in 1..(Len(s) + Len(t)) /\ i <= Len(s)
  BY <1>1
<1>4. \A i \in 1..Len(t) : /\ Len(s) + i \in 1..(Len(s) + Len(t)) /\ ~(Len(s) + i <= Len(s))
                           /\ (Len(s) + i) - Len(s) = i
  BY <1>1
<1>5. \A i \in 1..(Len(s) + Len(t)) :
        /\ i <= Len(s) => i \in 1..Len(s)
        /\ ~(i <= Len(s)) => i - Len(s) \in 1..Len(t) /\ i = Len(s) + (i - Len(s))
  BY <1>1
<1> QED BY <1>2, <1>3, <1>4, <1>5

\* What a read puts in the buffer it takes from the connection.
LEMMA Received ==
  ASSUME Typed, NEW q \in Requests, conn[q] \in Connections,
         NEW n \in 0..Len(answers[conn[q]]), Receive(q, n)
  PROVE  /\ got' \in [Requests -> Seq(Parts)] /\ answers' \in [Connections -> Seq(Parts)]
         /\ got'[q] = got[q] \o SubSeq(answers[conn[q]], 1, n)
         /\ answers'[conn[q]] = SubSeq(answers[conn[q]], n + 1, Len(answers[conn[q]]))
         /\ Len(got'[q]) = Len(got[q]) + n
         /\ Len(answers'[conn[q]]) = Len(answers[conn[q]]) - n
         /\ \A p \in Requests \ {q} : got'[p] = got[p]
         /\ \A c \in Connections \ {conn[q]} : answers'[c] = answers[c]
<1>1. PICK s : s = answers[conn[q]]
  OBVIOUS
<1>2. s \in Seq(Parts) /\ got[q] \in Seq(Parts) /\ n \in 0..Len(s)
  BY <1>1 DEF Typed, NetworkTypes, SessionTypes
<1>3. PICK head, rest : head = SubSeq(s, 1, n) /\ rest = SubSeq(s, n + 1, Len(s))
  OBVIOUS
<1>4. head \in Seq(Parts) /\ rest \in Seq(Parts) /\ Len(head) = n /\ Len(rest) = Len(s) - n
  BY <1>2, <1>3, Cut
<1>5. PICK all : all = got[q] \o head
  OBVIOUS
<1>6. all \in Seq(Parts) /\ Len(all) = Len(got[q]) + n
  BY <1>2, <1>4, <1>5, Joined
<1>7. got' = [got EXCEPT ![q] = all] /\ answers' = [answers EXCEPT ![conn[q]] = rest]
  BY <1>1, <1>3, <1>5 DEF Receive
<1>8. got' \in [Requests -> Seq(Parts)] /\ got'[q] = all
      /\ \A p \in Requests \ {q} : got'[p] = got[p]
  BY <1>6, <1>7 DEF Typed, SessionTypes
<1>9. answers' \in [Connections -> Seq(Parts)] /\ answers'[conn[q]] = rest
      /\ \A c \in Connections \ {conn[q]} : answers'[c] = answers[c]
  BY <1>4, <1>7 DEF Typed, NetworkTypes
<1> QED BY <1>1, <1>3, <1>4, <1>5, <1>6, <1>8, <1>9

\* The answers of each kind: their parts, and their one header, which comes first.
LEMMA AnswerKinds ==
  ASSUME NEW k \in Kinds
  PROVE  /\ AnswerParts[k] \in Seq(PartNames)
         /\ \A i \in DOMAIN AnswerParts[k] : AnswerParts[k][i] = "header" => i = 1
<1> DEFINE Good(a) == a \in Seq(PartNames) /\ \A i \in DOMAIN a : a[i] = "header" => i = 1
<1> USE DEF PartNames
<1>1. /\ Good(<<"header", "body">>) /\ Good(<<"header", "huge">>) /\ Good(<<"header", "junk">>)
      /\ Good(<<"header">>) /\ Good(<<"junk">>)
  OBVIOUS
<1>2. Good(<<"header", "size", "data", "zero", "crlf">>)
  OBVIOUS
<1>3. Good(<<"header", "size", "huge", "zero", "crlf">>)
  OBVIOUS
<1>a. Good(<<"header", "size", "data", "fill", "data", "zero", "crlf">>)
  OBVIOUS
<1>4. AnswerParts[k] \in {<<"header", "size", "data", "fill", "data", "zero", "crlf">>, <<"header", "body">>, <<"header", "huge">>, <<"header", "junk">>,
        <<"header">>, <<"junk">>, <<"header", "size", "data", "zero", "crlf">>,
        <<"header", "size", "huge", "zero", "crlf">>}
  BY DEF AnswerParts, Kinds, ByLength, InChunks, ToTheEnd, AtHeader
<1> HIDE DEF Good
<1>5. Good(AnswerParts[k])
  BY <1>1, <1>2, <1>3, <1>a, <1>4
<1> QED BY <1>5 DEF Good

LEMMA AnswerTyped ==
  ASSUME Typed, NEW q \in Requests
  PROVE  /\ Answer(q) \in Seq(Parts) /\ Len(Answer(q)) = Len(AnswerParts[kind[q]])
         /\ \A i \in 1..Len(Answer(q)) : Answer(q)[i] = Part(q, AnswerParts[kind[q]][i])
         /\ \A i \in 1..Len(Answer(q)) : Answer(q)[i].part = "header" => i = 1
<1>1. PICK a : a = AnswerParts[kind[q]]
  OBVIOUS
<1>2. kind[q] \in Kinds
  BY DEF Typed, RestTypes
<1>3. a \in Seq(PartNames) /\ \A i \in DOMAIN a : a[i] = "header" => i = 1
  BY <1>1, <1>2, AnswerKinds
<1>4. DOMAIN a = 1..Len(a) /\ Len(a) \in Nat /\ \A i \in 1..Len(a) : a[i] \in PartNames
  BY <1>3
<1>5. Answer(q) = [i \in 1..Len(a) |-> Part(q, a[i])]
  BY <1>1, <1>4 DEF Answer
<1>6. \A i \in 1..Len(a) : Part(q, a[i]) \in Parts /\ Part(q, a[i]).part = a[i]
  BY <1>4 DEF Part, Parts
<1>7. Answer(q) \in Seq(Parts) /\ Len(Answer(q)) = Len(a)
  BY <1>4, <1>5, <1>6
<1> QED BY <1>1, <1>3, <1>4, <1>5, <1>6, <1>7

\* An operation that completes keeps its name.
LEMMA Completed ==
  ASSUME Typed, NEW q \in Requests, op[q].res = "wait", NEW res \in Outcomes, Completes(q, res)
  PROVE  /\ op[q] # NoOp /\ op[q] \in SessionOps
         /\ op' \in [Requests -> SessionOps \cup {NoOp}]
         /\ op'[q] \in SessionOps /\ op'[q] # NoOp
         /\ op'[q].name = op[q].name /\ op'[q].res = res
         /\ \A p \in Requests \ {q} : op'[p] = op[p]
<1>1. op[q] # NoOp
  BY SessionOpsFacts
<1>2. op \in [Requests -> SessionOps \cup {NoOp}] /\ op[q] \in SessionOps
  BY <1>1 DEF Typed, SessionTypes
<1>3. PICK o : o = [op[q] EXCEPT !.res = res]
  OBVIOUS
<1>4. o \in SessionOps /\ o.name = op[q].name /\ o.res = res /\ o # NoOp
  BY <1>2, <1>3, SessionOpsFacts
<1>5. op' = [op EXCEPT ![q] = o]
  BY <1>3, <1>2 DEF Completes
<1> QED BY <1>1, <1>2, <1>4, <1>5

\* A read: some parts are received, and the operation completes.
LEMMA ReadReceives ==
  ASSUME IInv, Typed, NEW q \in Requests, Reads(q)
  PROVE  /\ op[q].res = "wait" /\ op[q] # NoOp /\ conn[q] \in Connections
         /\ \E n \in 0..Len(answers[conn[q]]) : \E res \in {"ok", "eof", "err"} :
              /\ Receive(q, n) /\ Completes(q, res)
              /\ res # "ok" => link[conn[q]] # "up"
<1>1. op[q].res = "wait"
  BY DEF Reads
<1>2. op[q] # NoOp
  BY <1>1, SessionOpsFacts
<1>3. conn[q] \in Connections
  BY <1>2, OpOfSession
<1>4. PICK n : n = Len(answers[conn[q]])
  OBVIOUS
<1>5. n \in Nat
  BY <1>3, <1>4 DEF Typed, NetworkTypes
<1>6. 0..n \subseteq 0..n /\ 1..n \subseteq 0..n /\ n \in 0..n /\ (n > 0 => 1 \in 0..n)
  BY <1>5
<1>7. \/ \E i \in 0..n : Receive(q, i) /\ Completes(q, "ok")
      \/ Receive(q, n) /\ Completes(q, EndOf(conn[q])) /\ link[conn[q]] # "up"
  <2>1. \/ \E i \in 1..n : Receive(q, i) /\ Completes(q, "ok")
        \/ \E i \in (IF Len(got[q]) > taken[q] THEN 0 ELSE 1)..n :
             Receive(q, i) /\ Completes(q, "ok")
        \/ n > 0 /\ Receive(q, 1) /\ Completes(q, "ok")
        \/ n > 0 /\ Receive(q, n) /\ Completes(q, "ok")
        \/ Receive(q, n) /\ Completes(q, EndOf(conn[q])) /\ link[conn[q]] # "up"
    BY <1>4 DEF Reads
  <2> QED BY <2>1, <1>6
<1>8. EndOf(conn[q]) \in {"eof", "err"}
  BY DEF EndOf
<1> QED BY <1>1, <1>2, <1>3, <1>4, <1>6, <1>7, <1>8

LEMMA FaultTyped == ASSUME RestTypes, Fault PROVE faults' \in Nat
BY ConstantsAssumption DEF RestTypes, Fault

LEMMA OperationTyped ==
  ASSUME IInv, Typed, NEW q \in Requests, OpensOrWrites(q)
  PROVE  Typed'
<1> USE DEF Typed
<1>1. op[q].res = "wait" /\ \E res \in Outcomes : Completes(q, res)
  BY DEF OpensOrWrites, Succeeds, Fails, Outcomes
<1>2. op' \in [Requests -> SessionOps \cup {NoOp}]
  BY <1>1, Completed
<1>3. link' \in [Connections -> {"none", "up", "closed", "reset", "gone"}]
  BY DEF OpensOrWrites, NetworkTypes
<1>4. requests' \in [Connections -> Seq(Requests)]
  <2>1. requests' = requests \/ requests' = [requests EXCEPT ![conn[q]] = Append(@, q)]
    BY DEF OpensOrWrites
  <2>2. conn[q] \in Connections
    BY <1>1, OpOfSession, SessionOpsFacts
  <2>3. PICK s : s = Append(requests[conn[q]], q)
    OBVIOUS
  <2>4. s \in Seq(Requests)
    BY <2>2, <2>3 DEF NetworkTypes
  <2>5. requests' = requests \/ requests' = [requests EXCEPT ![conn[q]] = s]
    BY <2>1, <2>2, <2>3 DEF NetworkTypes
  <2> QED BY <2>4, <2>5 DEF NetworkTypes
<1>5. faults' \in Nat
  <2>1. Succeeds(q) \/ Fails(q)
    BY DEF OpensOrWrites
  <2> QED BY <2>1, FaultTyped DEF Succeeds, Fails, RestTypes
<1>6. UNCHANGED <<calls, conn, got, taken, pool, sockets, stopped, answers, handled, late,
                  chosen, stop_called, alive>>
  BY DEF OpensOrWrites
<1> QED BY <1>2, <1>3, <1>4, <1>5, <1>6 DEF calls, pool, sockets, chosen,
              CallTypes, SessionTypes, PoolTypes, SocketTypes, NetworkTypes, RestTypes

LEMMA ReadTyped ==
  ASSUME IInv, Typed, NEW q \in Requests, Reads(q)
  PROVE  Typed'
<1>1. /\ op[q].res = "wait" /\ conn[q] \in Connections
      /\ \E n \in 0..Len(answers[conn[q]]) : Receive(q, n)
      /\ \E res \in Outcomes : Completes(q, res)
  BY ReadReceives DEF Outcomes
<1>2. op' \in [Requests -> SessionOps \cup {NoOp}]
  BY <1>1, Completed
<1>3. got' \in [Requests -> Seq(Parts)] /\ answers' \in [Connections -> Seq(Parts)]
  BY <1>1, Received
<1>4. UNCHANGED <<calls, conn, taken, pool, sockets, stopped, link, requests, handled, late, chosen, bounded>>
  BY DEF Reads
<1> QED BY <1>2, <1>3, <1>4 DEF calls, pool, sockets, chosen, bounded, Typed,
              CallTypes, SessionTypes, PoolTypes, SocketTypes, NetworkTypes, RestTypes

\* The server has one more request served, or fewer of everything.
LEMMA ServerTyped ==
  ASSUME Typed, NEW c \in Connections, Serves(c) \/ Closes(c)
  PROVE  Typed'
<1>1. UNCHANGED <<calls, session, pool, sockets, stopped, chosen, stop_called, alive>>
  BY DEF Serves, Closes, bounded
<1>a. requests[c] \in Seq(Requests) /\ answers[c] \in Seq(Parts)
  BY DEF Typed, NetworkTypes
<1>2. CASE Serves(c)
  <2>1. PICK q : q = Head(requests[c])
    OBVIOUS
  <2>2. requests[c] # <<>> /\ q \in Requests /\ Tail(requests[c]) \in Seq(Requests)
    BY <1>2, <1>a, <2>1 DEF Serves
  <2>3. /\ handled' = [handled EXCEPT ![q] = @ + 1]
        /\ requests' = [requests EXCEPT ![c] = Tail(@)]
        /\ link' = link \/ link' = [link EXCEPT ![c] = IF kind[q] \in ToTheEnd \cup {"unstated"} THEN "closed" ELSE @]
        /\ answers' = answers \/ answers' = [answers EXCEPT ![c] = @ \o Answer(q)]
        /\ faults' = faults /\ late' = late
    BY <1>2, <2>1 DEF Serves, bounded
  <2>4. answers[c] \o Answer(q) \in Seq(Parts)
    BY <1>a, <2>2, AnswerTyped, Joined
  <2>5. answers' \in [Connections -> Seq(Parts)]
    BY <2>3, <2>4 DEF Typed, NetworkTypes
  <2>6. requests' \in [Connections -> Seq(Requests)] /\ handled' \in [Requests -> Nat]
    BY <2>2, <2>3 DEF Typed, NetworkTypes
  <2>7. link' \in [Connections -> {"none", "up", "closed", "reset", "gone"}]
    BY <2>3 DEF Typed, NetworkTypes
  <2> QED BY <1>1, <2>3, <2>5, <2>6, <2>7 DEF calls, session, pool, sockets, chosen, Typed,
              CallTypes, SessionTypes, PoolTypes, SocketTypes, NetworkTypes, RestTypes
<1>3. CASE Closes(c)
  <2>1. link' \in [Connections -> {"none", "up", "closed", "reset", "gone"}]
    BY <1>3 DEF Closes, Typed, NetworkTypes
  <2>2. requests' \in [Connections -> Seq(Requests)]
    <3>1. <<>> \in Seq(Requests) /\ requests' = [requests EXCEPT ![c] = <<>>]
      BY <1>3 DEF Closes
    <3> QED BY <3>1 DEF Typed, NetworkTypes
  <2>3. PICK s : s \in Seq(Parts) /\ answers' = [answers EXCEPT ![c] = s]
    <3>1. CASE \E n \in 0..Len(answers[c]) : answers' = [answers EXCEPT ![c] = SubSeq(@, 1, n)]
      BY <3>1, <1>a, Cut DEF Typed, NetworkTypes
    <3>2. ASSUME NEW n \in 0..Len(answers[c]) - 1,
                 answers' = [answers EXCEPT ![c] = Append(SubSeq(@, 1, n), Part(@[n + 1].of, "half"))]
          PROVE  \E s \in Seq(Parts) : answers' = [answers EXCEPT ![c] = s]
      <4>1. n \in 0..Len(answers[c]) /\ n + 1 \in 1..Len(answers[c])
        BY <1>a
      <4>2. answers[c][n + 1].of \in Requests
        <5>1. answers[c][n + 1] \in Parts
          BY <1>a, <4>1, ElementOfSeq
        <5> QED BY <5>1 DEF Parts
      <4>3. Part(answers[c][n + 1].of, "half") \in Parts
        BY <4>2 DEF Part, Parts, PartNames
      <4>4. SubSeq(answers[c], 1, n) \in Seq(Parts)
        BY <1>a, <4>1, Cut
      <4>5. Append(SubSeq(answers[c], 1, n), Part(answers[c][n + 1].of, "half")) \in Seq(Parts)
        BY <4>3, <4>4, AppendProperties
      <4> QED BY <3>2, <4>5 DEF Typed, NetworkTypes
    <3> QED BY <1>3, <3>1, <3>2 DEF Closes
  <2>4. answers' \in [Connections -> Seq(Parts)]
    BY <2>3 DEF Typed, NetworkTypes
  <2>5. faults' \in Nat /\ handled' = handled
    BY <1>3, FaultTyped DEF Closes, Typed
  <2>6. late' \in [Requests -> Nat]
    <3>1. CASE late' = late
      BY <3>1 DEF Typed, NetworkTypes
    <3>2. CASE requests[c] # <<>> /\ late' = [late EXCEPT ![Head(requests[c])] = @ + 1]
      <4>1. Head(requests[c]) \in Requests
        BY <1>a, <3>2
      <4> QED BY <3>2, <4>1 DEF Typed, NetworkTypes
    <3> QED BY <1>3, <3>1, <3>2 DEF Closes
  <2> QED BY <1>1, <2>1, <2>2, <2>4, <2>5, <2>6 DEF calls, session, pool, sockets, chosen, Typed,
              CallTypes, SessionTypes, PoolTypes, SocketTypes, NetworkTypes, RestTypes
<1> QED BY <1>2, <1>3

LEMMA LateTyped ==
  ASSUME Typed, NEW q \in Requests, ServesLate(q)
  PROVE  Typed'
<1>1. handled' \in [Requests -> Nat] /\ late' \in [Requests -> Nat]
  BY DEF ServesLate, Typed, NetworkTypes
<1> QED BY <1>1 DEF ServesLate, calls, session, pool, sockets, chosen, bounded, Typed,
              CallTypes, SessionTypes, PoolTypes, SocketTypes, NetworkTypes, RestTypes

LEMMA TimersTyped ==
  ASSUME Typed,
         \/ \E c \in Connections : TimerExpires(c) \/ TimerHandler(c)
         \/ OutOfWork \/ Stop \/ Destroy \/ UNCHANGED vars
  PROVE  Typed'
<1>1. ASSUME NEW c \in Connections, TimerExpires(c) PROVE Typed'
  BY <1>1, FaultTyped DEF TimerExpires, calls, session, pool, network, chosen, Typed,
              CallTypes, SessionTypes, PoolTypes, SocketTypes, NetworkTypes, RestTypes
<1>2. ASSUME NEW c \in Connections, TimerHandler(c) PROVE Typed'
  <2>1. op' \in [Requests -> SessionOps \cup {NoOp}]
    BY <1>2, CancelledTyped DEF TimerHandler, Typed, SessionTypes
  <2> QED BY <1>2, <2>1 DEF TimerHandler, calls, pool, network, chosen, bounded, Typed,
              CallTypes, SessionTypes, PoolTypes, SocketTypes, NetworkTypes, RestTypes
<1>3. CASE OutOfWork
  BY <1>3 DEF OutOfWork, calls, session, pool, sockets, network, chosen, bounded, Typed,
              CallTypes, SessionTypes, PoolTypes, SocketTypes, NetworkTypes, RestTypes
<1>4. CASE Stop \/ Destroy
  <2>1. op' \in [Requests -> SessionOps \cup {NoOp}]
    BY <1>4, CancelledTyped DEF Stop, Destroy
  <2>2. Drop(Idle) /\ connections' = {} /\ faults' \in Nat
    BY <1>4, FaultTyped DEF Stop, Destroy, Typed
  <2>3. /\ socket' \in [Connections -> Sockets]
        /\ link' \in [Connections -> {"none", "up", "closed", "reset", "gone"}]
    BY <2>2 DEF Drop, Typed, SocketTypes, NetworkTypes, Sockets
  <2>4. answers' \in [Connections -> Seq(Parts)]
    BY <2>2 DEF Drop, Typed, NetworkTypes
  <2>5. stop_called' \in BOOLEAN /\ alive' \in BOOLEAN
        /\ UNCHANGED <<calls, conn, got, taken, in_use, attempt_reconnect, timer, fired,
                       stopped, requests, handled, late, chosen>>
    BY <1>4 DEF Stop, Destroy, Typed, RestTypes
  <2> QED BY <2>1, <2>2, <2>3, <2>4, <2>5 DEF calls, chosen, Typed,
              CallTypes, SessionTypes, PoolTypes, SocketTypes, NetworkTypes, RestTypes
<1>5. CASE UNCHANGED vars
  BY <1>5 DEF vars, calls, session, pool, sockets, network, chosen, bounded, Typed,
              CallTypes, SessionTypes, PoolTypes, SocketTypes, NetworkTypes, RestTypes
<1> QED BY <1>1, <1>2, <1>3, <1>4, <1>5

LEMMA TypedStep == TypeInv /\ [Next]_vars => Typed'
<1> SUFFICES ASSUME TypeInv, [Next]_vars PROVE Typed'
  OBVIOUS
<1>1. ASSUME NEW q \in Requests, Caller(q) \/ Handles(q) \/ OpensOrWrites(q) \/ Reads(q)
                                 \/ ServesLate(q)
      PROVE  Typed'
  BY <1>1, CallerTyped, HandlesTyped, OperationTyped, ReadTyped, LateTyped DEF TypeInv
<1>2. ASSUME NEW c \in Connections, Serves(c) \/ Closes(c)
      PROVE  Typed'
  BY <1>2, ServerTyped DEF TypeInv
<1> QED BY <1>1, <1>2, TimersTyped DEF Next, TypeInv

-----------------------------------------------------------------------------
(* What an answer is read from has come.                                     *)

\* Neither what came nor what was read changes, and nobody goes on to read a chunk.
LEMMA NothingRead ==
  ASSUME ReadsParts, UNCHANGED <<got, taken>>,
         \A p \in Requests :
           \/ op'[p] = op[p]
           \/ op'[p].res # "ok" /\ (op'[p].name = "data" => op[p].name = "data")
           \/ op'[p].name \notin {"data", "size", "header"}
  PROVE  ReadsParts'
BY DEF ReadsParts, ReadsPart, HasHeader

\* The session of q has read n parts; a chunk is not read next.
LEMMA PartsRead ==
  ASSUME Typed, ReadsParts, NEW q \in Requests, got' = got,
         NEW n \in Nat, n <= Len(got[q]), taken' = [taken EXCEPT ![q] = n],
         \A p \in Requests \ {q} : op'[p] = op[p],
         op'[q].res # "ok", op'[q].name # "data"
  PROVE  ReadsParts'
<1>1. taken'[q] = n /\ \A p \in Requests \ {q} : taken'[p] = taken[p]
  BY DEF Typed, SessionTypes
<1> QED BY <1>1 DEF ReadsParts, ReadsPart, HasHeader

\* What a callback and a start make of the operations.
LEMMA Outstanding ==
  ASSUME Typed, NEW q \in Requests
  PROVE  /\ \A result : Callback(q, result) =>
              op'[q] = NoOp /\ \A p \in Requests \ {q} : op'[p] = op[p]
         /\ \A name : Continue(q, name) =>
              op'[q] = Begun(name) /\ \A p \in Requests \ {q} : op'[p] = op[p]
         /\ NoOp.res # "ok" /\ NoOp.name = "none"
         /\ \A name : Begun(name).res = "wait" /\ Begun(name).name = name
BY DEF Callback, Continue, Start, Begun, NoOp, Typed, SessionTypes

LEMMA CallerReads ==
  ASSUME IInv, Typed, ReadsParts, NEW q \in Requests, Caller(q)
  PROVE  ReadsParts'
<1>1. CASE Connect(q)
  <2>1. PICK name \in {"write", "resolve"} : op' = [op EXCEPT ![q] = Begun(name)]
    BY <1>1 DEF Connect, Start, Begun
  <2>2. Begun(name).name = name /\ op'[q] = Begun(name) /\ \A p \in Requests \ {q} : op'[p] = op[p]
    BY <2>1, Outstanding DEF Typed, SessionTypes
  <2>3. UNCHANGED <<got, taken>>
    BY <1>1 DEF Connect
  <2> QED BY <2>2, <2>3, NothingRead
<1>2. CASE GetConnection(q) \/ Count(q) \/ Run(q) \/ RunReturns(q) \/ Returns(q)
  <2>1. UNCHANGED <<op, got, taken>>
    BY <1>2 DEF GetConnection, Count, Run, RunReturns, Returns, session
  <2> QED BY <2>1, NothingRead
<1> QED BY <1>1, <1>2 DEF Caller

\* After a chunk its line break has come too.
LEMMA ChunkReads ==
  ASSUME Typed, ReadsParts, NEW q \in Requests, Chunk(q), got' = got,
         taken[q] + 2 <= Len(got[q])
  PROVE  ReadsParts'
<1>1. taken[q] \in Nat /\ taken' = [taken EXCEPT ![q] = taken[q] + 2]
  BY DEF Chunk, Typed, SessionTypes
<1>2. Callback(q, "ok") \/ Callback(q, "error") \/ Continue(q, "size")
  BY DEF Chunk
<1>3. /\ op'[q].res # "ok" /\ op'[q].name # "data"
      /\ \A p \in Requests \ {q} : op'[p] = op[p]
  BY <1>2, Outstanding
<1>4. taken[q] + 2 \in Nat
  BY <1>1
<1> QED BY <1>1, <1>3, <1>4, PartsRead

LEMMA HeaderReads ==
  ASSUME TypeInv, NEW q \in Requests, HeaderHandler(q)
  PROVE  ReadsParts'
<1> USE DEF TypeInv
<1>1. got' = got
  BY DEF HeaderHandler
<1>2. \/ Callback(q, "error") \/ Callback(q, "ok") \/ Continue(q, "content")
      \/ Continue(q, "size") \/ Continue(q, "eof")
  BY DEF HeaderHandler
<1>3. /\ op'[q].res # "ok" /\ op'[q].name # "data"
      /\ \A p \in Requests \ {q} : op'[p] = op[p]
  BY <1>2, Outstanding
<1>4. taken' = taken \/ taken' = [taken EXCEPT ![q] = HeaderEnd(q)]
  BY DEF HeaderHandler
<1>5. HeaderEnd(q) \in Nat /\ HeaderEnd(q) <= Len(got[q])
  <2>1. HasHeader(got[q])
    BY DEF HeaderHandler, Handler, ReadsParts, ReadsPart
  <2>2. HeaderEnd(q) \in 1..Len(got[q]) /\ Len(got[q]) \in Nat
    BY <2>1, HeaderEndIs DEF Typed, SessionTypes
  <2> QED BY <2>2
<1>6. CASE taken' = taken
  <2>1. \A p \in Requests : op'[p] = op[p] \/ (op'[p].res # "ok" /\ op'[p].name # "data")
    BY <1>3
  <2> QED BY <1>1, <1>6, <2>1, NothingRead
<1>7. CASE taken' = [taken EXCEPT ![q] = HeaderEnd(q)]
  BY <1>1, <1>3, <1>5, <1>7, PartsRead
<1> QED BY <1>4, <1>6, <1>7

LEMMA HandlesReads ==
  ASSUME TypeInv, NEW q \in Requests, Handles(q)
  PROVE  ReadsParts'
<1> USE DEF TypeInv
<1>a. taken[q] \in Nat /\ Len(got[q]) \in Nat
  BY DEF Typed, SessionTypes
<1>1. CASE ResolveHandler(q) \/ ConnectHandler(q) \/ WriteHandler(q)
  <2>1. PICK name \in {"connect", "write", "header"} : op' = [op EXCEPT ![q] = Begun(name)]
    BY <1>1 DEF ResolveHandler, ConnectHandler, WriteHandler, Continue, Start, Begun
  <2>2. UNCHANGED <<got, taken>>
    BY <1>1 DEF ResolveHandler, ConnectHandler, WriteHandler
  <2>3. /\ op'[q].res # "ok" /\ op'[q].name # "data"
        /\ \A p \in Requests \ {q} : op'[p] = op[p]
    BY <2>1, Outstanding DEF Typed, SessionTypes
  <2> QED BY <2>2, <2>3, NothingRead
<1>2. CASE Failed(q) \/ NoRetry(q) \/ TooBig(q) \/ ContentHandler(q) \/ NoLock(q)
           \/ HeaderThrows(q)
  <2>1. op'[q] = NoOp /\ \A p \in Requests \ {q} : op'[p] = op[p]
    <3>1. CASE NoLock(q) \/ HeaderThrows(q)
      BY <3>1 DEF NoLock, HeaderThrows, Typed, SessionTypes
    <3>2. CASE ~(NoLock(q) \/ HeaderThrows(q))
      <4>1. \E result : Callback(q, result)
        BY <1>2, <3>2 DEF Failed, NoRetry, TooBig, ContentHandler
      <4> QED BY <4>1, Outstanding
    <3> QED BY <3>1, <3>2
  <2>2. UNCHANGED <<got, taken>>
    BY <1>2 DEF Failed, NoRetry, TooBig, ContentHandler, NoLock, HeaderThrows
  <2>3. NoOp.res # "ok" /\ NoOp.name = "none"
    BY DEF NoOp
  <2> QED BY <2>1, <2>2, <2>3, NothingRead
<1>3. CASE HeaderHandler(q)
  BY <1>3, HeaderReads
<1>4. CASE SizeHandler(q)
  <2>1. op[q].name = "size" /\ op[q].res = "ok" /\ got' = got
    BY <1>4 DEF SizeHandler, Handler
  <2>2. taken[q] + 1 <= Len(got[q])
    BY <2>1 DEF ReadsParts, ReadsPart
  <2>3. CASE Chunk(q) /\ Len(got[q]) > taken[q] + 1
    <3>1. taken[q] + 2 <= Len(got[q])
      BY <1>a, <2>3
    <3> QED BY <2>1, <2>3, <3>1, ChunkReads
  <2>4. CASE (Callback(q, "error") \/ Continue(q, "data")) /\ taken' = taken
    <3>1. \A p \in Requests \ {q} : op'[p] = op[p]
      BY <2>4, Outstanding
    <3>2. op'[q] \in {NoOp, Begun("data")}
      BY <2>4, Outstanding
    <3>3. op'[q].res # "ok" /\ op'[q].name \notin {"size", "header"}
      BY <3>2, Outstanding
    <3>4. \A p \in Requests \ {q} : ReadsPart(p)'
      BY <2>1, <2>4, <3>1 DEF ReadsParts, ReadsPart, HasHeader
    <3>5. ReadsPart(q)'
      BY <2>1, <2>2, <2>4, <3>3 DEF ReadsParts, ReadsPart
    <3> QED BY <3>4, <3>5 DEF ReadsParts
  <2> QED BY <1>4, <2>3, <2>4 DEF SizeHandler
<1>5. CASE DataHandler(q)
  <2>1. op[q].name = "data" /\ op[q].res = "ok" /\ got' = got
    BY <1>5 DEF DataHandler, Handler
  <2>2. taken[q] + 2 <= Len(got[q])
    BY <2>1 DEF ReadsParts, ReadsPart
  <2>3. CASE Chunk(q)
    BY <2>1, <2>2, <2>3, ChunkReads
  <2>4. CASE Callback(q, "error") /\ taken' = taken
    <3>1. /\ op'[q].res # "ok" /\ op'[q].name # "data"
          /\ \A p \in Requests \ {q} : op'[p] = op[p]
      BY <2>4, Outstanding
    <3> QED BY <2>1, <2>4, <3>1, NothingRead
  <2> QED BY <1>5, <2>3, <2>4 DEF DataHandler
<1>6. CASE Retry(q)
  <2>1. op' = [op EXCEPT ![q] = Begun("resolve")] /\ UNCHANGED <<got, taken>>
    BY <1>6 DEF Retry, Begun
  <2>2. /\ op'[q].res # "ok" /\ op'[q].name # "data"
        /\ \A p \in Requests \ {q} : op'[p] = op[p]
    BY <2>1, Outstanding DEF Typed, SessionTypes
  <2> QED BY <2>1, <2>2, NothingRead
<1> QED BY <1>1, <1>2, <1>3, <1>4, <1>5, <1>6 DEF Handles

\* A read that ends well has what it waited for.
LEMMA ReadReads ==
  ASSUME IInv, Typed, ReadsParts, NEW q \in Requests, Reads(q)
  PROVE  ReadsParts'
<1> DEFINE c == conn[q]
<1>1. op[q].res = "wait" /\ op[q] # NoOp /\ c \in Connections /\ taken' = taken
  BY ReadReceives DEF Reads
<1>2. answers[c] \in Seq(Parts) /\ got[q] \in Seq(Parts) /\ taken[q] \in Nat
  BY <1>1 DEF Typed, SessionTypes, NetworkTypes
<1>3. Len(answers[c]) \in Nat /\ Len(got[q]) \in Nat
  BY <1>2
<1>4. PICK n \in 0..Len(answers[c]), res \in {"ok", "eof", "err"} :
        /\ Receive(q, n) /\ Completes(q, res)
        /\ res = "ok" /\ op[q].name = "header" => \E j \in 1..n : IsHeader(answers[c][j])
        /\ res = "ok" /\ op[q].name = "size" => Len(got[q]) > taken[q] \/ n >= 1
        /\ res = "ok" /\ op[q].name = "data" => n = 1
  <2>1. PICK len : len = Len(answers[c])
    OBVIOUS
  <2>2. len \in Nat
    BY <1>3, <2>1
  <2>3. CASE /\ op[q].name = "header"
             /\ \E i \in 1..len : /\ \E j \in 1..i : IsHeader(answers[c][j])
                                  /\ Receive(q, i)
             /\ Completes(q, "ok")
    BY <2>1, <2>2, <2>3
  <2>4. CASE /\ op[q].name = "size"
             /\ \E i \in (IF Len(got[q]) > taken[q] THEN 0 ELSE 1)..len : Receive(q, i)
             /\ Completes(q, "ok")
    <3>1. PICK i \in (IF Len(got[q]) > taken[q] THEN 0 ELSE 1)..len : Receive(q, i)
      BY <2>4
    <3>2. i \in 0..len /\ (Len(got[q]) > taken[q] \/ i >= 1)
      BY <3>1, <2>2
    <3> QED BY <3>1, <3>2, <2>1, <2>4
  <2>5. CASE /\ op[q].name \in {"content", "data"} /\ len > 0
             /\ Receive(q, 1) /\ Completes(q, "ok")
    BY <2>1, <2>2, <2>5
  <2>6. CASE op[q].name = "eof" /\ Receive(q, len) /\ Completes(q, "ok")
    BY <2>1, <2>2, <2>6
  <2>7. CASE Receive(q, len) /\ Completes(q, EndOf(c))
    BY <2>1, <2>2, <2>7 DEF EndOf
  <2> QED BY <2>1, <2>3, <2>4, <2>5, <2>6, <2>7 DEF Reads
<1>5. /\ got'[q] = got[q] \o SubSeq(answers[c], 1, n) /\ Len(got'[q]) = Len(got[q]) + n
      /\ got' \in [Requests -> Seq(Parts)] /\ \A p \in Requests \ {q} : got'[p] = got[p]
  BY <1>1, <1>4, Received
<1>6. op'[q].name = op[q].name /\ op'[q].res = res /\ \A p \in Requests \ {q} : op'[p] = op[p]
  BY <1>1, <1>4, Completed DEF Outcomes
<1>7. \A p \in Requests \ {q} : ReadsPart(p)'
  BY <1>1, <1>5, <1>6 DEF ReadsParts, ReadsPart, HasHeader
<1>8. ReadsPart(q)'
  <2>1. /\ taken[q] <= Len(got[q])
        /\ op[q].name = "data" => taken[q] + 1 <= Len(got[q])
    BY DEF ReadsParts, ReadsPart
  <2>2. n \in Nat
    OBVIOUS
  <2>3. CASE ~(res = "ok" /\ op[q].name = "header")
    <3>1. /\ taken[q] <= Len(got[q]) + n
          /\ op[q].name = "data" => taken[q] + 1 <= Len(got[q]) + n
          /\ op[q].name = "data" /\ res = "ok" => taken[q] + 2 <= Len(got[q]) + n
          /\ op[q].name = "size" /\ res = "ok" => taken[q] + 1 <= Len(got[q]) + n
      BY <1>2, <1>3, <1>4, <2>1, <2>2
    <3> QED BY <2>3, <3>1, <1>1, <1>5, <1>6 DEF ReadsPart
  <2>4. CASE res = "ok" /\ op[q].name = "header"
    <3>1. PICK j \in 1..n : IsHeader(answers[c][j])
      BY <1>4, <2>4
    <3>2. PICK s : s = SubSeq(answers[c], 1, n)
      OBVIOUS
    <3>3. s \in Seq(Parts) /\ Len(s) = n /\ s[j] = answers[c][j]
      BY <1>2, <3>1, <3>2, Cut
    <3>a. got'[q] = got[q] \o s /\ j \in 1..Len(s)
      BY <1>5, <3>1, <3>2, <3>3
    <3>4. got'[q][Len(got[q]) + j] = s[j]
      BY <1>2, <3>3, <3>a, Joined
    <3>5. Len(got[q]) + j \in 1..Len(got'[q])
      <4>1. n \in Nat /\ j \in 1..n
        BY <3>1, <2>2
      <4>2. \A l \in Nat : l + j \in 1..(l + n)
        BY <4>1
      <4> QED BY <1>3, <1>5, <4>2
    <3>6. DOMAIN got'[q] = 1..Len(got'[q])
      BY <1>5
    <3>7. HasHeader(got'[q])
      BY <3>1, <3>3, <3>4, <3>5, <3>6 DEF HasHeader
    <3>8. taken[q] <= Len(got[q]) + n
      BY <1>2, <1>3, <2>1, <2>2
    <3>9. op'[q].name = "header" /\ taken'[q] <= Len(got'[q])
      BY <1>1, <1>5, <1>6, <2>4, <3>8
    <3> QED BY <3>7, <3>9 DEF ReadsPart
  <2> QED BY <2>3, <2>4
<1> QED BY <1>7, <1>8 DEF ReadsParts

\* Cancelling makes no operation succeed.
LEMMA CancelledReads ==
  ASSUME Typed, NEW cs, op' = Cancelled(cs)
  PROVE  \A p \in Requests :
           op'[p] = op[p] \/ (op'[p].res # "ok" /\ op'[p].name = op[p].name)
<1>1. \A p \in Requests : op[p] # NoOp => op[p] \in SessionOps
  BY DEF Typed, SessionTypes
<1>2. \A o \in SessionOps :
        [o EXCEPT !.res = "aborted"].name = o.name /\ [o EXCEPT !.res = "aborted"].res # "ok"
  BY SessionOpsFacts DEF Outcomes
<1>3. ASSUME NEW p \in Requests
      PROVE  op'[p] = op[p] \/ (op'[p].res # "ok" /\ op'[p].name = op[p].name)
  <2>1. \/ op'[p] = op[p]
        \/ op[p] # NoOp /\ op'[p] = [op[p] EXCEPT !.res = "aborted"]
    BY CancelledTyped
  <2> QED BY <1>1, <1>2, <2>1
<1> QED BY <1>3

LEMMA EnvironmentReads ==
  ASSUME IInv, Typed, ReadsParts,
         \/ \E q \in Requests : OpensOrWrites(q) \/ Reads(q) \/ ServesLate(q)
         \/ \E c \in Connections : TimerExpires(c) \/ TimerHandler(c) \/ Serves(c) \/ Closes(c)
         \/ OutOfWork \/ Stop \/ Destroy \/ UNCHANGED vars
  PROVE  ReadsParts'
<1>1. ASSUME NEW q \in Requests, OpensOrWrites(q) PROVE ReadsParts'
  <2>1. /\ op[q].res = "wait" /\ op[q].name \in {"resolve", "connect", "write"}
        /\ \E res \in Outcomes : Completes(q, res)
        /\ UNCHANGED <<got, taken>>
    BY <1>1 DEF OpensOrWrites, Succeeds, Fails, Outcomes
  <2>2. op'[q].name = op[q].name /\ \A p \in Requests \ {q} : op'[p] = op[p]
    BY <2>1, Completed
  <2> QED BY <2>1, <2>2, NothingRead
<1>2. CASE \E c \in Connections : TimerHandler(c)
  <2>1. /\ UNCHANGED <<got, taken>>
        /\ op' = op \/ \E cs : op' = Cancelled(cs)
    BY <1>2 DEF TimerHandler
  <2> QED BY <2>1, CancelledReads, NothingRead
<1>3. CASE Stop \/ Destroy
  <2>1. UNCHANGED <<got, taken>> /\ op' = Cancelled(connections)
    BY <1>3 DEF Stop, Destroy
  <2> QED BY <2>1, CancelledReads, NothingRead
<1>4. CASE \/ \E c \in Connections : TimerExpires(c) \/ Serves(c) \/ Closes(c)
           \/ (\E q \in Requests : ServesLate(q)) \/ OutOfWork \/ UNCHANGED vars
  <2>1. UNCHANGED <<op, got, taken>>
    BY <1>4 DEF TimerExpires, Serves, Closes, ServesLate, OutOfWork, vars, session
  <2> QED BY <2>1, NothingRead
<1> QED BY <1>1, <1>2, <1>3, <1>4, ReadReads

LEMMA TypeStep == TypeInv /\ [Next]_vars => TypeInv'
<1> SUFFICES ASSUME TypeInv, [Next]_vars PROVE TypeInv'
  OBVIOUS
<1>1. IInv' /\ Typed'
  BY StepSafe, TypedStep DEF TypeInv
<1>2. ReadsParts'
  <2>1. ASSUME NEW q \in Requests, Caller(q) \/ Handles(q)
        PROVE  ReadsParts'
    BY <2>1, CallerReads, HandlesReads DEF TypeInv
  <2> QED BY <2>1, EnvironmentReads DEF Next, TypeInv
<1> QED BY <1>1, <1>2 DEF TypeInv

\* The variables of a client, its sessions and the network keep their types; a session never
\* reads more out of its response than was put there, whatever the answers look like and
\* wherever their connection ends (client.h:478-535, 560-639).
THEOREM TypeCorrect == Spec => []TypeOK
<1>1. TypeInv => TypeOK
  BY DEF TypeInv, Typed, ReadsParts, ReadsPart, TypeOK, CallTypes, SessionTypes, PoolTypes,
         SocketTypes, NetworkTypes, RestTypes, Phases, Sockets, SessionOps, Outcomes
<1> QED BY InitTyped, TypeStep, <1>1, PTL DEF Spec

-----------------------------------------------------------------------------
(* The synchronous request().                                                *)

UnderWay(q) == phase[q] \notin {"new", "returned", "threw"}

\* A request that nobody disturbed finds the io_service not stopped, and its run() returns
\* only when it has been called back.
CallOK(q) ==
  ~Disturbed(q) =>
    /\ phase[q] \in {"calling", "posted", "counted"} => ~stopped
    /\ phase[q] \in {"posted", "counted", "running"} /\ op[q] = NoOp => called[q] # "no"
    /\ phase[q] = "running" /\ stopped => called[q] # "no"
    /\ phase[q] \in {"ran", "returned"} => called[q] # "no"

\* A thread makes one request at a time, and the io_service is stopped only while the count
\* of its users is not 0.
CallsOK ==
  /\ style = "async" => \A q \in Requests : phase[q] \in {"new", "calling", "posted"}
  /\ style = "sync" =>
       /\ \A p, q \in Requests : thread[p] = thread[q] /\ UnderWay(p) /\ UnderWay(q) => p = q
       /\ ~alive => \A q \in Requests : ~UnderWay(q)
       /\ \A q \in Requests : CallOK(q)
  /\ stopped => style = "sync" /\ Counted # {}

LEMMA InitCalls == Init => CallsOK
<1> SUFFICES ASSUME Init PROVE CallsOK
  OBVIOUS
<1>1. \A q \in Requests : phase[q] = "new"
  BY DEF Init
<1> QED BY <1>1 DEF Init, CallsOK, CallOK, UnderWay

\* A handler ends a session by its callback.
LEMMA CalledBack ==
  ASSUME CallsOK, UNCHANGED <<style, thread, phase, stopped, alive>>,
         \A p \in Requests : called[p] # "no" => called'[p] # "no",
         \A p \in Requests : op'[p] = NoOp => op[p] = NoOp \/ called'[p] # "no" \/ style = "async"
  PROVE  CallsOK'
<1>1. style' = style /\ thread' = thread /\ phase' = phase /\ stopped' = stopped /\ alive' = alive
  OBVIOUS
<1>2. Counted' = Counted /\ \A q \in Requests : UnderWay(q)' <=> UnderWay(q)
  BY <1>1 DEF UnderWay, Counted
<1>3. \A q \in Requests : Disturbed(q)' <=> Disturbed(q)
  BY <1>1 DEF Disturbed
<1>4. style = "sync" => \A q \in Requests : CallOK(q)'
  BY <1>1, <1>3 DEF CallsOK, CallOK
<1> QED BY <1>1, <1>2, <1>4 DEF CallsOK

\* The thread of q moves on: the others' calls are as they were, but for what disturbs them.
LEMMA MovesOn ==
  ASSUME Typed, CallsOK, style = "sync", NEW q \in Requests, NEW r \in Phases,
         phase' = [phase EXCEPT ![q] = r],
         UNCHANGED <<style, thread, alive, called>>,
         \A p \in Requests \ {q} : op'[p] = op[p],
         stopped' => stopped, stopped' => Counted' # {},
         phase[q] = "new" => r = "calling" /\ alive
                             /\ \A p \in Requests \ {q} : thread[p] = thread[q] => ~UnderWay(p),
         phase[q] \in {"calling", "posted", "counted", "running", "ran", "new"},
         phase[q] \in {"counted", "running", "ran"} => r \in {"running", "ran", "returned"},
         CallOK(q)'
  PROVE  CallsOK'
<1>1. phase'[q] = r /\ \A p \in Requests \ {q} : phase'[p] = phase[p]
  BY DEF Typed, CallTypes
<1>2. ASSUME NEW p \in Requests, Disturbed(p) PROVE Disturbed(p)'
  <2>1. PICK o \in Requests : \/ phase[o] = "threw"
                              \/ /\ thread[o] # thread[p]
                                 /\ phase[o] \in {"counted", "running", "ran", "returned"}
    BY <1>2 DEF Disturbed
  <2>2. \/ phase'[o] = "threw"
        \/ /\ thread'[o] # thread'[p]
           /\ phase'[o] \in {"counted", "running", "ran", "returned"}
    BY <1>1, <2>1
  <2> QED BY <2>2 DEF Disturbed
<1>3. ASSUME NEW p \in Requests PROVE CallOK(p)'
  <2>1. CASE p # q
    <3>1. phase'[p] = phase[p] /\ op'[p] = op[p] /\ called'[p] = called[p]
      BY <1>1, <2>1
    <3> QED BY <1>2, <3>1 DEF CallsOK, CallOK
  <2> QED BY <2>1
<1>4. \A p \in Requests \ {q} : UnderWay(p)' <=> UnderWay(p)
  BY <1>1 DEF UnderWay
<1>5. UnderWay(q) \/ phase[q] = "new"
  BY DEF UnderWay
<1>6. \A p, o \in Requests : thread'[p] = thread'[o] /\ UnderWay(p)' /\ UnderWay(o)' => p = o
  BY <1>4, <1>5 DEF CallsOK
<1>7. ~alive' => \A p \in Requests : ~UnderWay(p)'
  BY <1>4, <1>5 DEF CallsOK
<1> QED BY <1>3, <1>6, <1>7 DEF CallsOK

LEMMA CallerCalls ==
  ASSUME IInv, Typed, CallsOK, NEW q \in Requests, Caller(q)
  PROVE  CallsOK'
<1> USE DEF Typed, CallTypes
<1>a. UNCHANGED <<style, thread, alive, called>>
  BY DEF Caller, GetConnection, Connect, Count, Run, RunReturns, Returns, chosen, bounded
<1>b. style \in {"sync", "async"}
  BY DEF RestTypes
<1>c. ASSUME NEW r \in Phases, phase' = [phase EXCEPT ![q] = r], phase[q] # "threw", ~Disturbed(q)'
      PROVE  ~Disturbed(q)
  <2>1. \A p \in Requests \ {q} : phase'[p] = phase[p]
    BY <1>c
  <2> QED BY <1>a, <1>c, <2>1 DEF Disturbed
<1>1. CASE GetConnection(q)
  <2>1. /\ phase[q] = "new" /\ alive /\ phase' = [phase EXCEPT ![q] = "calling"]
        /\ op' = op /\ stopped' = stopped
        /\ style = "sync" => \A p \in Requests :
             thread[p] = thread[q] => phase[p] \in {"new", "returned", "threw"}
    BY <1>1 DEF GetConnection, Goto
  <2>2. phase'[q] = "calling" /\ \A p \in Requests \ {q} : phase'[p] = phase[p]
    BY <2>1
  <2>3. CASE style = "async"
    <3>1. ~stopped
      BY <2>3 DEF CallsOK
    <3> QED BY <2>1, <2>2, <2>3, <3>1, <1>a DEF CallsOK
  <2>4. CASE style = "sync"
    <3>1. CallOK(q)'
      <4> SUFFICES ASSUME stopped PROVE Disturbed(q)'
        BY <2>1, <2>2 DEF CallOK
      <4>1. PICK p \in Requests : phase[p] \in {"counted", "running", "ran", "threw"}
        BY DEF CallsOK, Counted
      <4>2. phase'[p] = phase[p] /\ (phase[p] = "threw" \/ thread[p] # thread[q])
        BY <2>1, <2>2, <2>4, <4>1
      <4> QED BY <1>a, <4>1, <4>2 DEF Disturbed
    <3>2. stopped' => Counted' # {}
      <4> SUFFICES ASSUME stopped PROVE Counted' # {}
        BY <2>1
      <4>1. PICK p \in Requests : phase[p] \in {"counted", "running", "ran", "threw"}
        BY DEF CallsOK, Counted
      <4>2. phase'[p] = phase[p]
        BY <2>1, <2>2, <4>1
      <4> QED BY <4>1, <4>2 DEF Counted
    <3>3. \A p \in Requests \ {q} : thread[p] = thread[q] => ~UnderWay(p)
      BY <2>1, <2>4 DEF UnderWay
    <3> QED BY <1>a, <2>1, <2>4, <3>1, <3>2, <3>3, MovesOn DEF Phases
  <2> QED BY <1>b, <2>3, <2>4
<1>2. CASE Connect(q)
  <2>1. /\ phase[q] = "calling" /\ phase' = [phase EXCEPT ![q] = "posted"] /\ stopped' = stopped
        /\ \E name \in {"write", "resolve"} : op' = [op EXCEPT ![q] = Begun(name)]
    BY <1>2 DEF Connect, Goto, Start, Begun
  <2>2. /\ phase'[q] = "posted" /\ \A p \in Requests \ {q} : phase'[p] = phase[p]
        /\ op'[q] # NoOp /\ \A p \in Requests \ {q} : op'[p] = op[p]
    BY <2>1, SessionOpsFacts DEF SessionTypes, OpNames
  <2>3. CASE style = "async"
    <3>1. ~stopped
      BY <2>3 DEF CallsOK
    <3> QED BY <1>a, <2>1, <2>2, <2>3, <3>1 DEF CallsOK
  <2>4. CASE style = "sync"
    <3>1. CallOK(q)'
      <4> SUFFICES ASSUME ~Disturbed(q)' PROVE ~stopped
        BY <2>1, <2>2 DEF CallOK
      <4>1. ~Disturbed(q)
        BY <1>c, <2>1 DEF Phases
      <4> QED BY <2>1, <2>4, <4>1 DEF CallsOK, CallOK
    <3>2. stopped' => Counted' # {}
      BY <2>1, <2>2 DEF CallsOK, Counted
    <3> QED BY <1>a, <2>1, <2>2, <2>4, <3>1, <3>2, MovesOn DEF Phases
  <2> QED BY <1>b, <2>3, <2>4
<1>3. CASE Count(q) \/ Run(q) \/ RunReturns(q) \/ Returns(q)
  <2>1. /\ op' = op /\ style = "sync"
        /\ \/ phase[q] = "posted" /\ phase' = [phase EXCEPT ![q] = "counted"] /\ stopped' = stopped
           \/ phase[q] = "counted" /\ phase' = [phase EXCEPT ![q] = "running"] /\ stopped' = stopped
           \/ phase[q] = "running" /\ phase' = [phase EXCEPT ![q] = "ran"] /\ stopped /\ stopped' = stopped
           \/ /\ phase[q] = "ran" /\ phase' = [phase EXCEPT ![q] = "returned"]
              /\ stopped' = (stopped /\ Counted # {q})
    BY <1>3, <1>b DEF Count, Run, RunReturns, Returns, Goto, session, CallsOK
  <2>2. \A p \in Requests \ {q} : phase'[p] = phase[p]
    BY <2>1
  <2>3. PICK r \in {"counted", "running", "ran", "returned"} :
          phase' = [phase EXCEPT ![q] = r] /\ phase'[q] = r
    BY <2>1
  <2>4. CallOK(q)'
    <3> SUFFICES ASSUME ~Disturbed(q)' PROVE CallOK(q)'
      BY DEF CallOK
    <3>1. ~Disturbed(q)
      BY <1>c, <2>1, <2>3 DEF Phases
    <3>2. CallOK(q)
      BY <2>1 DEF CallsOK
    <3> QED BY <1>a, <2>1, <2>3, <3>1, <3>2 DEF CallOK
  <2>5. stopped' => Counted' # {}
    <3> SUFFICES ASSUME stopped' PROVE Counted' # {}
      OBVIOUS
    <3>1. CASE phase'[q] = "returned"
      <4>1. phase[q] = "ran" /\ Counted # {q}
        BY <2>1, <3>1
      <4>2. q \in Counted
        BY <4>1 DEF Counted
      <4>3. PICK p \in Counted : p # q
        BY <4>1, <4>2
      <4> QED BY <2>2, <4>3 DEF Counted
    <3>2. CASE phase'[q] # "returned"
      BY <2>3, <3>2 DEF Counted
    <3> QED BY <3>1, <3>2
  <2>6. stopped' => stopped
    BY <2>1
  <2> QED BY <1>a, <2>1, <2>3, <2>4, <2>5, <2>6, MovesOn DEF Phases
<1> QED BY <1>1, <1>2, <1>3 DEF Caller

\* An exception disturbs every request.
LEMMA ThrowsCalls ==
  ASSUME IInv, Typed, CallsOK, NEW q \in Requests, HeaderThrows(q)
  PROVE  CallsOK'
<1>1. UNCHANGED <<style, thread, called, alive>> /\ alive
  BY DEF HeaderThrows, Handler, chosen, bounded
<1>2. CASE style = "async"
  <2>1. UNCHANGED <<phase, stopped>>
    BY <1>2 DEF HeaderThrows
  <2> QED BY <1>1, <1>2, <2>1 DEF CallsOK
<1>3. CASE style = "sync"
  <2>1. PICK p \in Running : phase' = [phase EXCEPT ![p] = "threw"]
    BY <1>3 DEF HeaderThrows, Goto
  <2>2. p \in Requests /\ phase'[p] = "threw" /\ \A o \in Requests \ {p} : phase'[o] = phase[o]
    BY <2>1 DEF Running, Typed, CallTypes
  <2>3. \A o \in Requests : CallOK(o)'
    BY <2>2 DEF CallOK, Disturbed
  <2>4. Counted' # {}
    BY <2>2 DEF Counted
  <2>5. \A o \in Requests : UnderWay(o)' => UnderWay(o)
    BY <2>2 DEF UnderWay
  <2> QED BY <1>1, <1>3, <2>3, <2>4, <2>5 DEF CallsOK
<1> QED BY <1>2, <1>3 DEF Typed, RestTypes

LEMMA HandlesCalls ==
  ASSUME IInv, Typed, CallsOK, NEW q \in Requests, Handles(q), ~HeaderThrows(q)
  PROVE  CallsOK'
<1>a. UNCHANGED <<style, thread, phase, stopped, alive>>
  <2>1. UNCHANGED <<stopped, chosen, bounded>>
    BY DEF Handles, ResolveHandler, ConnectHandler, WriteHandler, HeaderHandler, ContentHandler, TooBig,
           SizeHandler, DataHandler, Failed, Retry, NoRetry, NoLock, Elsewhere
  <2>2. phase' = phase
    BY DEF Handles, ResolveHandler, ConnectHandler, WriteHandler, HeaderHandler, ContentHandler, TooBig,
           SizeHandler, DataHandler, Chunk, Failed, Retry, NoRetry, NoLock, Callback, Continue, calls
  <2> QED BY <2>1, <2>2 DEF chosen, bounded
<1>1. ASSUME NEW result \in {"ok", "error"}, Callback(q, result)
      PROVE  CallsOK'
  <2>1. called' = [called EXCEPT ![q] = result]
    BY <1>1 DEF Callback
  <2>2. called'[q] # "no" /\ \A p \in Requests \ {q} : called'[p] = called[p]
    BY <2>1 DEF Typed, CallTypes
  <2>3. \A p \in Requests \ {q} : op'[p] = op[p]
    BY <1>1, Outstanding
  <2> QED BY <1>a, <2>2, <2>3, CalledBack
<1>2. ASSUME NEW name \in OpNames, op' = [op EXCEPT ![q] = Begun(name)], called' = called
      PROVE  CallsOK'
  <2>1. op'[q] # NoOp /\ \A p \in Requests \ {q} : op'[p] = op[p]
    BY <1>2, SessionOpsFacts DEF Typed, SessionTypes
  <2> QED BY <1>a, <1>2, <2>1, CalledBack
<1>3. ASSUME NEW name \in OpNames, Continue(q, name)
      PROVE  CallsOK'
  <2>1. op' = [op EXCEPT ![q] = Begun(name)] /\ called' = called
    BY <1>3 DEF Continue, Start, Begun, calls
  <2> QED BY <2>1, <1>2
<1>4. CASE NoLock(q)
  <2>1. style = "async"
    <3>1. ~alive /\ CanRun
      BY <1>4 DEF NoLock
    <3>2. style # "sync"
      BY <3>1 DEF CanRun, CallsOK, UnderWay, Running
    <3> QED BY <3>2 DEF Typed, RestTypes
  <2>2. called' = called
    BY <1>4 DEF NoLock, calls
  <2> QED BY <1>a, <2>1, <2>2, CalledBack
<1>5. CASE ResolveHandler(q) \/ Retry(q)
  <2>1. \E name \in OpNames : op' = [op EXCEPT ![q] = Begun(name)]
    BY <1>5 DEF ResolveHandler, Retry, Start, Begun, OpNames
  <2>2. called' = called
    BY <1>5 DEF ResolveHandler, Retry, calls
  <2> QED BY <2>1, <2>2, <1>2
<1>6. CASE ~(NoLock(q) \/ ResolveHandler(q) \/ Retry(q))
  <2>1. \/ \E result \in {"ok", "error"} : Callback(q, result)
        \/ \E name \in OpNames : Continue(q, name)
    <3>1. CASE HeaderHandler(q)
      BY <3>1 DEF HeaderHandler, OpNames
    <3>2. CASE SizeHandler(q) \/ DataHandler(q)
      BY <3>2 DEF SizeHandler, DataHandler, Chunk, OpNames
    <3>3. CASE ~(HeaderHandler(q) \/ SizeHandler(q) \/ DataHandler(q))
      BY <1>6, <3>3 DEF Handles, ConnectHandler, WriteHandler, ContentHandler, TooBig, Failed, NoRetry, OpNames
    <3> QED BY <3>1, <3>2, <3>3
  <2> QED BY <2>1, <1>1, <1>3
<1> QED BY <1>4, <1>5, <1>6

LEMMA EnvironmentCalls ==
  ASSUME IInv, Typed, CallsOK,
         \/ \E q \in Requests : OpensOrWrites(q) \/ Reads(q) \/ ServesLate(q)
         \/ \E c \in Connections : TimerExpires(c) \/ TimerHandler(c) \/ Serves(c) \/ Closes(c)
         \/ OutOfWork \/ Stop \/ Destroy \/ UNCHANGED vars
  PROVE  CallsOK'
<1>1. ASSUME NEW q \in Requests, OpensOrWrites(q) \/ Reads(q) PROVE CallsOK'
  <2>1. op[q].res = "wait" /\ \E res \in Outcomes : Completes(q, res)
    <3>1. CASE OpensOrWrites(q)
      BY <3>1 DEF OpensOrWrites, Succeeds, Fails, Outcomes
    <3>2. CASE Reads(q)
      BY <3>2, ReadReceives DEF Outcomes
    <3> QED BY <1>1, <3>1, <3>2
  <2>2. op'[q] # NoOp /\ \A p \in Requests \ {q} : op'[p] = op[p]
    BY <2>1, Completed
  <2>3. UNCHANGED <<style, thread, phase, called, stopped, alive>>
    BY <1>1 DEF OpensOrWrites, Reads, calls, chosen, bounded
  <2> QED BY <2>2, <2>3, CalledBack
<1>2. ASSUME NEW cs, op' = Cancelled(cs), UNCHANGED <<style, thread, phase, called, stopped, alive>>
      PROVE  CallsOK'
  <2>1. \A p \in Requests : op'[p] = NoOp => op[p] = NoOp
    <3> SUFFICES ASSUME NEW p \in Requests, op[p] # NoOp PROVE op'[p] # NoOp
      OBVIOUS
    <3>1. op[p] \in SessionOps
      BY DEF Typed, SessionTypes
    <3>2. [op[p] EXCEPT !.res = "aborted"] # NoOp
      BY <3>1, SessionOpsFacts DEF Outcomes
    <3> QED BY <1>2, <3>2, CancelledTyped
  <2> QED BY <1>2, <2>1, CalledBack
<1>3. CASE \E c \in Connections : TimerHandler(c)
  <2>1. UNCHANGED <<style, thread, phase, called, stopped, alive>>
    BY <1>3 DEF TimerHandler, calls, chosen, bounded
  <2>2. op' = op \/ \E cs : op' = Cancelled(cs)
    BY <1>3 DEF TimerHandler
  <2> QED BY <2>1, <2>2, <1>2, CalledBack
<1>4. CASE Stop
  <2>1. op' = Cancelled(connections) /\ UNCHANGED <<style, thread, phase, called, stopped, alive>>
    BY <1>4 DEF Stop, calls, chosen
  <2> QED BY <2>1, <1>2
<1>5. CASE Destroy
  <2>1. /\ op' = Cancelled(connections) /\ UNCHANGED <<style, thread, phase, called, stopped>>
        /\ style = "sync" => \A q \in Requests : phase[q] \in {"new", "returned", "threw"}
    BY <1>5 DEF Destroy, calls, chosen
  <2>2. style = "sync" => \A q \in Requests : ~UnderWay(q)'
    BY <2>1 DEF UnderWay
  <2>3. Counted' = Counted /\ \A q \in Requests : Disturbed(q)' <=> Disturbed(q)
    BY <2>1 DEF Counted, Disturbed
  <2>4. style = "sync" => \A q \in Requests : CallOK(q)'
    BY <2>1, <2>3 DEF CallsOK, CallOK
  <2> QED BY <2>1, <2>2, <2>3, <2>4 DEF CallsOK
<1>6. CASE OutOfWork
  <2>1. /\ \A q \in Requests : op[q] = NoOp
        /\ UNCHANGED <<op, style, thread, phase, called, alive>> /\ stopped' = TRUE
    BY <1>6 DEF OutOfWork, Work, calls, session, chosen, bounded
  <2>2. PICK r \in Requests : phase[r] = "running"
    BY <1>6 DEF OutOfWork, Running
  <2>3. style = "sync" /\ Counted' # {}
    BY <2>1, <2>2 DEF CallsOK, Counted, Typed, RestTypes
  <2>4. \A p \in Requests : UnderWay(p)' <=> UnderWay(p)
    BY <2>1 DEF UnderWay
  <2>5. ASSUME NEW p \in Requests PROVE CallOK(p)'
    <3> SUFFICES ASSUME ~Disturbed(p)' PROVE CallOK(p)'
      BY DEF CallOK
    <3>1. ~Disturbed(p) /\ CallOK(p)
      BY <2>1, <2>3 DEF Disturbed, CallsOK
    <3>2. thread[r] = thread[p]
      BY <2>2, <3>1 DEF Disturbed
    <3>3. phase[p] \notin {"calling", "posted", "counted"}
      <4> SUFFICES ASSUME phase[p] \in {"calling", "posted", "counted"} PROVE FALSE
        OBVIOUS
      <4>1. UnderWay(p) /\ UnderWay(r) /\ p # r
        BY <2>2 DEF UnderWay
      <4> QED BY <2>3, <3>2, <4>1 DEF CallsOK
    <3> QED BY <2>1, <3>1, <3>3 DEF CallOK
  <2> QED BY <2>1, <2>3, <2>4, <2>5 DEF CallsOK
<1>7. CASE \/ \E c \in Connections : TimerExpires(c) \/ Serves(c) \/ Closes(c)
           \/ (\E q \in Requests : ServesLate(q)) \/ UNCHANGED vars
  <2>1. UNCHANGED <<op, style, thread, phase, called, stopped, alive>>
    BY <1>7 DEF TimerExpires, Serves, Closes, ServesLate, vars, calls, session, chosen, bounded
  <2> QED BY <2>1, CalledBack
<1> QED BY <1>1, <1>3, <1>4, <1>5, <1>6, <1>7

\* However many threads make requests: one that returns without its callback has shared the
\* io_service with another thread, or with a request() that an exception has left
\* (client.h:162-190).
THEOREM AnsweredUnlessDisturbed == Spec => []AnswerUnlessDisturbed
<1>1. Init => TypeInv /\ CallsOK
  BY InitTyped, InitCalls
<1>2. ASSUME TypeInv, CallsOK, [Next]_vars PROVE CallsOK'
  <2>1. ASSUME NEW q \in Requests, Caller(q) \/ Handles(q)
        PROVE  CallsOK'
    BY <1>2, <2>1, CallerCalls, HandlesCalls, ThrowsCalls DEF TypeInv
  <2> QED BY <1>2, <2>1, EnvironmentCalls DEF Next, TypeInv
<1>3. TypeInv /\ CallsOK /\ [Next]_vars => (TypeInv /\ CallsOK)'
  BY <1>2, TypeStep
<1>4. ASSUME TypeInv, CallsOK PROVE AnswerUnlessDisturbed
  <2> SUFFICES ASSUME NEW q \in Requests, phase[q] \in {"ran", "returned"}, ~Disturbed(q)
               PROVE  called[q] # "no"
    BY DEF AnswerUnlessDisturbed
  <2>1. style = "sync"
    BY <1>4 DEF CallsOK, TypeInv, Typed, RestTypes
  <2> QED BY <1>4, <2>1 DEF CallsOK, CallOK
<1>5. TypeInv /\ CallsOK => AnswerUnlessDisturbed
  BY <1>4
<1> QED BY <1>1, <1>3, <1>5, PTL DEF Spec

-----------------------------------------------------------------------------
(* Where the request of a session is: not sent, on its way, sent and perhaps *)
(* answered, answered.  A connection that is free has nothing of a request on *)
(* it but what no client reads as a header; the request of a session that    *)
(* was given up stays on a connection that nobody holds.                      *)

NoHeader(s)  == \A i \in DOMAIN s : s[i].part # "header"
OneHeader(s) == \A i, j \in DOMAIN s : s[i].part = "header" /\ s[j].part = "header" => i = j

Clean(c) == requests[c] = <<>> /\ NoHeader(answers[c]) /\ link[c] # "gone"

\* How often the request may have been handled, late handlers included, before it is sent on c.
Spent(c) == IF attempt_reconnect[c] THEN 0 ELSE 1

Unsent(q) == Clean(conn[q]) /\ NoHeader(got[q]) /\ handled[q] + late[q] <= Spent(conn[q])

OnItsWay(q) ==
  /\ requests[conn[q]] = <<q>> /\ link[conn[q]] = "up"
  /\ NoHeader(answers[conn[q]]) /\ NoHeader(got[q])
  /\ handled[q] + late[q] <= Spent(conn[q])

Sent(q) ==
  /\ requests[conn[q]] = <<>> /\ link[conn[q]] # "gone"
  /\ OneHeader(answers[conn[q]]) /\ NoHeader(got[q])
  /\ NoHeader(answers[conn[q]]) \/ handled[q] >= 1
  /\ handled[q] + late[q] <= Spent(conn[q]) + 1

Answered(q) == Clean(conn[q]) /\ handled[q] >= 1 /\ handled[q] + late[q] <= 2

\* What a session waits for, and where its request can be then.
Sending(o) == o.name \in {"resolve", "connect"} \/ (o.name = "write" /\ o.res # "ok")
Written(o) == o.name = "write" /\ o.res = "ok"
Waiting(o) == o.name = "header" /\ o.res \notin {"err", "eof"}
InHeader(o) == o.name = "header"
Reading(o) == (o.name = "header" /\ o.res = "ok") \/ o.name \in {"content", "size", "data", "eof"}

Session(q) ==
  \/ Sending(op[q]) /\ Unsent(q)
  \/ (Written(op[q]) \/ Waiting(op[q])) /\ OnItsWay(q)
  \/ (Written(op[q]) \/ InHeader(op[q])) /\ Sent(q)
  \/ Reading(op[q]) /\ Answered(q)

SessionsOK == \A q \in Requests : op[q] # NoOp => Session(q)

\* Whose request is on c.
LeftOn(q, c) ==
  /\ requests[c] = <<q>> /\ conn[q] = c
  /\ phase[q] \notin {"new", "calling"} /\ called[q] # "ok"
  /\ handled[q] + late[q] < 2
  /\ op[q] = NoOp => link[c] = "gone"

LeftOK == \A c \in Connections : requests[c] # <<>> => \E q \in Requests : LeftOn(q, c)

\* No session goes on on c.
Resting(c) == socket[c] = "none" \/ c \in Idle \/ \E q \in Requests : phase[q] = "calling" /\ conn[q] = c

CleanOK == \A c \in Connections : Resting(c) => Clean(c)

CalledOK ==
  \A q \in Requests :
    /\ called[q] # "no" => op[q] = NoOp
    /\ phase[q] \in {"new", "calling"} => called[q] = "no" /\ handled[q] = 0 /\ late[q] = 0 /\ got[q] = <<>>
    /\ called[q] = "ok" => handled[q] >= 1
    /\ handled[q] + late[q] <= 2

SentInv == TypeInv /\ SessionsOK /\ LeftOK /\ CleanOK /\ CalledOK

LEMMA InitSent == Init => SentInv
<1> SUFFICES ASSUME Init PROVE SentInv
  OBVIOUS
<1>1. TypeInv
  BY InitTyped
<1>2. \A q \in Requests : op[q] = NoOp /\ phase[q] = "new" /\ called[q] = "no" /\ handled[q] = 0 /\ late[q] = 0
                          /\ got[q] = <<>>
  BY DEF Init
<1>3. \A c \in Connections : requests[c] = <<>> /\ answers[c] = <<>> /\ link[c] = "none"
  BY DEF Init
<1>4. NoHeader(<<>>)
  BY DEF NoHeader
<1>5. CleanOK
  BY <1>3, <1>4 DEF CleanOK, Clean
<1> QED BY <1>1, <1>2, <1>3, <1>5 DEF SentInv, SessionsOK, LeftOK, CalledOK

\* A step that does not touch p's session.
Same(p) ==
  /\ conn'[p] = conn[p] /\ got'[p] = got[p] /\ handled'[p] = handled[p] /\ late'[p] = late[p]
  /\ requests'[conn[p]] = requests[conn[p]] /\ answers'[conn[p]] = answers[conn[p]]
  /\ link'[conn[p]] = link[conn[p]] /\ attempt_reconnect'[conn[p]] = attempt_reconnect[conn[p]]

LEMMA SameStays ==
  ASSUME NEW p, Same(p)
  PROVE  /\ Unsent(p)' <=> Unsent(p)
         /\ OnItsWay(p)' <=> OnItsWay(p)
         /\ Sent(p)' <=> Sent(p)
         /\ Answered(p)' <=> Answered(p)
BY DEF Same, Unsent, OnItsWay, Sent, Answered, Clean, Spent

LEMMA SameSession ==
  ASSUME NEW p, Same(p), op'[p] = op[p]
  PROVE  Session(p)' <=> Session(p)
<1>1. /\ Unsent(p)' <=> Unsent(p)
      /\ OnItsWay(p)' <=> OnItsWay(p)
      /\ Sent(p)' <=> Sent(p)
      /\ Answered(p)' <=> Answered(p)
  BY SameStays
<1> QED BY <1>1 DEF Session, Sending, Written, Waiting, InHeader, Reading

\* The connection of a session is neither free nor gone, nor another's.
LEMMA SessionHolds ==
  ASSUME SentInv, NEW q \in Requests, op[q] # NoOp
  PROVE  /\ Session(q) /\ conn[q] \in Connections /\ op[q] \in SessionOps
         /\ called[q] = "no" /\ phase[q] \notin {"new", "calling"}
         /\ ~Resting(conn[q]) /\ link[conn[q]] # "gone"
         /\ \A p \in Requests \ {q} : Active(p) => conn[p] # conn[q]
<1>1. Session(q) /\ called[q] = "no"
  BY DEF SentInv, SessionsOK, CalledOK
<1>2. /\ op[q] \in SessionOps /\ conn[q] \in Connections
      /\ socket[conn[q]] # "none" /\ in_use[conn[q]]
      /\ phase[q] \notin {"new", "calling"}
      /\ \A p \in Requests \ {q} : Active(p) => conn[p] # conn[q]
  BY OpOfSession DEF SentInv, TypeInv
<1>3. link[conn[q]] # "gone"
  BY <1>1 DEF Session, Unsent, OnItsWay, Sent, Answered, Clean
<1>4. ~Resting(conn[q])
  BY <1>2 DEF Resting, Idle, Active
<1> QED BY <1>1, <1>2, <1>3, <1>4

SentParts == SessionsOK /\ LeftOK /\ CleanOK /\ CalledOK

\* A session ends: what that does to the others, and to the connections that are free after it.
LEMMA CallbackEffect ==
  ASSUME SentInv, NEW q \in Requests, op[q] # NoOp, NEW result \in {"ok", "error"}, Callback(q, result),
         UNCHANGED <<Elsewhere, got>>,
         \A d \in Connections \ {conn[q]} : attempt_reconnect'[d] = attempt_reconnect[d]
  PROVE  /\ op'[q] = NoOp /\ called[q] = "no" /\ called'[q] = result
         /\ phase[q] \notin {"new", "calling"} /\ UNCHANGED <<phase, conn, got, requests, handled, late>>
         /\ \A p \in Requests \ {q} :
              op'[p] = op[p] /\ called'[p] = called[p] /\ (op[p] # NoOp => Same(p))
         /\ \A d \in Connections : link[d] = "gone" => link'[d] = "gone"
         /\ result = "error" => link'[conn[q]] = "gone"
         /\ \A d \in Connections : Resting(d)' =>
              /\ answers'[d] = answers[d] /\ link'[d] = link[d]
              /\ Resting(d) \/ (d = conn[q] /\ result = "ok")
<1>1. PICK c : c = conn[q]
  OBVIOUS
<1>2. /\ Session(q) /\ c \in Connections /\ called[q] = "no" /\ phase[q] \notin {"new", "calling"}
      /\ link[c] # "gone" /\ \A p \in Requests \ {q} : Active(p) => conn[p] # c
  BY <1>1, SessionHolds
<1>3. PICK dropped : dropped = (connections \cup {c}) \ connections'
  OBVIOUS
<1>4. /\ in_use' = [in_use EXCEPT ![c] = FALSE]
      /\ called' = [called EXCEPT ![q] = result]
      /\ op' = [op EXCEPT ![q] = NoOp]
      /\ phase' = phase /\ conn' = conn /\ got' = got
      /\ requests' = requests /\ handled' = handled /\ late' = late
      /\ socket' = [d \in Connections |-> IF d \in dropped THEN "gone" ELSE socket[d]]
      /\ link' = [d \in Connections |-> IF d \in dropped THEN "gone" ELSE link[d]]
      /\ answers' = [d \in Connections |-> IF d \in dropped THEN <<>> ELSE answers[d]]
  BY <1>1, <1>3 DEF Callback, Drop, Elsewhere
<1>a. PICK rest : rest = IF result = "error" THEN connections \ {conn[q]} ELSE connections
  OBVIOUS
<1>b. PICK unused : unused = {d \in rest : d = conn[q] \/ ~in_use[d]}
  OBVIOUS
<1>5. PICK kept \in (IF unused = {} THEN {{}} ELSE {{d} : d \in unused}) :
        connections' = (rest \ unused) \cup kept
  BY <1>a, <1>b DEF Callback
<1>6. /\ connections' \subseteq connections
      /\ result = "error" => c \notin connections'
      /\ \A d \in dropped : d = c \/ (d \in connections /\ ~in_use[d])
      /\ c \notin connections' => c \in dropped
  <2>1. kept \subseteq unused
    BY <1>5
  <2> QED BY <1>1, <1>3, <1>a, <1>b, <1>5, <2>1
<1>7. \A d \in connections : d \in Connections /\ socket[d] # "none"
  BY DEF SentInv, TypeInv, IInv, Created
<1>8. \A p \in Requests \ {q} : Active(p) => conn[p] \in Connections \ dropped /\ conn[p] # c
  <2>1. \A p \in Requests : Active(p) => conn[p] \in Connections /\ in_use[conn[p]]
    BY DEF SentInv, TypeInv, IInv, Created, NotShared
  <2> QED BY <1>2, <1>6, <2>1
<1>9. /\ op'[q] = NoOp /\ called'[q] = result
      /\ \A p \in Requests \ {q} : op'[p] = op[p] /\ called'[p] = called[p]
  BY <1>4 DEF SentInv, TypeInv, Typed, SessionTypes, CallTypes
<1>10. ASSUME NEW p \in Requests \ {q}, op[p] # NoOp PROVE Same(p)
  <2>1. conn[p] \in Connections \ dropped /\ conn[p] # c
    BY <1>8, <1>10 DEF Active
  <2> QED BY <1>1, <1>4, <2>1 DEF Same
<1>11. result = "error" => link'[c] = "gone"
  BY <1>2, <1>4, <1>6
<1>12. ASSUME NEW d \in Connections, Resting(d)'
       PROVE  /\ answers'[d] = answers[d] /\ link'[d] = link[d]
              /\ Resting(d) \/ (d = c /\ result = "ok")
  <2>1. d \notin dropped /\ (Resting(d) \/ (d = c /\ result = "ok"))
    <3>1. CASE socket'[d] = "none"
      BY <3>1, <1>4 DEF Resting
    <3>2. CASE d \in Idle'
      <4>1. d \in connections' /\ ~in_use'[d]
        BY <3>2 DEF Idle
      <4>2. CASE d = c
        BY <4>1, <4>2, <1>3, <1>6
      <4>3. CASE d # c
        BY <4>1, <4>3, <1>3, <1>4, <1>6 DEF Resting, Idle, SentInv, TypeInv, Typed, PoolTypes
      <4> QED BY <4>2, <4>3
    <3>3. ASSUME NEW p \in Requests, phase'[p] = "calling", conn'[p] = d
          PROVE  d \notin dropped /\ Resting(d)
      <4>1. Active(p) /\ p # q /\ phase[p] = "calling" /\ conn[p] = d
        BY <1>2, <1>4, <3>3 DEF Active
      <4> QED BY <4>1, <1>8 DEF Resting
    <3> QED BY <1>12, <3>1, <3>2, <3>3 DEF Resting
  <2> QED BY <1>4, <2>1
<1>13. \A d \in Connections : link[d] = "gone" => link'[d] = "gone"
  BY <1>4
<1> QED BY <1>1, <1>2, <1>4, <1>9, <1>10, <1>11, <1>12, <1>13

\* A session ends: with success only if it was answered.
LEMMA CallbackSent ==
  ASSUME SentInv, NEW q \in Requests, op[q] # NoOp, NEW result \in {"ok", "error"}, Callback(q, result),
         UNCHANGED <<Elsewhere, got>>,
         \A d \in Connections \ {conn[q]} : attempt_reconnect'[d] = attempt_reconnect[d],
         result = "ok" => Answered(q)
  PROVE  SentParts'
<1>1. /\ op'[q] = NoOp /\ called[q] = "no" /\ called'[q] = result
      /\ phase[q] \notin {"new", "calling"} /\ UNCHANGED <<phase, conn, got, requests, handled, late>>
      /\ \A p \in Requests \ {q} :
           op'[p] = op[p] /\ called'[p] = called[p] /\ (op[p] # NoOp => Same(p))
      /\ \A d \in Connections : link[d] = "gone" => link'[d] = "gone"
      /\ result = "error" => link'[conn[q]] = "gone"
  BY CallbackEffect
<1>2. \A d \in Connections : Resting(d)' =>
           /\ answers'[d] = answers[d] /\ link'[d] = link[d]
           /\ Resting(d) \/ (d = conn[q] /\ result = "ok")
  BY CallbackEffect
<1>3. SessionsOK'
  <2> SUFFICES ASSUME NEW p \in Requests, op'[p] # NoOp PROVE Session(p)'
    BY DEF SessionsOK
  <2>1. op[p] # NoOp /\ op'[p] = op[p] /\ Same(p)
    BY <1>1
  <2> QED BY <2>1, SameSession DEF SentInv, SessionsOK
<1>4. LeftOK'
  <2> SUFFICES ASSUME NEW d \in Connections, requests[d] # <<>>
               PROVE  \E p \in Requests : LeftOn(p, d)'
    BY <1>1 DEF LeftOK
  <2>1. PICK p \in Requests : LeftOn(p, d)
    BY DEF SentInv, LeftOK
  <2>2. p = q => result = "error" /\ link'[d] = "gone"
    BY <1>1, <2>1 DEF LeftOn, Answered, Clean
  <2>3. op'[p] = NoOp => link'[d] = "gone"
    BY <1>1, <2>1, <2>2 DEF LeftOn
  <2>4. called'[p] # "ok"
    BY <1>1, <2>1, <2>2 DEF LeftOn
  <2> QED BY <1>1, <2>1, <2>3, <2>4 DEF LeftOn
<1>5. CleanOK'
  BY <1>1, <1>2 DEF SentInv, CleanOK, Clean, Answered
<1>6. CalledOK'
  BY <1>1 DEF SentInv, CalledOK, Answered
<1> QED BY <1>3, <1>4, <1>5, <1>6 DEF SentParts

\* A session goes on with another operation.
LEMMA GoesOnSent ==
  ASSUME SentInv, NEW q \in Requests, op[q] # NoOp, NEW name \in OpNames,
         op' = [op EXCEPT ![q] = Begun(name)],
         UNCHANGED <<phase, called, conn, got, connections, in_use, requests, handled, late, link, answers>>,
         \A d \in Connections : socket'[d] = "none" => socket[d] = "none",
         \A d \in Connections \ {conn[q]} : attempt_reconnect'[d] = attempt_reconnect[d],
         Session(q)'
  PROVE  SentParts'
<1>1. op'[q] # NoOp /\ \A p \in Requests \ {q} : op'[p] = op[p]
  BY SessionOpsFacts DEF SentInv, TypeInv, Typed, SessionTypes
<1>2. SessionsOK'
  <2> SUFFICES ASSUME NEW p \in Requests, op'[p] # NoOp, p # q PROVE Session(p)'
    BY DEF SessionsOK
  <2>1. op[p] # NoOp /\ op'[p] = op[p]
    BY <1>1
  <2>2. conn[p] \in Connections /\ conn[p] # conn[q]
    BY <2>1, SessionHolds DEF Active
  <2>3. Same(p)
    BY <2>2 DEF Same
  <2> QED BY <2>1, <2>3, SameSession DEF SentInv, SessionsOK
<1>3. LeftOK'
  <2>1. \A p \in Requests : op'[p] = NoOp => op[p] = NoOp
    BY <1>1
  <2>2. \A p \in Requests, d \in Connections : LeftOn(p, d) => LeftOn(p, d)'
    BY <2>1 DEF LeftOn
  <2> QED BY <2>2 DEF SentInv, LeftOK
<1>4. CleanOK'
  BY DEF SentInv, CleanOK, Clean, Resting, Idle
<1>5. CalledOK'
  BY <1>1, SessionHolds DEF SentInv, CalledOK
<1> QED BY <1>2, <1>3, <1>4, <1>5 DEF SentParts

\* A session begins.
LEMMA GetConnectionEffect ==
  ASSUME SentInv, NEW q \in Requests, GetConnection(q)
  PROVE  /\ phase[q] = "new" /\ phase'[q] = "calling" /\ op[q] = NoOp
         /\ \A p \in Requests \ {q} : phase'[p] = phase[p] /\ conn'[p] = conn[p]
         /\ UNCHANGED <<called, op, got, link, requests, answers, handled, late>>
         /\ \A p \in Requests : op[p] # NoOp => Same(p)
         /\ \A d \in Connections : Resting(d)' => Resting(d)
<1>1. phase[q] = "new" /\ phase' = [phase EXCEPT ![q] = "calling"]
      /\ UNCHANGED <<called, op, got, link, requests, answers, handled, late>>
  BY DEF GetConnection, Goto, network
<1>2. PICK c \in (IF Idle # {} THEN Idle ELSE {NewConnection}) :
        /\ conn' = [conn EXCEPT ![q] = c]
        /\ connections' = connections \cup {c}
        /\ in_use' = [in_use EXCEPT ![c] = TRUE]
        /\ attempt_reconnect' = [attempt_reconnect EXCEPT ![c] = TRUE]
        /\ socket' = [socket EXCEPT ![c] = IF @ = "none" THEN "closed" ELSE @]
  BY DEF GetConnection
<1>3. /\ c \in Connections /\ Resting(c)
      /\ \A p \in Requests : Active(p) => conn[p] # c
  <2>1. CASE Idle # {}
    BY <2>1, <1>2 DEF SentInv, TypeInv, IInv, Created, NotShared, Idle, Resting
  <2>2. CASE Idle = {}
    BY <2>2, <1>2, NewIsFree DEF GetConnection, SentInv, TypeInv, Resting
  <2> QED BY <2>1, <2>2
<1>4. /\ phase'[q] = "calling" /\ conn'[q] = c /\ op[q] = NoOp
      /\ \A p \in Requests \ {q} : phase'[p] = phase[p] /\ conn'[p] = conn[p]
  BY <1>1, <1>2 DEF SentInv, TypeInv, IInv, Posted, Typed, CallTypes, SessionTypes
<1>5. ASSUME NEW p \in Requests, op[p] # NoOp PROVE Same(p)
  <2>1. p # q /\ conn[p] # c /\ conn'[p] = conn[p]
    BY <1>3, <1>4, <1>5 DEF Active
  <2>2. attempt_reconnect'[conn[p]] = attempt_reconnect[conn[p]]
    BY <1>2, <1>5, <2>1, SessionHolds DEF SentInv, TypeInv, Typed, PoolTypes
  <2> QED BY <1>1, <2>1, <2>2 DEF Same
<1>6. \A d \in Connections : Resting(d)' => Resting(d)
  BY <1>1, <1>2, <1>3, <1>4 DEF Resting, Idle, SentInv, TypeInv, Typed, PoolTypes, SocketTypes
<1> QED BY <1>1, <1>4, <1>5, <1>6

LEMMA GetConnectionSent ==
  ASSUME SentInv, NEW q \in Requests, GetConnection(q)
  PROVE  SentParts'
<1>1. /\ phase[q] = "new" /\ phase'[q] = "calling" /\ op[q] = NoOp
      /\ \A p \in Requests \ {q} : phase'[p] = phase[p] /\ conn'[p] = conn[p]
      /\ UNCHANGED <<called, op, got, link, requests, answers, handled, late>>
      /\ \A p \in Requests : op[p] # NoOp => Same(p)
      /\ \A d \in Connections : Resting(d)' => Resting(d)
  BY GetConnectionEffect
<1>2. SessionsOK'
  BY <1>1, SameSession DEF SentInv, SessionsOK
<1>3. LeftOK'
  <2>1. \A p \in Requests, d \in Connections : LeftOn(p, d) => LeftOn(p, d)'
    BY <1>1 DEF LeftOn
  <2> QED BY <1>1, <2>1 DEF SentInv, LeftOK
<1>4. CleanOK'
  BY <1>1 DEF SentInv, CleanOK, Clean
<1>5. CalledOK'
  BY <1>1 DEF SentInv, CalledOK
<1> QED BY <1>2, <1>3, <1>4, <1>5 DEF SentParts

\* The request is about to be sent.
LEMMA ConnectSent ==
  ASSUME SentInv, NEW q \in Requests, Connect(q)
  PROVE  SentParts'
<1>1. PICK name \in {"write", "resolve"} :
        /\ phase[q] = "calling" /\ phase' = [phase EXCEPT ![q] = "posted"]
        /\ op' = [op EXCEPT ![q] = Begun(name)]
        /\ UNCHANGED <<called, conn, got, connections, in_use, attempt_reconnect, socket,
                       link, requests, answers, handled, late>>
  BY DEF Connect, Goto, Start, Begun, pool, network
<1>2. /\ phase'[q] = "posted" /\ op'[q] = Begun(name) /\ op'[q] # NoOp
      /\ Begun(name).name = name /\ Begun(name).res = "wait"
      /\ \A p \in Requests \ {q} : phase'[p] = phase[p] /\ op'[p] = op[p]
  BY <1>1, SessionOpsFacts DEF SentInv, TypeInv, Typed, CallTypes, SessionTypes, OpNames, Begun
<1>3. conn[q] \in Connections /\ Clean(conn[q])
  BY <1>1 DEF SentInv, TypeInv, IInv, Created, Active, CleanOK, Resting
<1>4. Session(q)'
  <2>1. got[q] = <<>> /\ handled[q] = 0 /\ late[q] = 0
    BY <1>1 DEF SentInv, CalledOK
  <2>2. Unsent(q)'
    BY <1>1, <1>3, <2>1 DEF Unsent, Clean, NoHeader, Spent
  <2>3. Sending(op'[q])
    BY <1>1, <1>2 DEF Sending
  <2> QED BY <2>2, <2>3 DEF Session
<1>5. SessionsOK'
  <2> SUFFICES ASSUME NEW p \in Requests, op'[p] # NoOp, p # q PROVE Session(p)'
    BY <1>4 DEF SessionsOK
  <2>1. op'[p] = op[p] /\ Same(p)
    BY <1>1, <1>2 DEF Same
  <2> QED BY <2>1, SameSession DEF SentInv, SessionsOK
<1>6. LeftOK'
  <2>1. \A p \in Requests, d \in Connections : LeftOn(p, d) => LeftOn(p, d)'
    BY <1>1, <1>2 DEF LeftOn
  <2> QED BY <1>1, <2>1 DEF SentInv, LeftOK
<1>7. CleanOK'
  BY <1>1, <1>2 DEF SentInv, CleanOK, Clean, Resting, Idle
<1>8. CalledOK'
  BY <1>1, <1>2 DEF SentInv, CalledOK
<1> QED BY <1>5, <1>6, <1>7, <1>8 DEF SentParts

LEMMA CallerSent ==
  ASSUME SentInv, NEW q \in Requests, Caller(q)
  PROVE  SentParts'
<1>1. CASE Count(q) \/ Run(q) \/ RunReturns(q) \/ Returns(q)
  <2>1. /\ phase[q] \notin {"new", "calling"}
        /\ \E r \in {"counted", "running", "ran", "returned"} : phase' = [phase EXCEPT ![q] = r]
        /\ UNCHANGED <<called, conn, op, got, connections, in_use, attempt_reconnect, socket,
                       link, requests, answers, handled, late>>
    BY <1>1 DEF Count, Run, RunReturns, Returns, Goto, session, pool, sockets, network
  <2>2. phase'[q] \notin {"new", "calling"} /\ \A p \in Requests \ {q} : phase'[p] = phase[p]
    BY <2>1 DEF SentInv, TypeInv, Typed, CallTypes
  <2>3. \A p \in Requests : phase'[p] \in {"new", "calling"} <=> phase[p] \in {"new", "calling"}
    BY <2>1, <2>2
  <2>4. \A p \in Requests : phase'[p] = "calling" <=> phase[p] = "calling"
    BY <2>1, <2>2
  <2>5. SessionsOK'
    BY <2>1, SameSession DEF SentInv, SessionsOK, Same
  <2>6. LeftOK'
    BY <2>1, <2>3 DEF SentInv, LeftOK, LeftOn
  <2>7. CleanOK'
    BY <2>1, <2>4 DEF SentInv, CleanOK, Clean, Resting, Idle
  <2>8. CalledOK'
    BY <2>1, <2>3 DEF SentInv, CalledOK
  <2> QED BY <2>5, <2>6, <2>7, <2>8 DEF SentParts
<1> QED BY <1>1, GetConnectionSent, ConnectSent DEF Caller

\* What the outcome of an operation says of the request.
LEMMA OutcomeSays ==
  ASSUME SentInv, NEW q \in Requests, op[q] # NoOp
  PROVE  /\ op[q].name \in {"resolve", "connect"} => Unsent(q)
         /\ op[q].name = "write" /\ op[q].res = "ok" => OnItsWay(q) \/ Sent(q)
         /\ op[q].name = "header" /\ op[q].res \in {"err", "eof"} => Sent(q)
         /\ op[q].name \in {"content", "size", "data", "eof"} => Answered(q)
         /\ HasHeader(got[q]) /\ got[q][HeaderEnd(q)].part = "header" => Answered(q)
<1>1. Session(q)
  BY SessionHolds
<1>2. /\ op[q].name \in {"resolve", "connect"} => Unsent(q)
      /\ op[q].name = "write" /\ op[q].res = "ok" => OnItsWay(q) \/ Sent(q)
      /\ op[q].name = "header" /\ op[q].res \in {"err", "eof"} => Sent(q)
      /\ op[q].name \in {"content", "size", "data", "eof"} => Answered(q)
  BY <1>1 DEF Session, Sending, Written, Waiting, InHeader, Reading
<1>3. ASSUME HasHeader(got[q]), got[q][HeaderEnd(q)].part = "header" PROVE Answered(q)
  <2>1. got[q] \in Seq(Parts)
    BY DEF SentInv, TypeInv, Typed, SessionTypes
  <2>2. HeaderEnd(q) \in 1..Len(got[q])
    BY <1>3, HeaderEndIs DEF SentInv, TypeInv
  <2>3. HeaderEnd(q) \in DOMAIN got[q]
    BY <2>1, <2>2
  <2>4. ~NoHeader(got[q])
    BY <1>3, <2>3 DEF NoHeader
  <2> QED BY <1>1, <2>4 DEF Session, Unsent, OnItsWay, Sent
<1> QED BY <1>2, <1>3

\* The operation that goes on after Begun(name).
LEMMA ContinueSent ==
  ASSUME SentInv, NEW q \in Requests, op[q] # NoOp, NEW name \in OpNames,
         op' = [op EXCEPT ![q] = Begun(name)],
         UNCHANGED <<phase, called, conn, got, connections, in_use, requests, handled, late, link, answers>>,
         \A d \in Connections : socket'[d] = "none" => socket[d] = "none",
         \A d \in Connections \ {conn[q]} : attempt_reconnect'[d] = attempt_reconnect[d],
         \/ name \in {"connect", "write"} /\ Unsent(q) /\ UNCHANGED attempt_reconnect
         \/ name = "header" /\ (OnItsWay(q) \/ Sent(q)) /\ UNCHANGED attempt_reconnect
         \/ name \in {"content", "size", "data", "eof"} /\ Answered(q)
  PROVE  SentParts'
<1>1. op'[q] = Begun(name) /\ Begun(name).name = name /\ Begun(name).res = "wait"
  BY DEF Begun, SentInv, TypeInv, Typed, SessionTypes
<1>2. Session(q)'
  <2>1. CASE name \in {"connect", "write"} /\ Unsent(q) /\ UNCHANGED attempt_reconnect
    <3>1. Unsent(q)'
      BY <2>1, SameStays DEF Same
    <3> QED BY <1>1, <2>1, <3>1 DEF Session, Sending
  <2>2. CASE name = "header" /\ (OnItsWay(q) \/ Sent(q)) /\ UNCHANGED attempt_reconnect
    <3>1. OnItsWay(q)' \/ Sent(q)'
      BY <2>2, SameStays DEF Same
    <3> QED BY <1>1, <2>2, <3>1 DEF Session, Waiting, InHeader
  <2>3. CASE name \in {"content", "size", "data", "eof"} /\ Answered(q)
    <3>1. Answered(q)'
      BY <2>3 DEF Answered, Clean
    <3> QED BY <1>1, <2>3, <3>1 DEF Session, Reading
  <2> QED BY <2>1, <2>2, <2>3
<1> QED BY <1>2, GoesOnSent

LEMMA ChunkSent ==
  ASSUME SentInv, NEW q \in Requests, op[q] # NoOp, Answered(q),
         Chunk(q), UNCHANGED <<Elsewhere, got, attempt_reconnect>>
  PROVE  SentParts'
<1>1. CASE Callback(q, "ok")
  BY <1>1, CallbackSent
<1>2. CASE Continue(q, "size")
  BY <1>2, ContinueSent DEF Continue, Start, Begun, OpNames, Elsewhere, calls
<1>3. CASE Callback(q, "error")
  BY <1>3, CallbackSent
<1> QED BY <1>1, <1>2, <1>3 DEF Chunk

LEMMA HeaderSent ==
  ASSUME SentInv, NEW q \in Requests, HeaderHandler(q)
  PROVE  SentParts'
<1>1. op[q] # NoOp /\ op[q].name = "header" /\ op[q].res = "ok"
  BY HandlerOp DEF HeaderHandler, Handler
<1>2. HasHeader(got[q])
  BY <1>1 DEF SentInv, TypeInv, ReadsParts, ReadsPart
<1>3. /\ \A d \in Connections \ {conn[q]} : attempt_reconnect'[d] = attempt_reconnect[d]
      /\ UNCHANGED <<Elsewhere, got>>
  BY DEF HeaderHandler, SentInv, TypeInv, Typed, PoolTypes
<1>4. CASE Callback(q, "error")
  BY <1>1, <1>3, <1>4, CallbackSent
<1>5. ASSUME got[q][HeaderEnd(q)].part = "header", Callback(q, "ok") PROVE SentParts'
  BY <1>1, <1>2, <1>3, <1>5, CallbackSent, OutcomeSays
<1>6. ASSUME got[q][HeaderEnd(q)].part = "header",
             NEW name \in {"content", "size", "eof"}, Continue(q, name)
      PROVE  SentParts'
  <2>1. Answered(q)
    BY <1>1, <1>2, <1>6, OutcomeSays
  <2> QED BY <1>1, <1>3, <1>6, <2>1, ContinueSent DEF Continue, Start, Begun, OpNames, Elsewhere, calls
<1> QED BY <1>4, <1>5, <1>6 DEF HeaderHandler

\* The request is to be sent again, on a connection made for it.
LEMMA RetryEffect ==
  ASSUME SentInv, NEW q \in Requests, Retry(q)
  PROVE  /\ op[q] # NoOp /\ op[q].name = "header" /\ op[q].res \in {"err", "eof"}
         /\ Sent(q) /\ attempt_reconnect[conn[q]]
         /\ called[q] = "no" /\ phase[q] \notin {"new", "calling"}
         /\ UNCHANGED <<phase, called, got, requests, handled, late>>
         /\ op'[q] = Begun("resolve") /\ op'[q] # NoOp /\ Begun("resolve").name = "resolve"
         /\ \A p \in Requests \ {q} :
              conn'[p] = conn[p] /\ op'[p] = op[p] /\ (op[p] # NoOp => Same(p))
         /\ conn'[q] \in Connections /\ Resting(conn'[q])
         /\ link'[conn'[q]] = link[conn'[q]] /\ answers'[conn'[q]] = answers[conn'[q]]
         /\ attempt_reconnect'[conn'[q]] = FALSE
         /\ \A d \in Connections \ {conn'[q]} : link[d] = "gone" => link'[d] = "gone"
         /\ \A d \in Connections : Resting(d)' =>
              answers'[d] = answers[d] /\ link'[d] = link[d] /\ Resting(d)
<1>1. PICK c, old : c = NewConnection /\ old = conn[q]
  OBVIOUS
<1>2. op[q] # NoOp /\ op[q].name = "header" /\ op[q].res \in {"err", "eof"}
  BY HandlerOp DEF Retry, Handler
<1>3. attempt_reconnect[old] /\ old \in connections /\ Fresh # {}
  BY <1>1 DEF Retry
<1>4. /\ Sent(q) /\ old \in Connections /\ link[old] # "gone" /\ called[q] = "no"
      /\ phase[q] \notin {"new", "calling"} /\ socket[old] # "none"
      /\ \A p \in Requests \ {q} : Active(p) => conn[p] # old
  BY <1>1, <1>2, OutcomeSays, SessionHolds DEF Resting
<1>5. /\ c \in Connections /\ socket[c] = "none" /\ c # old /\ c \notin connections
      /\ \A p \in Requests : Active(p) => conn[p] # c
  BY <1>1, <1>3, <1>4, NewIsFree DEF SentInv, TypeInv
<1>6. /\ connections' = (connections \ {old}) \cup {c}
      /\ conn' = [conn EXCEPT ![q] = c]
      /\ in_use' = [in_use EXCEPT ![c] = TRUE]
      /\ attempt_reconnect' = [attempt_reconnect EXCEPT ![c] = FALSE]
      /\ socket' = [socket EXCEPT ![c] = "closed", ![old] = "gone"]
      /\ link' = [link EXCEPT ![old] = "gone"]
      /\ answers' = [answers EXCEPT ![old] = <<>>]
      /\ op' = [op EXCEPT ![q] = Begun("resolve")]
      /\ UNCHANGED <<phase, called, got, requests, handled, late>>
  BY <1>1 DEF Retry, Begun, Elsewhere, calls
<1>7. /\ conn'[q] = c /\ op'[q] = Begun("resolve")
      /\ \A p \in Requests \ {q} : conn'[p] = conn[p] /\ op'[p] = op[p]
      /\ Begun("resolve").name = "resolve" /\ op'[q] # NoOp
  BY <1>6 DEF Begun, NoOp, SentInv, TypeInv, Typed, SessionTypes
<1>8. /\ link'[c] = link[c] /\ answers'[c] = answers[c] /\ attempt_reconnect'[c] = FALSE
      /\ \A d \in Connections \ {c, old} :
           /\ link'[d] = link[d] /\ answers'[d] = answers[d]
           /\ attempt_reconnect'[d] = attempt_reconnect[d]
      /\ link'[old] = "gone"
  BY <1>4, <1>5, <1>6 DEF SentInv, TypeInv, Typed, PoolTypes, NetworkTypes
<1>9. ASSUME NEW p \in Requests \ {q}, op[p] # NoOp PROVE Same(p)
  <2>1. conn[p] \in Connections \ {c, old}
    BY <1>4, <1>5, <1>9, SessionHolds DEF Active
  <2> QED BY <1>6, <1>7, <1>8, <2>1 DEF Same
<1>10. ASSUME NEW d \in Connections, Resting(d)'
       PROVE  answers'[d] = answers[d] /\ link'[d] = link[d] /\ Resting(d)
  <2>1. d # c /\ d # old /\ Resting(d)
    <3>1. \A e \in Connections : socket'[e] = "none" => socket[e] = "none" /\ e # c /\ e # old
      BY <1>4, <1>5, <1>6 DEF SentInv, TypeInv, Typed, SocketTypes
    <3>2. \A e \in Idle' : e \in Idle /\ e # c /\ e # old
      BY <1>5, <1>6 DEF Idle, SentInv, TypeInv, Typed, PoolTypes
    <3>3. ASSUME NEW p \in Requests, phase'[p] = "calling", conn'[p] = d
          PROVE  d # c /\ d # old /\ Resting(d)
      <4>1. p # q /\ Active(p) /\ phase[p] = "calling" /\ conn[p] = d
        BY <1>4, <1>6, <1>7, <3>3 DEF Active
      <4> QED BY <1>4, <1>5, <4>1 DEF Resting
    <3> QED BY <1>10, <3>1, <3>2, <3>3 DEF Resting
  <2> QED BY <1>8, <2>1
<1>11. \A d \in Connections \ {c} : link[d] = "gone" => link'[d] = "gone"
  BY <1>8
<1>12. Resting(c)
  BY <1>5 DEF Resting
<1>13. /\ Sent(q) /\ attempt_reconnect[conn[q]] /\ called[q] = "no" /\ phase[q] \notin {"new", "calling"}
       /\ conn'[q] = c /\ c \in Connections
  BY <1>1, <1>3, <1>4, <1>5, <1>7
<1> QED BY <1>2, <1>6, <1>7, <1>8, <1>9, <1>10, <1>11, <1>12, <1>13

LEMMA RetrySent ==
  ASSUME SentInv, NEW q \in Requests, Retry(q)
  PROVE  SentParts'
<1>1. /\ Sent(q) /\ attempt_reconnect[conn[q]] /\ called[q] = "no" /\ phase[q] \notin {"new", "calling"}
      /\ UNCHANGED <<phase, called, got, requests, handled, late>>
      /\ op'[q] = Begun("resolve") /\ op'[q] # NoOp /\ Begun("resolve").name = "resolve"
      /\ \A p \in Requests \ {q} :
           conn'[p] = conn[p] /\ op'[p] = op[p] /\ (op[p] # NoOp => Same(p))
  BY RetryEffect
<1>2. PICK c : c = conn'[q]
  OBVIOUS
<1>3. /\ c \in Connections /\ Resting(c)
      /\ link'[c] = link[c] /\ answers'[c] = answers[c] /\ attempt_reconnect'[c] = FALSE
      /\ \A d \in Connections \ {c} : link[d] = "gone" => link'[d] = "gone"
  BY <1>2, RetryEffect
<1>4. \A d \in Connections : Resting(d)' =>
        answers'[d] = answers[d] /\ link'[d] = link[d] /\ Resting(d)
  BY RetryEffect
<1>5. Clean(c)
  BY <1>3 DEF SentInv, CleanOK
<1>6. Session(q)'
  <2>1. handled[q] + late[q] <= 1 /\ NoHeader(got[q])
    BY <1>1 DEF Sent, Spent
  <2>2. Unsent(q)'
    BY <1>1, <1>2, <1>3, <1>5, <2>1 DEF Unsent, Clean, Spent
  <2> QED BY <1>1, <2>2 DEF Session, Sending
<1>7. SessionsOK'
  <2> SUFFICES ASSUME NEW p \in Requests, op'[p] # NoOp, p # q PROVE Session(p)'
    BY <1>6 DEF SessionsOK
  <2>1. op'[p] = op[p] /\ Same(p)
    BY <1>1
  <2> QED BY <2>1, SameSession DEF SentInv, SessionsOK
<1>8. LeftOK'
  <2> SUFFICES ASSUME NEW d \in Connections, requests[d] # <<>>
               PROVE  \E p \in Requests : LeftOn(p, d)'
    BY <1>1 DEF LeftOK
  <2>1. PICK p \in Requests : LeftOn(p, d)
    BY DEF SentInv, LeftOK
  <2>2. p # q
    BY <1>1, <2>1 DEF LeftOn, Sent
  <2>3. d # c
    BY <1>5 DEF Clean
  <2>4. link[d] = "gone" => link'[d] = "gone"
    BY <1>3, <2>3
  <2> QED BY <1>1, <2>1, <2>2, <2>4 DEF LeftOn
<1>9. CleanOK'
  BY <1>1, <1>4 DEF SentInv, CleanOK, Clean
<1>10. CalledOK'
  BY <1>1 DEF SentInv, CalledOK
<1> QED BY <1>7, <1>8, <1>9, <1>10 DEF SentParts

\* The session ends without its callback: the client is gone.
LEMMA NoLockSent ==
  ASSUME SentInv, NEW q \in Requests, NoLock(q)
  PROVE  SentParts'
<1>1. PICK c : c = conn[q]
  OBVIOUS
<1>2. op[q] # NoOp
  BY DEF NoLock, NoOp
<1>3. /\ Session(q) /\ c \in Connections /\ called[q] = "no" /\ phase[q] \notin {"new", "calling"}
      /\ ~Resting(c)
      /\ \A p \in Requests \ {q} : Active(p) => conn[p] # c
  BY <1>1, <1>2, SessionHolds
<1>4. /\ op' = [op EXCEPT ![q] = NoOp]
      /\ socket' = [d \in Connections |-> IF d \in {c} THEN "gone" ELSE socket[d]]
      /\ link' = [d \in Connections |-> IF d \in {c} THEN "gone" ELSE link[d]]
      /\ answers' = [d \in Connections |-> IF d \in {c} THEN <<>> ELSE answers[d]]
      /\ UNCHANGED <<phase, called, conn, got, connections, in_use, attempt_reconnect, requests, handled, late>>
  BY <1>1 DEF NoLock, Drop, calls, pool, Elsewhere
<1>5. op'[q] = NoOp /\ \A p \in Requests \ {q} : op'[p] = op[p]
  BY <1>4 DEF SentInv, TypeInv, Typed, SessionTypes
<1>6. SessionsOK'
  <2> SUFFICES ASSUME NEW p \in Requests, op'[p] # NoOp PROVE Session(p)'
    BY DEF SessionsOK
  <2>1. p # q /\ op'[p] = op[p] /\ op[p] # NoOp
    BY <1>5
  <2>2. conn[p] \in Connections /\ conn[p] # c
    BY <1>3, <2>1, SessionHolds DEF Active
  <2>3. Same(p)
    BY <1>4, <2>2 DEF Same
  <2> QED BY <2>1, <2>3, SameSession DEF SentInv, SessionsOK
<1>7. LeftOK'
  <2> SUFFICES ASSUME NEW d \in Connections, requests[d] # <<>>
               PROVE  \E p \in Requests : LeftOn(p, d)'
    BY <1>4 DEF LeftOK
  <2>1. PICK p \in Requests : LeftOn(p, d)
    BY DEF SentInv, LeftOK
  <2>2. p = q => link'[d] = "gone"
    BY <1>1, <1>4, <2>1 DEF LeftOn
  <2>3. link[d] = "gone" => link'[d] = "gone"
    BY <1>4
  <2> QED BY <1>4, <1>5, <2>1, <2>2, <2>3 DEF LeftOn
<1>8. CleanOK'
  <2> SUFFICES ASSUME NEW d \in Connections, Resting(d)' PROVE Clean(d)'
    BY DEF CleanOK
  <2>1. Resting(d) /\ d # c
    BY <1>3, <1>4 DEF Resting, Idle
  <2> QED BY <1>4, <2>1 DEF SentInv, CleanOK, Clean
<1>9. CalledOK'
  BY <1>3, <1>4, <1>5 DEF SentInv, CalledOK
<1> QED BY <1>6, <1>7, <1>8, <1>9 DEF SentParts

\* The session ends without its callback: the length of its answer is none.
LEMMA ThrowsSent ==
  ASSUME SentInv, NEW q \in Requests, HeaderThrows(q)
  PROVE  SentParts'
<1>1. PICK c : c = conn[q]
  OBVIOUS
<1>2. op[q] # NoOp /\ op[q].name = "header" /\ op[q].res = "ok"
  BY HandlerOp DEF HeaderThrows, Handler
<1>3. /\ c \in Connections /\ called[q] = "no" /\ phase[q] \notin {"new", "calling"}
      /\ ~Resting(c)
      /\ \A p \in Requests \ {q} : Active(p) => conn[p] # c
  BY <1>1, <1>2, SessionHolds
<1>4. requests[c] = <<>>
  <2>1. HasHeader(got[q]) /\ got[q][HeaderEnd(q)].part = "header"
    BY <1>2 DEF HeaderThrows, SentInv, TypeInv, ReadsParts, ReadsPart
  <2> QED BY <1>1, <1>2, <2>1, OutcomeSays DEF Answered, Clean
<1>5. PICK dropped : dropped = {c} \ connections
  OBVIOUS
<1>6. /\ op' = [op EXCEPT ![q] = NoOp]
      /\ attempt_reconnect' = [attempt_reconnect EXCEPT ![c] = TRUE]
      /\ socket' = [d \in Connections |-> IF d \in dropped THEN "gone" ELSE socket[d]]
      /\ link' = [d \in Connections |-> IF d \in dropped THEN "gone" ELSE link[d]]
      /\ answers' = [d \in Connections |-> IF d \in dropped THEN <<>> ELSE answers[d]]
      /\ UNCHANGED <<called, conn, got, connections, in_use, requests, handled, late>>
  BY <1>1, <1>5 DEF HeaderThrows, Drop
<1>7. op'[q] = NoOp /\ \A p \in Requests \ {q} : op'[p] = op[p]
  BY <1>6 DEF SentInv, TypeInv, Typed, SessionTypes
<1>8. \A d \in Connections \ {c} : attempt_reconnect'[d] = attempt_reconnect[d]
  BY <1>6 DEF SentInv, TypeInv, Typed, PoolTypes
<1>9. \A p \in Requests : phase'[p] # phase[p] => phase[p] = "running" /\ phase'[p] = "threw"
  BY DEF HeaderThrows, Goto, Running, SentInv, TypeInv, Typed, CallTypes
<1>10. SessionsOK'
  <2> SUFFICES ASSUME NEW p \in Requests, op'[p] # NoOp PROVE Session(p)'
    BY DEF SessionsOK
  <2>1. p # q /\ op'[p] = op[p] /\ op[p] # NoOp
    BY <1>7
  <2>2. conn[p] \in Connections /\ conn[p] # c
    BY <1>3, <2>1, SessionHolds DEF Active
  <2>3. Same(p)
    BY <1>5, <1>6, <1>8, <2>2 DEF Same
  <2> QED BY <2>1, <2>3, SameSession DEF SentInv, SessionsOK
<1>11. LeftOK'
  <2> SUFFICES ASSUME NEW d \in Connections, requests[d] # <<>>
               PROVE  \E p \in Requests : LeftOn(p, d)'
    BY <1>6 DEF LeftOK
  <2>1. PICK p \in Requests : LeftOn(p, d)
    BY DEF SentInv, LeftOK
  <2>2. p # q
    BY <1>1, <1>4, <2>1 DEF LeftOn
  <2>3. link[d] = "gone" => link'[d] = "gone"
    BY <1>6
  <2>4. phase'[p] \notin {"new", "calling"}
    BY <1>9, <2>1 DEF LeftOn
  <2> QED BY <1>6, <1>7, <2>1, <2>2, <2>3, <2>4 DEF LeftOn
<1>12. CleanOK'
  <2> SUFFICES ASSUME NEW d \in Connections, Resting(d)' PROVE Clean(d)'
    BY DEF CleanOK
  <2>1. Resting(d)
    <3>1. socket'[d] = "none" => socket[d] = "none"
      BY <1>6
    <3>2. Idle' = Idle
      BY <1>6 DEF Idle
    <3>3. \A p \in Requests : phase'[p] = "calling" => phase[p] = "calling"
      BY <1>9
    <3> QED BY <1>6, <3>1, <3>2, <3>3 DEF Resting
  <2>2. d # c
    BY <1>3, <2>1
  <2> QED BY <1>5, <1>6, <2>1, <2>2 DEF SentInv, CleanOK, Clean
<1>13. CalledOK'
  BY <1>3, <1>6, <1>7, <1>9 DEF SentInv, CalledOK
<1> QED BY <1>10, <1>11, <1>12, <1>13 DEF SentParts

LEMMA HandlesSent ==
  ASSUME SentInv, NEW q \in Requests, Handles(q)
  PROVE  SentParts'
<1>1. CASE ResolveHandler(q)
  <2>1. op[q] # NoOp /\ op[q].name = "resolve"
    BY <1>1, HandlerOp DEF ResolveHandler, Handler
  <2>2. \A d \in Connections : socket'[d] = "none" => socket[d] = "none"
    BY <1>1, <2>1, SessionHolds DEF ResolveHandler, SentInv, TypeInv, Typed, SocketTypes
  <2> QED BY <1>1, <2>1, <2>2, OutcomeSays, ContinueSent
        DEF ResolveHandler, Start, Begun, OpNames, Elsewhere, calls, pool
<1>2. CASE ConnectHandler(q)
  <2>1. op[q] # NoOp /\ op[q].name = "connect"
    BY <1>2, HandlerOp DEF ConnectHandler, Handler
  <2> QED BY <1>2, <2>1, OutcomeSays, ContinueSent
        DEF ConnectHandler, Continue, Start, Begun, OpNames, Elsewhere, calls
<1>3. CASE WriteHandler(q)
  <2>1. op[q] # NoOp /\ op[q].name = "write" /\ op[q].res = "ok"
    BY <1>3, HandlerOp DEF WriteHandler, Handler
  <2> QED BY <1>3, <2>1, OutcomeSays, ContinueSent
        DEF WriteHandler, Continue, Start, Begun, OpNames, Elsewhere, calls
<1>4. CASE HeaderHandler(q)
  BY <1>4, HeaderSent
<1>5. CASE Failed(q) \/ NoRetry(q) \/ TooBig(q)
  <2>1. op[q] # NoOp
    BY <1>5, HandlerOp DEF Failed, NoRetry, TooBig
  <2>2. Callback(q, "error") /\ UNCHANGED <<Elsewhere, got, attempt_reconnect>>
    BY <1>5 DEF Failed, NoRetry, TooBig
  <2> QED BY <2>1, <2>2, CallbackSent
<1>6. CASE ContentHandler(q)
  <2>1. op[q] # NoOp /\ op[q].name \in {"content", "eof"}
    BY <1>6, HandlerOp DEF ContentHandler, Handler
  <2>2. \E result \in {"ok", "error"} : Callback(q, result)
    BY <1>6 DEF ContentHandler
  <2>3. UNCHANGED <<Elsewhere, got, attempt_reconnect>>
    BY <1>6 DEF ContentHandler
  <2> QED BY <2>1, <2>2, <2>3, CallbackSent, OutcomeSays
<1>7. CASE SizeHandler(q) \/ DataHandler(q)
  <2>1. op[q] # NoOp /\ op[q].name \in {"size", "data"}
    BY <1>7, HandlerOp DEF SizeHandler, DataHandler, Handler
  <2>2. Answered(q)
    BY <2>1, OutcomeSays
  <2>3. UNCHANGED <<Elsewhere, got, attempt_reconnect>>
    BY <1>7 DEF SizeHandler, DataHandler
  <2>4. CASE Callback(q, "error")
    BY <2>1, <2>3, <2>4, CallbackSent
  <2>5. CASE Chunk(q)
    BY <2>1, <2>2, <2>3, <2>5, ChunkSent
  <2>6. CASE Continue(q, "data")
    BY <2>1, <2>2, <2>3, <2>6, ContinueSent DEF Continue, Start, Begun, OpNames, Elsewhere, calls
  <2> QED BY <1>7, <2>4, <2>5, <2>6 DEF SizeHandler, DataHandler
<1> QED BY <1>1, <1>2, <1>3, <1>4, <1>5, <1>6, <1>7, RetrySent, NoLockSent, ThrowsSent DEF Handles

-----------------------------------------------------------------------------
(* What happens around a session.                                            *)

\* A step of the network or of timers: it leaves the sessions' owners alone.
LEMMA Around ==
  ASSUME SentInv, UNCHANGED <<phase, called, conn>>,
         \A p \in Requests : op'[p] = NoOp <=> op[p] = NoOp,
         \A p \in Requests : phase[p] \in {"new", "calling"} =>
           handled'[p] = handled[p] /\ late'[p] = late[p] /\ got'[p] = got[p],
         \A p \in Requests : /\ handled'[p] \in Nat /\ handled'[p] >= handled[p]
                             /\ handled'[p] + late'[p] <= 2
  PROVE  CalledOK'
<1>1. \A p \in Requests : handled[p] \in Nat /\ handled'[p] >= handled[p]
  BY DEF SentInv, TypeInv, Typed, NetworkTypes
<1>2. ASSUME NEW p \in Requests, called[p] = "ok" PROVE handled'[p] >= 1
  <2>1. handled[p] >= 1 /\ handled[p] \in Nat
    BY <1>1, <1>2 DEF SentInv, CalledOK
  <2>2. handled'[p] \in Nat /\ handled'[p] >= handled[p]
    BY <1>1
  <2> QED BY <2>1, <2>2
<1> QED BY <1>2 DEF SentInv, CalledOK

\* The connection is opened; the request is sent, or lost on its way.
LEMMA OperationSent ==
  ASSUME SentInv, NEW q \in Requests, OpensOrWrites(q)
  PROVE  SentParts'
<1>1. PICK c : c = conn[q]
  OBVIOUS
<1>2. op[q].res = "wait" /\ op[q] # NoOp /\ op[q].name \in {"resolve", "connect", "write"}
  BY SessionOpsFacts DEF OpensOrWrites
<1>3. PICK res \in {"ok", "err"} : Completes(q, res)
  BY DEF OpensOrWrites, Succeeds, Fails
<1>4. /\ op'[q] # NoOp /\ op'[q].name = op[q].name /\ op'[q].res = res
      /\ \A p \in Requests \ {q} : op'[p] = op[p]
  BY <1>2, <1>3, Completed DEF SentInv, TypeInv, Outcomes
<1>5. /\ Session(q) /\ c \in Connections /\ ~Resting(c) /\ link[c] # "gone"
      /\ phase[q] \notin {"new", "calling"} /\ called[q] = "no"
      /\ \A p \in Requests \ {q} : Active(p) => conn[p] # c
  BY <1>1, <1>2, SessionHolds
<1>6. Unsent(q)
  BY <1>2, <1>5 DEF Session, Sending, Written, Waiting, InHeader, Reading
<1>7. UNCHANGED <<phase, called, conn, got, connections, in_use, attempt_reconnect, socket,
                  answers, handled, late>>
  BY DEF OpensOrWrites, calls, pool, sockets
<1>8. \/ op[q].name \in {"resolve", "connect"} /\ requests' = requests
         /\ (link' = link \/ link' = [link EXCEPT ![c] = "up"])
      \/ op[q].name = "write" /\ requests' = requests /\ link' = link
      \/ op[q].name = "write" /\ link[c] = "up" /\ res = "ok" /\ link' = link
         /\ requests' = [requests EXCEPT ![c] = Append(@, q)]
  <2>1. op[q].name = "write" /\ Succeeds(q) => res = "ok"
    <3>1. ASSUME Succeeds(q) PROVE res = "ok"
      <4>1. op'[q].res = "ok"
        BY <1>2, <3>1, Completed DEF Succeeds, SentInv, TypeInv, Outcomes
      <4> QED BY <4>1, <1>4
    <3> QED BY <3>1
  <2> QED BY <1>1, <2>1 DEF OpensOrWrites
<1>9. requests[c] = <<>> /\ NoHeader(answers[c]) /\ NoHeader(got[q]) /\ handled[q] + late[q] <= Spent(c)
  BY <1>1, <1>6 DEF Unsent, Clean
<1>10. \A d \in Connections \ {c} : requests'[d] = requests[d] /\ link'[d] = link[d]
  BY <1>8 DEF SentInv, TypeInv, Typed, NetworkTypes
<1>11. Session(q)' /\ (requests'[c] # <<>> => LeftOn(q, c)')
  <2>1. CASE op[q].name \in {"resolve", "connect"} /\ requests' = requests
             /\ (link' = link \/ link' = [link EXCEPT ![c] = "up"])
    <3>1. link'[c] # "gone"
      BY <1>5, <2>1 DEF SentInv, TypeInv, Typed, NetworkTypes
    <3>2. Unsent(q)'
      BY <1>1, <1>7, <1>9, <2>1, <3>1 DEF Unsent, Clean, Spent
    <3> QED BY <1>4, <1>9, <2>1, <3>2 DEF Session, Sending
  <2>2. CASE op[q].name = "write" /\ requests' = requests /\ link' = link
    <3>1. Unsent(q)' /\ Sent(q)'
      <4>1. handled[q] \in Nat /\ late[q] \in Nat /\ Spent(c) \in {0, 1}
        BY DEF Spent, SentInv, TypeInv, Typed, NetworkTypes
      <4>2. handled[q] + late[q] <= Spent(c) + 1
        BY <4>1, <1>9
      <4>3. Spent(c)' = Spent(c)
        BY <1>7 DEF Spent
      <4> QED BY <1>1, <1>5, <1>7, <1>9, <2>2, <4>2, <4>3 DEF Unsent, Sent, Clean, NoHeader, OneHeader
    <3> QED BY <1>4, <1>9, <2>2, <3>1 DEF Session, Sending, Written
  <2>3. CASE op[q].name = "write" /\ link[c] = "up" /\ res = "ok" /\ link' = link
             /\ requests' = [requests EXCEPT ![c] = Append(@, q)]
    <3>1. Append(<<>>, q) = <<q>>
      OBVIOUS
    <3>2. requests'[c] = <<q>>
      BY <1>5, <1>9, <2>3, <3>1 DEF SentInv, TypeInv, Typed, NetworkTypes
    <3>3. OnItsWay(q)'
      BY <1>1, <1>7, <1>9, <2>3, <3>2 DEF OnItsWay, Spent
    <3>4. handled[q] + late[q] < 2
      <4>1. handled[q] \in Nat /\ late[q] \in Nat /\ Spent(c) \in {0, 1}
        BY DEF Spent, SentInv, TypeInv, Typed, NetworkTypes
      <4> QED BY <4>1, <1>9
    <3> QED BY <1>1, <1>4, <1>5, <1>7, <2>3, <3>2, <3>3, <3>4 DEF Session, Written, LeftOn
  <2> QED BY <1>8, <2>1, <2>2, <2>3
<1>12. SessionsOK'
  <2> SUFFICES ASSUME NEW p \in Requests, op'[p] # NoOp, p # q PROVE Session(p)'
    BY <1>11 DEF SessionsOK
  <2>1. op'[p] = op[p]
    BY <1>4
  <2>2. conn[p] \in Connections \ {c}
    BY <1>5, <2>1, SessionHolds DEF Active
  <2>3. Same(p)
    BY <1>7, <1>10, <2>2 DEF Same
  <2> QED BY <2>1, <2>3, SameSession DEF SentInv, SessionsOK
<1>13. LeftOK'
  <2> SUFFICES ASSUME NEW d \in Connections, requests'[d] # <<>>
               PROVE  \E p \in Requests : LeftOn(p, d)'
    BY DEF LeftOK
  <2>1. CASE d = c
    BY <2>1, <1>11
  <2>2. CASE d # c
    <3>1. PICK p \in Requests : LeftOn(p, d)
      BY <1>10, <2>2 DEF SentInv, LeftOK
    <3>2. op'[p] = NoOp => op[p] = NoOp
      BY <1>2, <1>4
    <3> QED BY <1>7, <1>10, <2>2, <3>1, <3>2 DEF LeftOn
  <2> QED BY <2>1, <2>2
<1>14. CleanOK'
  <2> SUFFICES ASSUME NEW d \in Connections, Resting(d)' PROVE Clean(d)'
    BY DEF CleanOK
  <2>1. Resting(d) /\ d # c
    BY <1>5, <1>7 DEF Resting, Idle
  <2> QED BY <1>7, <1>10, <2>1 DEF SentInv, CleanOK, Clean
<1>15. CalledOK'
  BY <1>2, <1>4, <1>7 DEF SentInv, CalledOK
<1> QED BY <1>12, <1>13, <1>14, <1>15 DEF SentParts

\* The header of an answer is in the part of it that is read, or in the rest.
LEMMA HeaderMoves ==
  ASSUME NEW s \in Seq(Parts), NEW t \in Seq(Parts), NEW n \in 0..Len(s), NoHeader(t)
  PROVE  /\ NoHeader(s) => NoHeader(t \o SubSeq(s, 1, n)) /\ NoHeader(SubSeq(s, n + 1, Len(s)))
         /\ OneHeader(s) => \/ NoHeader(t \o SubSeq(s, 1, n)) /\ OneHeader(SubSeq(s, n + 1, Len(s)))
                            \/ ~NoHeader(s) /\ NoHeader(SubSeq(s, n + 1, Len(s)))
<1>1. PICK head, rest : head = SubSeq(s, 1, n) /\ rest = SubSeq(s, n + 1, Len(s))
  OBVIOUS
<1>2. /\ head \in Seq(Parts) /\ Len(head) = n
      /\ \A i \in 1..n : head[i] = s[i]
      /\ rest \in Seq(Parts) /\ Len(rest) = Len(s) - n
      /\ \A i \in 1..(Len(s) - n) : rest[i] = s[n + i]
  BY <1>1, Cut
<1>3. Len(s) \in Nat /\ n \in Nat /\ n <= Len(s) /\ Len(t) \in Nat
  OBVIOUS
<1>4. /\ DOMAIN s = 1..Len(s) /\ DOMAIN t = 1..Len(t)
      /\ DOMAIN head = 1..n /\ DOMAIN rest = 1..(Len(s) - n)
  BY <1>2
<1>5. /\ \A i \in 1..n : i \in 1..Len(s)
      /\ \A i \in 1..(Len(s) - n) : n + i \in 1..Len(s)
      /\ \A i \in 1..n, j \in 1..(Len(s) - n) : i # n + j
      /\ \A i, j \in 1..(Len(s) - n) : n + i = n + j => i = j
  BY <1>3
<1>6. NoHeader(head) => NoHeader(t \o head)
  <2> SUFFICES ASSUME NoHeader(head) PROVE NoHeader(t \o head)
    OBVIOUS
  <2>1. PICK u : u = t \o head
    OBVIOUS
  <2>2. u \in Seq(Parts) /\ Len(u) = Len(t) + Len(head)
    BY <1>2, <2>1, ConcatProperties
  <2>3. \A i \in 1..(Len(t) + Len(head)) :
          \/ i \in 1..Len(t) /\ u[i] = t[i]
          \/ \E j \in 1..Len(head) : i = Len(t) + j /\ u[i] = head[j]
    <3>1. head \in Seq(Parts)
      BY <1>2
    <3>2. \A i \in 1..(Len(t) + Len(head)) :
            \/ i \in 1..Len(t) /\ (t \o head)[i] = t[i]
            \/ \E j \in 1..Len(head) : i = Len(t) + j /\ (t \o head)[i] = head[j]
      BY <3>1, Joined, Zenon
    <3> QED BY <2>1, <3>2, Zenon
  <2>4. DOMAIN u = 1..(Len(t) + Len(head))
    BY <2>2
  <2>5. ASSUME NEW i \in DOMAIN u PROVE u[i].part # "header"
    <3>1. \/ i \in DOMAIN t /\ u[i] = t[i]
          \/ \E j \in DOMAIN head : u[i] = head[j]
      BY <1>2, <1>4, <2>3, <2>4
    <3> QED BY <3>1 DEF NoHeader
  <2> QED BY <2>1, <2>5 DEF NoHeader
<1>a. /\ \A i \in DOMAIN head : i \in DOMAIN s /\ head[i] = s[i]
      /\ \A i \in DOMAIN rest : n + i \in DOMAIN s /\ rest[i] = s[n + i]
  BY <1>2, <1>4, <1>5
<1>7. NoHeader(s) => NoHeader(head) /\ NoHeader(rest)
  BY <1>a DEF NoHeader
<1>8. OneHeader(s) => OneHeader(rest)
  <2> SUFFICES ASSUME OneHeader(s), NEW i \in DOMAIN rest, NEW j \in DOMAIN rest,
                      rest[i].part = "header", rest[j].part = "header"
               PROVE  i = j
    BY DEF OneHeader
  <2>1. n + i = n + j
    BY <1>a DEF OneHeader
  <2> QED BY <2>1, <1>4, <1>5
<1>9. OneHeader(s) /\ ~NoHeader(head) => NoHeader(rest) /\ ~NoHeader(s)
  <2> SUFFICES ASSUME OneHeader(s), NEW i \in DOMAIN head, head[i].part = "header"
               PROVE  NoHeader(rest) /\ ~NoHeader(s)
    BY DEF NoHeader
  <2>1. i \in DOMAIN s /\ s[i].part = "header"
    BY <1>2, <1>4, <1>5
  <2>2. ASSUME NEW j \in DOMAIN rest, rest[j].part = "header" PROVE FALSE
    <3>1. n + j \in DOMAIN s /\ s[n + j].part = "header" /\ i # n + j
      BY <1>2, <1>4, <1>5, <2>2
    <3> QED BY <2>1, <3>1 DEF OneHeader
  <2> QED BY <2>1, <2>2 DEF NoHeader
<1> QED BY <1>1, <1>6, <1>7, <1>8, <1>9

\* What is read of the answer.
LEMMA ReadSent ==
  ASSUME SentInv, NEW q \in Requests, Reads(q)
  PROVE  SentParts'
<1>1. PICK c, s : c = conn[q] /\ s = answers[c]
  OBVIOUS
<1>2. op[q].res = "wait" /\ op[q] # NoOp
  BY ReadReceives DEF SentInv, TypeInv
<1>3. PICK n \in 0..Len(s), res \in {"ok", "eof", "err"} :
        /\ Receive(q, n) /\ Completes(q, res)
        /\ res # "ok" => link[c] # "up"
  BY <1>1, ReadReceives DEF SentInv, TypeInv
<1>4. /\ Session(q) /\ c \in Connections /\ ~Resting(c) /\ link[c] # "gone"
      /\ phase[q] \notin {"new", "calling"} /\ called[q] = "no"
      /\ \A p \in Requests \ {q} : Active(p) => conn[p] # c
  BY <1>1, <1>2, SessionHolds
<1>5. /\ op'[q] # NoOp /\ op'[q].name = op[q].name /\ op'[q].res = res
      /\ \A p \in Requests \ {q} : op'[p] = op[p]
  BY <1>2, <1>3, Completed DEF SentInv, TypeInv, Outcomes
<1>6. UNCHANGED <<phase, called, conn, connections, in_use, attempt_reconnect, socket,
                  link, requests, handled, late>>
  BY DEF Reads, calls, pool, sockets
<1>7. /\ got'[q] = got[q] \o SubSeq(s, 1, n)
      /\ answers'[c] = SubSeq(s, n + 1, Len(s))
      /\ \A p \in Requests \ {q} : got'[p] = got[p]
      /\ \A d \in Connections \ {c} : answers'[d] = answers[d]
  BY <1>1, <1>3, <1>4, Received DEF SentInv, TypeInv
<1>8. s \in Seq(Parts) /\ got[q] \in Seq(Parts)
  BY <1>1, <1>4 DEF SentInv, TypeInv, Typed, NetworkTypes, SessionTypes
<1>9. op[q].name \in {"header", "content", "size", "data", "eof"}
  BY DEF Reads
<1>10. Session(q)'
  <2>1. CASE OnItsWay(q) /\ op[q].name = "header"
    <3>1. NoHeader(got'[q]) /\ NoHeader(answers'[c])
      BY <1>1, <1>7, <1>8, <2>1, HeaderMoves DEF OnItsWay
    <3>2. res = "ok"
      BY <1>1, <1>3, <2>1 DEF OnItsWay
    <3>3. OnItsWay(q)'
      BY <1>1, <1>6, <2>1, <3>1 DEF OnItsWay, Spent
    <3> QED BY <1>5, <2>1, <3>2, <3>3 DEF Session, Waiting
  <2>2. CASE Sent(q) /\ op[q].name = "header"
    <3>1. NoHeader(got[q]) /\ OneHeader(s) /\ handled[q] + late[q] <= Spent(c) + 1 /\ requests[c] = <<>>
          /\ (NoHeader(s) \/ handled[q] >= 1)
      BY <1>1, <2>2 DEF Sent
    <3>2. \/ NoHeader(got'[q]) /\ OneHeader(answers'[c])
          \/ ~NoHeader(s) /\ NoHeader(answers'[c])
      BY <1>7, <1>8, <3>1, HeaderMoves
    <3>3. NoHeader(s) => NoHeader(got'[q]) /\ NoHeader(answers'[c])
      BY <1>7, <1>8, <3>1, HeaderMoves
    <3>4. Spent(c)' = Spent(c)
      BY <1>6 DEF Spent
    <3>5. CASE NoHeader(got'[q]) /\ OneHeader(answers'[c])
      <4>1. Sent(q)'
        BY <1>1, <1>4, <1>6, <3>1, <3>3, <3>4, <3>5 DEF Sent
      <4> QED BY <1>5, <2>2, <4>1 DEF Session, InHeader
    <3>6. CASE ~NoHeader(s) /\ NoHeader(answers'[c])
      <4>1. handled[q] >= 1 /\ handled[q] + late[q] <= 2
        BY <3>1, <3>6 DEF Spent, SentInv, TypeInv, Typed, NetworkTypes
      <4>2. Answered(q)'
        BY <1>1, <1>4, <1>6, <3>1, <3>6, <4>1 DEF Answered, Clean
      <4>3. res = "ok"
        <5>1. PICK j \in DOMAIN s : s[j].part = "header"
          BY <3>6 DEF NoHeader
        <5>2. j \in 1..Len(s) /\ IsHeader(s[j])
          BY <1>8, <5>1 DEF IsHeader
        <5>3. \/ Completes(q, "ok")
              \/ op[q].name = "header" => \A i \in 1..Len(s) : ~IsHeader(s[i])
          BY <1>1 DEF Reads
        <5>4. Completes(q, "ok")
          BY <2>2, <5>2, <5>3
        <5>5. op'[q].res = "ok"
          BY <1>2, <5>4, Completed DEF SentInv, TypeInv, Outcomes
        <5> QED BY <1>5, <5>5
      <4> QED BY <1>5, <2>2, <4>2, <4>3 DEF Session, Reading
    <3> QED BY <3>2, <3>5, <3>6
  <2>3. CASE Answered(q) /\ op[q].name # "header"
    <3>1. NoHeader(s) /\ NoHeader(<<>>)
      BY <1>1, <2>3 DEF Answered, Clean, NoHeader
    <3>2. <<>> \in Seq(Parts)
      OBVIOUS
    <3>3. NoHeader(answers'[c])
      BY <1>7, <1>8, <3>1, <3>2, HeaderMoves
    <3>4. Answered(q)'
      BY <1>1, <1>6, <2>3, <3>3 DEF Answered, Clean
    <3> QED BY <1>5, <1>9, <2>3, <3>4 DEF Session, Reading
  <2> QED BY <1>2, <1>4, <1>9, <2>1, <2>2, <2>3
        DEF Session, Sending, Written, Waiting, InHeader, Reading
<1>11. SessionsOK'
  <2> SUFFICES ASSUME NEW p \in Requests, op'[p] # NoOp, p # q PROVE Session(p)'
    BY <1>10 DEF SessionsOK
  <2>1. op'[p] = op[p]
    BY <1>5
  <2>2. conn[p] \in Connections \ {c}
    BY <1>4, <2>1, SessionHolds DEF Active
  <2>3. Same(p)
    BY <1>6, <1>7, <2>2 DEF Same
  <2> QED BY <2>1, <2>3, SameSession DEF SentInv, SessionsOK
<1>12. LeftOK'
  <2>1. \A p \in Requests : op'[p] = NoOp => op[p] = NoOp
    BY <1>2, <1>5
  <2>2. \A p \in Requests, d \in Connections : LeftOn(p, d) => LeftOn(p, d)'
    BY <1>6, <2>1 DEF LeftOn
  <2> QED BY <1>6, <2>2 DEF SentInv, LeftOK
<1>13. CleanOK'
  <2> SUFFICES ASSUME NEW d \in Connections, Resting(d)' PROVE Clean(d)'
    BY DEF CleanOK
  <2>1. Resting(d) /\ d # c
    BY <1>4, <1>6 DEF Resting, Idle
  <2> QED BY <1>6, <1>7, <2>1 DEF SentInv, CleanOK, Clean
<1>14. CalledOK'
  BY <1>2, <1>4, <1>5, <1>6, <1>7 DEF SentInv, CalledOK
<1> QED BY <1>11, <1>12, <1>13, <1>14 DEF SentParts

\* An answer has one header at most.
LEMMA AnswerAppended ==
  ASSUME Typed, NEW q \in Requests, NEW s \in Seq(Parts), NoHeader(s)
  PROVE  OneHeader(s \o Answer(q))
<1>1. PICK t, u : t = Answer(q) /\ u = s \o t
  OBVIOUS
<1>2. t \in Seq(Parts) /\ \A i \in 1..Len(t) : t[i].part = "header" => i = 1
  BY <1>1, AnswerTyped
<1>3. u \in Seq(Parts) /\ Len(u) = Len(s) + Len(t)
  BY <1>1, <1>2, ConcatProperties
<1>4. \A i \in 1..(Len(s) + Len(t)) :
        \/ i \in 1..Len(s) /\ u[i] = s[i]
        \/ \E j \in 1..Len(t) : i = Len(s) + j /\ u[i] = t[j]
  BY <1>1, <1>2, Joined
<1>5. DOMAIN u = 1..(Len(s) + Len(t)) /\ DOMAIN s = 1..Len(s)
  BY <1>3
<1>6. ASSUME NEW i \in DOMAIN u, u[i].part = "header" PROVE i = Len(s) + 1
  <2>1. ~(i \in 1..Len(s) /\ u[i] = s[i])
    BY <1>5, <1>6 DEF NoHeader
  <2>2. PICK j \in 1..Len(t) : i = Len(s) + j /\ u[i] = t[j]
    BY <1>4, <1>5, <2>1
  <2>3. j = 1
    BY <1>2, <1>6, <2>2
  <2> QED BY <2>2, <2>3
<1> QED BY <1>1, <1>6 DEF OneHeader

\* A request is handled, whether its session waits for the answer or was given up.
LEMMA ServesEffect ==
  ASSUME SentInv, NEW c \in Connections, Serves(c)
  PROVE  /\ UNCHANGED <<phase, called, conn, op, got, connections, in_use, attempt_reconnect, socket, late>>
         /\ ~Resting(c) /\ requests'[c] = <<>>
         /\ \A d \in Connections \ {c} :
              requests'[d] = requests[d] /\ answers'[d] = answers[d] /\ link'[d] = link[d]
         /\ \E q \in Requests :
              /\ requests[c] = <<q>> /\ conn[q] = c /\ phase[q] \notin {"new", "calling"}
              /\ called[q] # "ok" /\ handled[q] + late[q] < 2 /\ handled[q] \in Nat /\ late[q] \in Nat
              /\ handled'[q] = handled[q] + 1
              /\ \A p \in Requests \ {q} : handled'[p] = handled[p] /\ (op[p] # NoOp => Same(p))
              /\ op[q] # NoOp =>
                   /\ OnItsWay(q) /\ (Written(op[q]) \/ Waiting(op[q]))
                   /\ answers'[c] = answers[c] \o Answer(q) /\ link'[c] \in {"up", "closed"}
<1>1. PICK q \in Requests : LeftOn(q, c)
  BY DEF Serves, SentInv, LeftOK
<1>2. requests[c] = <<q>> /\ conn[q] = c /\ phase[q] \notin {"new", "calling"}
      /\ called[q] # "ok" /\ handled[q] + late[q] < 2 /\ handled[q] \in Nat /\ late[q] \in Nat
      /\ (op[q] = NoOp => link[c] = "gone")
  BY <1>1 DEF LeftOn, SentInv, TypeInv, Typed, NetworkTypes
<1>3. Head(requests[c]) = q /\ Tail(requests[c]) = <<>> /\ requests[c] # <<>>
  <2>1. Head(<<q>>) = q /\ Tail(<<q>>) = <<>> /\ <<q>> # <<>>
    OBVIOUS
  <2> QED BY <1>2, <2>1
<1>4. /\ handled' = [handled EXCEPT ![q] = @ + 1]
      /\ \/ /\ link[c] = "up"
            /\ answers' = [answers EXCEPT ![c] = @ \o Answer(q)]
            /\ link' = [link EXCEPT ![c] = IF kind[q] \in ToTheEnd \cup {"unstated"} THEN "closed" ELSE @]
         \/ link[c] = "gone" /\ UNCHANGED <<answers, link>>
      /\ requests' = [requests EXCEPT ![c] = Tail(@)]
      /\ UNCHANGED <<phase, called, conn, op, got, connections, in_use, attempt_reconnect, socket, late>>
  BY <1>3 DEF Serves, calls, session, pool, sockets
<1>5. /\ handled'[q] = handled[q] + 1
      /\ \A p \in Requests \ {q} : handled'[p] = handled[p]
      /\ requests'[c] = <<>>
      /\ \A d \in Connections \ {c} : requests'[d] = requests[d] /\ answers'[d] = answers[d] /\ link'[d] = link[d]
      /\ link[c] = "up" => answers'[c] = answers[c] \o Answer(q) /\ link'[c] \in {"up", "closed"}
      /\ link[c] = "gone" => link'[c] = "gone"
  BY <1>3, <1>4 DEF SentInv, TypeInv, Typed, NetworkTypes
<1>6. ~Resting(c)
  BY <1>3 DEF SentInv, CleanOK, Clean
<1>7. ASSUME op[q] # NoOp
      PROVE  /\ OnItsWay(q) /\ (Written(op[q]) \/ Waiting(op[q]))
             /\ answers'[c] = answers[c] \o Answer(q) /\ link'[c] \in {"up", "closed"}
  <2>1. Session(q) /\ link[c] # "gone"
    BY <1>2, <1>7, SessionHolds
  <2>2. OnItsWay(q) /\ (Written(op[q]) \/ Waiting(op[q]))
    BY <1>2, <1>3, <2>1 DEF Session, Unsent, Sent, Answered, Clean
  <2>3. answers'[c] = answers[c] \o Answer(q) /\ link'[c] \in {"up", "closed"}
    BY <1>4, <1>5, <2>1
  <2> QED BY <2>2, <2>3
<1>8. ASSUME NEW p \in Requests \ {q}, op[p] # NoOp PROVE Same(p)
  <2>1. conn[p] \in Connections /\ conn[p] # c
    <3>1. /\ conn[p] \in Connections /\ link[conn[p]] # "gone"
          /\ \A r \in Requests \ {p} : Active(r) => conn[r] # conn[p]
      BY <1>8, SessionHolds
    <3>2. CASE op[q] = NoOp
      BY <1>2, <3>1, <3>2
    <3>3. CASE op[q] # NoOp
      BY <1>2, <1>8, <3>1, <3>3 DEF Active
    <3> QED BY <3>2, <3>3
  <2> QED BY <1>4, <1>5, <1>8, <2>1 DEF Same
<1> QED BY <1>2, <1>4, <1>5, <1>6, <1>7, <1>8

LEMMA ServesSent ==
  ASSUME SentInv, NEW c \in Connections, Serves(c)
  PROVE  SentParts'
<1>1. /\ UNCHANGED <<phase, called, conn, op, got, connections, in_use, attempt_reconnect, socket, late>>
      /\ ~Resting(c) /\ requests'[c] = <<>>
      /\ \A d \in Connections \ {c} :
           requests'[d] = requests[d] /\ answers'[d] = answers[d] /\ link'[d] = link[d]
  BY ServesEffect
<1>2. PICK q \in Requests :
              /\ requests[c] = <<q>> /\ conn[q] = c /\ phase[q] \notin {"new", "calling"}
              /\ called[q] # "ok" /\ handled[q] + late[q] < 2 /\ handled[q] \in Nat /\ late[q] \in Nat
              /\ handled'[q] = handled[q] + 1
              /\ \A p \in Requests \ {q} : handled'[p] = handled[p] /\ (op[p] # NoOp => Same(p))
              /\ op[q] # NoOp =>
                   /\ OnItsWay(q) /\ (Written(op[q]) \/ Waiting(op[q]))
                   /\ answers'[c] = answers[c] \o Answer(q) /\ link'[c] \in {"up", "closed"}
  BY ServesEffect
<1>3. ASSUME op[q] # NoOp PROVE Session(q)'
  <2>1. answers[c] \in Seq(Parts)
    BY DEF SentInv, TypeInv, Typed, NetworkTypes
  <2>2. OneHeader(answers'[c])
    BY <1>2, <1>3, <2>1, AnswerAppended DEF OnItsWay, SentInv, TypeInv
  <2>3. handled'[q] + late'[q] <= Spent(c)' + 1 /\ handled'[q] >= 1
    <3>1. handled[q] + late[q] <= Spent(c)
      BY <1>2, <1>3 DEF OnItsWay
    <3>2. Spent(c)' = Spent(c) /\ Spent(c) \in {0, 1}
      BY <1>1 DEF Spent
    <3>3. late'[q] = late[q]
      BY <1>1
    <3> QED BY <1>2, <3>1, <3>2, <3>3
  <2>4. Sent(q)'
    BY <1>1, <1>2, <1>3, <2>2, <2>3 DEF Sent, OnItsWay
  <2> QED BY <1>1, <1>2, <1>3, <2>4 DEF Session, Written, Waiting, InHeader
<1>4. SessionsOK'
  <2> SUFFICES ASSUME NEW p \in Requests, op[p] # NoOp, p # q PROVE Session(p)'
    BY <1>1, <1>3 DEF SessionsOK
  <2>1. Same(p) /\ op'[p] = op[p]
    BY <1>1, <1>2
  <2> QED BY <2>1, SameSession DEF SentInv, SessionsOK
<1>5. LeftOK'
  <2> SUFFICES ASSUME NEW d \in Connections, requests'[d] # <<>>
               PROVE  \E p \in Requests : LeftOn(p, d)'
    BY DEF LeftOK
  <2>1. d # c /\ requests[d] # <<>>
    BY <1>1
  <2>2. PICK p \in Requests : LeftOn(p, d)
    BY <2>1 DEF SentInv, LeftOK
  <2>3. p # q
    BY <1>2, <2>1, <2>2 DEF LeftOn
  <2> QED BY <1>1, <1>2, <2>1, <2>2, <2>3 DEF LeftOn
<1>6. CleanOK'
  <2> SUFFICES ASSUME NEW d \in Connections, Resting(d)' PROVE Clean(d)'
    BY DEF CleanOK
  <2>1. Resting(d) /\ d # c
    BY <1>1 DEF Resting, Idle
  <2> QED BY <1>1, <2>1 DEF SentInv, CleanOK, Clean
<1>7. CalledOK'
  <2>1. \A p \in Requests : /\ handled'[p] \in Nat /\ handled'[p] >= handled[p]
                            /\ handled'[p] + late'[p] <= 2
    <3>1. ASSUME NEW p \in Requests, p # q
          PROVE  handled'[p] \in Nat /\ handled'[p] >= handled[p] /\ handled'[p] + late'[p] <= 2
      <4>1. handled'[p] = handled[p] /\ handled[p] \in Nat /\ handled[p] + late[p] <= 2
        BY <1>2, <3>1 DEF SentInv, CalledOK, TypeInv, Typed, NetworkTypes
      <4>2. late'[p] = late[p]
        BY <1>1
      <4> QED BY <4>1, <4>2
    <3>2. late'[q] = late[q]
      BY <1>1
    <3> QED BY <1>2, <3>1, <3>2
  <2> QED BY <1>1, <1>2, <2>1, Around
<1> QED BY <1>4, <1>5, <1>6, <1>7 DEF SentParts

\* What a connection that ends lets through has no header that was not on it.
LEMMA CutShort ==
  ASSUME NEW s \in Seq(Parts), NEW n \in 0..Len(s)
  PROVE  /\ NoHeader(s) => NoHeader(SubSeq(s, 1, n))
         /\ OneHeader(s) => OneHeader(SubSeq(s, 1, n))
         /\ \A r \in Requests :
              /\ NoHeader(s) => NoHeader(Append(SubSeq(s, 1, n), Part(r, "half")))
              /\ OneHeader(s) => OneHeader(Append(SubSeq(s, 1, n), Part(r, "half")))
<1>1. PICK head : head = SubSeq(s, 1, n)
  OBVIOUS
<1>2. /\ head \in Seq(Parts) /\ Len(head) = n /\ n \in Nat
      /\ \A i \in 1..n : i \in 1..Len(s) /\ head[i] = s[i]
  BY <1>1, Cut
<1>3. DOMAIN head = 1..n /\ DOMAIN s = 1..Len(s)
  BY <1>2
<1>4. NoHeader(s) => NoHeader(head)
  BY <1>2, <1>3 DEF NoHeader
<1>5. OneHeader(s) => OneHeader(head)
  BY <1>2, <1>3 DEF OneHeader
<1>6. ASSUME NEW r \in Requests
      PROVE  /\ NoHeader(s) => NoHeader(Append(head, Part(r, "half")))
             /\ OneHeader(s) => OneHeader(Append(head, Part(r, "half")))
  <2>1. PICK x, u : x = Part(r, "half") /\ u = Append(head, x)
    OBVIOUS
  <2>2. x \in Parts /\ x.part # "header"
    BY <2>1 DEF Part, Parts, PartNames
  <2>3. /\ DOMAIN u = 1..(n + 1)
        /\ \A i \in 1..n : u[i] = head[i]
        /\ u[n + 1] = x
    BY <1>2, <2>1, <2>2
  <2>4. \A i \in DOMAIN u : i \in 1..n \/ i = n + 1
    BY <1>2, <2>3
  <2>5. \A i \in DOMAIN u : u[i].part = "header" => i \in DOMAIN s /\ s[i].part = "header"
    BY <1>2, <1>3, <2>2, <2>3, <2>4
  <2> QED BY <2>1, <2>5 DEF NoHeader, OneHeader
<1> QED BY <1>1, <1>4, <1>5, <1>6

\* The connection ends; a request on its way is lost, or is to be handled late.
LEMMA ClosesSent ==
  ASSUME SentInv, NEW c \in Connections, Closes(c)
  PROVE  SentParts'
<1>1. answers[c] \in Seq(Parts) /\ link[c] = "up"
  BY DEF Closes, SentInv, TypeInv, Typed, NetworkTypes
<1>2. /\ UNCHANGED <<phase, called, conn, op, got, connections, in_use, attempt_reconnect, socket, handled>>
      /\ requests' = [requests EXCEPT ![c] = <<>>]
      /\ \E end \in {"closed", "reset"} : link' = [link EXCEPT ![c] = end]
  BY DEF Closes, calls, session, pool, sockets
<1>3. PICK s : /\ answers' = [answers EXCEPT ![c] = s]
               /\ NoHeader(answers[c]) => NoHeader(s)
               /\ OneHeader(answers[c]) => OneHeader(s)
  <2>1. CASE \E n \in 0..Len(answers[c]) : answers' = [answers EXCEPT ![c] = SubSeq(@, 1, n)]
    <3>1. PICK n \in 0..Len(answers[c]) : answers' = [answers EXCEPT ![c] = SubSeq(answers[c], 1, n)]
      BY <2>1 DEF SentInv, TypeInv, Typed, NetworkTypes
    <3> QED BY <1>1, <3>1, CutShort
  <2>2. CASE \E n \in 0..Len(answers[c]) - 1 : answers' = [answers EXCEPT ![c] =
                              Append(SubSeq(@, 1, n), Part(@[n + 1].of, "half"))]
    <3>1. PICK n \in 0..Len(answers[c]) - 1 : answers' = [answers EXCEPT ![c] =
                              Append(SubSeq(answers[c], 1, n), Part(answers[c][n + 1].of, "half"))]
      BY <2>2 DEF SentInv, TypeInv, Typed, NetworkTypes
    <3>2. n \in 0..Len(answers[c]) /\ n + 1 \in 1..Len(answers[c])
      BY <1>1, <3>1
    <3>3. answers[c][n + 1].of \in Requests
      <4>1. answers[c][n + 1] \in Parts
        BY <1>1, <3>2, ElementOfSeq
      <4> QED BY <4>1 DEF Parts
    <3> QED BY <1>1, <3>1, <3>2, <3>3, CutShort
  <2> QED BY <2>1, <2>2 DEF Closes
<1>4. /\ requests'[c] = <<>> /\ answers'[c] = s /\ link'[c] # "gone"
      /\ \A d \in Connections \ {c} : requests'[d] = requests[d] /\ answers'[d] = answers[d] /\ link'[d] = link[d]
  BY <1>2, <1>3 DEF SentInv, TypeInv, Typed, NetworkTypes
<1>a. \A p \in Requests : LeftOn(p, c) => op[p] # NoOp
  BY <1>1 DEF LeftOn
<1>b. PICK r : r = Head(requests[c])
  OBVIOUS
<1>c. requests[c] # <<>> => r \in Requests /\ requests[c] = <<r>> /\ conn[r] = c /\ op[r] # NoOp
                           /\ phase[r] \notin {"new", "calling"} /\ handled[r] + late[r] < 2
  <2> SUFFICES ASSUME requests[c] # <<>>
               PROVE  r \in Requests /\ requests[c] = <<r>> /\ conn[r] = c /\ op[r] # NoOp
                      /\ phase[r] \notin {"new", "calling"} /\ handled[r] + late[r] < 2
    OBVIOUS
  <2>1. PICK p \in Requests : LeftOn(p, c)
    BY DEF SentInv, LeftOK
  <2>2. Head(<<p>>) = p
    OBVIOUS
  <2>3. requests[c] = <<p>> /\ r = p
    BY <2>1, <2>2, <1>b DEF LeftOn
  <2> QED BY <1>a, <2>1, <2>3 DEF LeftOn
<1>d. \/ late' = late
      \/ requests[c] # <<>> /\ late' = [late EXCEPT ![r] = @ + 1]
  BY <1>b DEF Closes
<1>e. \A p \in Requests :
        \/ late'[p] = late[p]
        \/ requests[c] # <<>> /\ p = r /\ late'[p] = late[p] + 1
  BY <1>c, <1>d DEF SentInv, TypeInv, Typed, NetworkTypes
<1>f. \A p \in Requests : requests[c] = <<>> \/ p # r => late'[p] = late[p]
  BY <1>e
<1>g. \A p \in Requests : handled[p] \in Nat /\ late[p] \in Nat
  BY DEF SentInv, TypeInv, Typed, NetworkTypes
<1>5. SessionsOK'
  <2> SUFFICES ASSUME NEW p \in Requests, op[p] # NoOp PROVE Session(p)'
    BY <1>2 DEF SessionsOK
  <2>1. Session(p) /\ conn[p] \in Connections
    BY SessionHolds
  <2>2. CASE conn[p] # c
    <3>1. Same(p) /\ op'[p] = op[p]
      BY <1>2, <1>4, <1>c, <1>f, <2>1, <2>2 DEF Same
    <3> QED BY <2>1, <3>1, SameSession
  <2>3. CASE conn[p] = c
    <3>0. requests[c] = <<>> => late'[p] = late[p]
      BY <1>f
    <3>1. Unsent(p) => Unsent(p)'
      BY <1>2, <1>3, <1>4, <2>3, <3>0 DEF Unsent, Clean, Spent
    <3>2. Answered(p) => Answered(p)'
      BY <1>2, <1>3, <1>4, <2>3, <3>0 DEF Answered, Clean
    <3>3. Sent(p) => Sent(p)'
      BY <1>2, <1>3, <1>4, <2>3, <3>0 DEF Sent, Spent
    <3>4. OnItsWay(p) => Sent(p)'
      <4> SUFFICES ASSUME OnItsWay(p) PROVE Sent(p)'
        OBVIOUS
      <4>1. NoHeader(s) /\ OneHeader(s)
        BY <1>3, <2>3 DEF OnItsWay, NoHeader, OneHeader
      <4>2. handled[p] + late'[p] <= Spent(c) + 1
        <5>1. handled[p] + late[p] <= Spent(c) /\ Spent(c) \in {0, 1}
          BY <2>3 DEF OnItsWay, Spent
        <5> QED BY <5>1, <1>e, <1>g
      <4> QED BY <1>2, <1>4, <2>3, <4>1, <4>2 DEF OnItsWay, Sent, Spent
    <3> QED BY <1>2, <2>1, <3>1, <3>2, <3>3, <3>4 DEF Session, Written, Waiting, InHeader, Sending, Reading
  <2> QED BY <2>2, <2>3
<1>6. LeftOK'
  <2> SUFFICES ASSUME NEW d \in Connections, requests'[d] # <<>>
               PROVE  \E p \in Requests : LeftOn(p, d)'
    BY DEF LeftOK
  <2>1. d # c
    BY <1>4
  <2>2. PICK p \in Requests : LeftOn(p, d)
    BY <1>4, <2>1 DEF SentInv, LeftOK
  <2>3. p # r \/ requests[c] = <<>>
    BY <1>c, <2>1, <2>2 DEF LeftOn
  <2> QED BY <1>2, <1>4, <1>f, <2>1, <2>2, <2>3 DEF LeftOn
<1>7. CleanOK'
  <2> SUFFICES ASSUME NEW d \in Connections, Resting(d)' PROVE Clean(d)'
    BY DEF CleanOK
  <2>1. Clean(d)
    BY <1>2 DEF SentInv, CleanOK, Resting, Idle
  <2> QED BY <1>3, <1>4, <2>1 DEF Clean
<1>8. CalledOK'
  <2>1. \A p \in Requests : handled[p] + late'[p] <= 2
    BY <1>c, <1>e, <1>g DEF SentInv, CalledOK
  <2>2. \A p \in Requests : phase[p] \in {"new", "calling"} => late'[p] = late[p]
    BY <1>c, <1>f
  <2> QED BY <1>2, <2>1, <2>2 DEF SentInv, CalledOK
<1> QED BY <1>5, <1>6, <1>7, <1>8 DEF SentParts

\* The handler of a server whose connection is lost: the request counts as one that may be
\* handled already.
LEMMA LateSent ==
  ASSUME SentInv, NEW q \in Requests, ServesLate(q)
  PROVE  SentParts'
<1>1. UNCHANGED <<phase, called, conn, op, got, connections, in_use, attempt_reconnect, socket,
                  link, requests, answers>>
  BY DEF ServesLate, calls, session, pool, sockets
<1>2. \A p \in Requests : handled[p] \in Nat /\ late[p] \in Nat
  BY DEF SentInv, TypeInv, Typed, NetworkTypes
<1>3. /\ late[q] > 0 /\ handled'[q] = handled[q] + 1 /\ late'[q] = late[q] - 1
      /\ \A p \in Requests \ {q} : handled'[p] = handled[p] /\ late'[p] = late[p]
  BY DEF ServesLate, SentInv, TypeInv, Typed, NetworkTypes
<1>4. \A p \in Requests : /\ handled'[p] \in Nat /\ handled'[p] >= handled[p]
                          /\ handled'[p] + late'[p] = handled[p] + late[p]
  <2>1. handled'[q] \in Nat /\ handled'[q] >= handled[q]
        /\ handled'[q] + late'[q] = handled[q] + late[q]
    BY <1>2, <1>3
  <2>2. \A p \in Requests \ {q} : /\ handled'[p] \in Nat /\ handled'[p] >= handled[p]
                                /\ handled'[p] + late'[p] = handled[p] + late[p]
    BY <1>2, <1>3
  <2> QED BY <2>1, <2>2
<1>5. SessionsOK'
  <2> SUFFICES ASSUME NEW p \in Requests, op[p] # NoOp PROVE Session(p)'
    BY <1>1 DEF SessionsOK
  <2>1. Session(p)
    BY DEF SentInv, SessionsOK
  <2>2. PICK sum : sum = handled[p] + late[p] /\ sum = handled'[p] + late'[p]
    BY <1>4
  <2>3. handled[p] >= 1 => handled'[p] >= 1
    BY <1>2, <1>4
  <2>4. /\ Unsent(p) => Unsent(p)'
        /\ OnItsWay(p) => OnItsWay(p)'
        /\ Sent(p) => Sent(p)'
        /\ Answered(p) => Answered(p)'
    BY <1>1, <2>2, <2>3 DEF Unsent, OnItsWay, Sent, Answered, Clean, Spent
  <2> QED BY <1>1, <2>1, <2>4 DEF Session
<1>6. LeftOK'
  <2>1. \A p \in Requests, d \in Connections : LeftOn(p, d) => LeftOn(p, d)'
    BY <1>1, <1>4 DEF LeftOn
  <2> QED BY <1>1, <2>1 DEF SentInv, LeftOK
<1>7. CleanOK'
  BY <1>1 DEF SentInv, CleanOK, Clean, Resting, Idle
<1>8. CalledOK'
  <2>1. \A p \in Requests : phase[p] \in {"new", "calling"} => p # q
    BY <1>3 DEF SentInv, CalledOK
  <2>2. \A p \in Requests : handled'[p] + late'[p] <= 2
    BY <1>4 DEF SentInv, CalledOK
  <2> QED BY <1>1, <1>3, <1>4, <2>1, <2>2, Around
<1> QED BY <1>5, <1>6, <1>7, <1>8 DEF SentParts

\* What is cancelled was not done yet, and is not done.
LEMMA CancelledSession ==
  ASSUME Typed, NEW cs, NEW p \in Requests,
         op'[p] = op[p] \/ op'[p] = Cancelled(cs)[p], Same(p), Session(p)
  PROVE  Session(p)' /\ (op'[p] = NoOp <=> op[p] = NoOp)
<1>1. CASE op'[p] = op[p]
  BY <1>1, SameSession
<1>2. CASE op[p] # NoOp /\ op[p].res = "wait" /\ op'[p] = [op[p] EXCEPT !.res = "aborted"]
  <2>1. op[p] \in SessionOps
    BY <1>2 DEF Typed, SessionTypes
  <2>2. op'[p].name = op[p].name /\ op'[p].res = "aborted" /\ op'[p] # NoOp
    BY <1>2, <2>1, SessionOpsFacts DEF Outcomes
  <2>3. /\ Unsent(p)' <=> Unsent(p)
        /\ OnItsWay(p)' <=> OnItsWay(p)
        /\ Sent(p)' <=> Sent(p)
        /\ Answered(p)' <=> Answered(p)
    BY SameStays
  <2> QED BY <1>2, <2>2, <2>3 DEF Session, Sending, Written, Waiting, InHeader, Reading
<1> QED BY <1>1, <1>2, CancelledTyped

LEMMA CancelledNone ==
  ASSUME Typed, NEW cs, NEW p \in Requests, op'[p] = op[p] \/ op'[p] = Cancelled(cs)[p]
  PROVE  op'[p] = NoOp <=> op[p] = NoOp
<1>1. CASE op[p] # NoOp /\ op'[p] = [op[p] EXCEPT !.res = "aborted"]
  <2>1. op[p] \in SessionOps
    BY <1>1 DEF Typed, SessionTypes
  <2> QED BY <1>1, <2>1, SessionOpsFacts DEF Outcomes
<1> QED BY <1>1, CancelledTyped

\* A timer, the io_service or nothing.
LEMMA TimersSent ==
  ASSUME SentInv,
         \/ \E c \in Connections : TimerExpires(c) \/ TimerHandler(c)
         \/ OutOfWork \/ UNCHANGED vars
  PROVE  SentParts'
<1>1. /\ UNCHANGED <<phase, called, conn, got, connections, in_use, attempt_reconnect, socket,
                     link, requests, answers, handled, late>>
      /\ \E cs : \A p \in Requests : op'[p] = op[p] \/ op'[p] = Cancelled(cs)[p]
  BY DEF TimerExpires, TimerHandler, OutOfWork, vars, calls, session, pool, sockets, network
<1>2. PICK cs : \A p \in Requests : op'[p] = op[p] \/ op'[p] = Cancelled(cs)[p]
  BY <1>1
<1>3. \A p \in Requests : op'[p] = NoOp <=> op[p] = NoOp
  BY <1>2, CancelledNone DEF SentInv, TypeInv
<1>4. SessionsOK'
  <2> SUFFICES ASSUME NEW p \in Requests, op'[p] # NoOp PROVE Session(p)'
    BY DEF SessionsOK
  <2>1. Same(p) /\ Session(p)
    BY <1>1, <1>3 DEF Same, SentInv, SessionsOK
  <2> QED BY <1>2, <2>1, CancelledSession DEF SentInv, TypeInv
<1>5. LeftOK'
  <2>1. \A p \in Requests, d \in Connections : LeftOn(p, d) => LeftOn(p, d)'
    BY <1>1, <1>3 DEF LeftOn
  <2> QED BY <1>1, <2>1 DEF SentInv, LeftOK
<1>6. CleanOK'
  BY <1>1 DEF SentInv, CleanOK, Clean, Resting, Idle
<1>7. CalledOK'
  BY <1>1, <1>3 DEF SentInv, CalledOK
<1> QED BY <1>4, <1>5, <1>6, <1>7 DEF SentParts

\* stop() and the destructor: the connections that are idle are closed, the others cancelled.
LEMMA StopSent ==
  ASSUME SentInv, Stop \/ Destroy
  PROVE  SentParts'
<1>1. /\ UNCHANGED <<phase, called, conn, got, in_use, attempt_reconnect, requests, handled, late>>
      /\ op' = Cancelled(connections) /\ connections' = {}
      /\ socket' = [d \in Connections |-> IF d \in Idle THEN "gone" ELSE socket[d]]
      /\ link' = [d \in Connections |-> IF d \in Idle THEN "gone" ELSE link[d]]
      /\ answers' = [d \in Connections |-> IF d \in Idle THEN <<>> ELSE answers[d]]
  BY DEF Stop, Destroy, Drop, calls
<1>2. \A p \in Requests : op'[p] = NoOp <=> op[p] = NoOp
  BY <1>1, CancelledNone DEF SentInv, TypeInv
<1>3. SessionsOK'
  <2> SUFFICES ASSUME NEW p \in Requests, op'[p] # NoOp PROVE Session(p)'
    BY DEF SessionsOK
  <2>1. Session(p) /\ conn[p] \in Connections /\ ~Resting(conn[p])
    BY <1>2, SessionHolds
  <2>2. Same(p)
    BY <1>1, <2>1 DEF Same, Resting
  <2> QED BY <1>1, <2>1, <2>2, CancelledSession DEF SentInv, TypeInv
<1>4. LeftOK'
  <2>1. \A p \in Requests, d \in Connections : LeftOn(p, d) => LeftOn(p, d)'
    BY <1>1, <1>2 DEF LeftOn
  <2> QED BY <1>1, <2>1 DEF SentInv, LeftOK
<1>5. CleanOK'
  <2> SUFFICES ASSUME NEW d \in Connections, Resting(d)' PROVE Clean(d)'
    BY DEF CleanOK
  <2>1. d \notin Idle /\ Resting(d)
    <3>1. socket'[d] = "none" => socket[d] = "none" /\ d \notin Idle
      BY <1>1
    <3>2. d \notin Idle'
      BY <1>1 DEF Idle
    <3>3. ASSUME NEW p \in Requests, phase[p] = "calling", conn[p] = d
          PROVE  d \notin Idle /\ Resting(d)
      <4>1. in_use[d]
        BY <3>3 DEF Active, SentInv, TypeInv, IInv, NotShared
      <4> QED BY <3>3, <4>1 DEF Idle, Resting
    <3> QED BY <1>1, <3>1, <3>2, <3>3 DEF Resting
  <2> QED BY <1>1, <2>1 DEF SentInv, CleanOK, Clean
<1>6. CalledOK'
  BY <1>1, <1>2 DEF SentInv, CalledOK
<1> QED BY <1>3, <1>4, <1>5, <1>6 DEF SentParts

LEMMA SentStep == SentInv /\ [Next]_vars => SentInv'
<1> SUFFICES ASSUME SentInv, [Next]_vars PROVE SentInv'
  OBVIOUS
<1>1. TypeInv'
  BY TypeStep DEF SentInv
<1>2. ASSUME NEW q \in Requests, Caller(q) \/ Handles(q) \/ OpensOrWrites(q) \/ Reads(q) \/ ServesLate(q)
      PROVE  SentParts'
  BY <1>2, CallerSent, HandlesSent, OperationSent, ReadSent, LateSent
<1>3. ASSUME NEW c \in Connections, Serves(c) \/ Closes(c)
      PROVE  SentParts'
  BY <1>3, ServesSent, ClosesSent
<1>4. SentParts'
  BY <1>2, <1>3, TimersSent, StopSent DEF Next
<1> QED BY <1>1, <1>4 DEF SentInv, SentParts

-----------------------------------------------------------------------------
(* The refinement of HttpCall.                                               *)

Status(q) == IF called[q] # "no" THEN called[q]
             ELSE IF phase[q] = "new" THEN "new" ELSE "pending"

StatusOf == [q \in Requests |-> Status(q)]

\* A step of which HttpCall sees nothing.
LEMMA Unseen ==
  ASSUME UNCHANGED <<called, handled>>, \A q \in Requests : phase'[q] = "new" <=> phase[q] = "new"
  PROVE  UNCHANGED Call!vars
<1>1. \A q \in Requests : Status(q)' = Status(q)
  BY DEF Status
<1>2. StatusOf' = StatusOf
  BY <1>1 DEF StatusOf
<1> QED BY <1>2 DEF Call!vars, StatusOf, Status

\* A step in which the status of one request changes.
LEMMA Seen ==
  ASSUME NEW q \in Requests, UNCHANGED handled, Status(q)' # Status(q),
         \A p \in Requests \ {q} : Status(p)' = Status(p)
  PROVE  StatusOf[q] = Status(q) /\ StatusOf' = [StatusOf EXCEPT ![q] = Status(q)']
<1>1. \A p \in Requests : StatusOf[p] = Status(p)
  BY DEF StatusOf
<1>2. StatusOf' = [p \in Requests |-> IF p = q THEN Status(q)' ELSE Status(p)]
  BY DEF StatusOf
<1> QED BY <1>1, <1>2 DEF StatusOf

LEMMA InitCall == Init => Call!Init
<1> SUFFICES ASSUME Init PROVE Call!Init
  OBVIOUS
<1>1. \A q \in Requests : Status(q) = "new"
  BY DEF Init, Status
<1>2. StatusOf = [q \in Requests |-> "new"] /\ handled = [q \in Requests |-> 0]
  BY <1>1 DEF StatusOf, Init
<1> QED BY <1>2 DEF Call!Init, StatusOf, Status

\* Session::callback is called for a request that waits for it, and with success if it was
\* handled.
LEMMA CallbackCalls ==
  ASSUME SentInv, SentInv', NEW q \in Requests, op[q] # NoOp, NEW result \in {"ok", "error"},
         Callback(q, result), UNCHANGED handled
  PROVE  Call!Next
<1>1. called[q] = "no" /\ phase[q] # "new"
  BY SessionHolds
<1>2. called' = [called EXCEPT ![q] = result] /\ phase' = phase
  BY DEF Callback
<1>3. called'[q] = result /\ \A p \in Requests \ {q} : called'[p] = called[p]
  BY <1>2 DEF SentInv, TypeInv, Typed, CallTypes
<1>4. Status(q) = "pending" /\ Status(q)' = result /\ \A p \in Requests \ {q} : Status(p)' = Status(p)
  BY <1>1, <1>2, <1>3 DEF Status
<1>5. StatusOf[q] = "pending" /\ StatusOf' = [StatusOf EXCEPT ![q] = result]
  BY <1>4, Seen
<1>6. result = "ok" => handled[q] > 0
  <2>1. result = "ok" => handled'[q] >= 1
    BY <1>3 DEF SentInv, CalledOK
  <2>2. handled[q] \in Nat
    BY DEF SentInv, TypeInv, Typed, NetworkTypes
  <2> QED BY <2>1, <2>2
<1>7. Call!Succeed(q) \/ Call!Fail(q)
  BY <1>5, <1>6 DEF Call!Succeed, Call!Fail, StatusOf, Status
<1> QED BY <1>7 DEF Call!Next

LEMMA CallerCallsOf ==
  ASSUME SentInv, NEW q \in Requests, Caller(q)
  PROVE  Call!Next \/ UNCHANGED Call!vars
<1>1. CASE GetConnection(q)
  <2>1. phase[q] = "new" /\ phase' = [phase EXCEPT ![q] = "calling"] /\ UNCHANGED <<called, handled>>
    BY <1>1 DEF GetConnection, Goto, network
  <2>2. called[q] = "no" /\ phase'[q] = "calling" /\ \A p \in Requests \ {q} : phase'[p] = phase[p]
    BY <2>1 DEF SentInv, CalledOK, TypeInv, Typed, CallTypes
  <2>3. Status(q) = "new" /\ Status(q)' = "pending" /\ \A p \in Requests \ {q} : Status(p)' = Status(p)
    BY <2>1, <2>2 DEF Status
  <2>4. StatusOf[q] = "new" /\ StatusOf' = [StatusOf EXCEPT ![q] = "pending"]
    BY <2>1, <2>3, Seen
  <2>5. Call!Call(q)
    BY <2>1, <2>4 DEF Call!Call, StatusOf, Status
  <2> QED BY <2>5 DEF Call!Next
<1>2. CASE Connect(q) \/ Count(q) \/ Run(q) \/ RunReturns(q) \/ Returns(q)
  <2>1. /\ phase[q] # "new"
        /\ \E r \in Phases \ {"new"} : phase' = [phase EXCEPT ![q] = r]
        /\ UNCHANGED <<called, handled>>
    BY <1>2 DEF Connect, Count, Run, RunReturns, Returns, Goto, network, Phases
  <2>2. \A p \in Requests : phase'[p] = "new" <=> phase[p] = "new"
    BY <2>1 DEF SentInv, TypeInv, Typed, CallTypes
  <2> QED BY <2>1, <2>2, Unseen
<1> QED BY <1>1, <1>2 DEF Caller

\* The exception of a handler is seen by nobody but the thread it stops.
LEMMA ThrowsUnseen ==
  ASSUME SentInv, NEW q \in Requests, HeaderThrows(q)
  PROVE  UNCHANGED Call!vars
<1>1. UNCHANGED <<called, handled>>
  BY DEF HeaderThrows
<1>2. \A p \in Requests : phase'[p] # phase[p] => phase[p] = "running" /\ phase'[p] = "threw"
  BY DEF HeaderThrows, Goto, Running, SentInv, TypeInv, Typed, CallTypes
<1> QED BY <1>1, <1>2, Unseen

LEMMA HandlesCallsOf ==
  ASSUME SentInv, SentInv', NEW q \in Requests, Handles(q), ~HeaderThrows(q)
  PROVE  Call!Next \/ UNCHANGED Call!vars
<1>1. op[q] # NoOp
  <2>1. CASE NoLock(q)
    BY <2>1 DEF NoLock, NoOp
  <2>2. CASE ~NoLock(q)
    <3>1. \E name \in OpNames, res \in Outcomes \ {"wait"} : Handler(q, name, res)
      BY <2>2 DEF Handles, ResolveHandler, ConnectHandler, WriteHandler, HeaderHandler, ContentHandler,
         TooBig, SizeHandler, DataHandler, Failed, Retry, NoRetry, OpNames, Outcomes
    <3> QED BY <3>1, HandlerOp DEF Outcomes
  <2> QED BY <2>1, <2>2
<1>2. UNCHANGED handled
  BY DEF Elsewhere, Handles, ResolveHandler, ConnectHandler, WriteHandler, HeaderHandler, ContentHandler,
     TooBig, SizeHandler, DataHandler, Failed, Retry, NoRetry, NoLock
<1>3. \/ \E result \in {"ok", "error"} : Callback(q, result)
      \/ UNCHANGED calls
  BY DEF Handles, ResolveHandler, ConnectHandler, WriteHandler, HeaderHandler, ContentHandler,
     TooBig, SizeHandler, DataHandler, Chunk, Continue, Failed, Retry, NoRetry, NoLock
<1> QED BY <1>1, <1>2, <1>3, CallbackCalls, Unseen DEF calls

\* A request that was made is handled.
LEMMA HandledCalls ==
  ASSUME SentInv, NEW q \in Requests, phase[q] # "new", handled[q] < 2,
         handled' = [handled EXCEPT ![q] = @ + 1], UNCHANGED <<phase, called>>
  PROVE  Call!Next
<1>1. Status(q) # "new" /\ \A p \in Requests : Status(p)' = Status(p)
  BY DEF Status, SentInv, TypeInv, Typed, CallTypes
<1>2. StatusOf[q] # "new" /\ StatusOf' = StatusOf
  BY <1>1 DEF StatusOf
<1>3. Call!Handle(q)
  BY <1>2 DEF Call!Handle, StatusOf, Status
<1> QED BY <1>3 DEF Call!Next

\* A server handles a request, be it late, at most twice.
LEMMA ServesCalls ==
  ASSUME SentInv, NEW c \in Connections, Serves(c)
  PROVE  Call!Next
<1>1. PICK q \in Requests : LeftOn(q, c)
  BY DEF Serves, SentInv, LeftOK
<1>2. requests[c] = <<q>> /\ phase[q] # "new" /\ handled[q] < 2
  <2>1. requests[c] = <<q>> /\ phase[q] # "new" /\ handled[q] + late[q] < 2
    BY <1>1 DEF LeftOn
  <2>2. handled[q] \in Nat /\ late[q] \in Nat
    BY DEF SentInv, TypeInv, Typed, NetworkTypes
  <2> QED BY <2>1, <2>2
<1>3. Head(requests[c]) = q
  <2>1. Head(<<q>>) = q
    OBVIOUS
  <2> QED BY <1>2, <2>1
<1>4. handled' = [handled EXCEPT ![q] = @ + 1] /\ UNCHANGED <<phase, called>>
  BY <1>3 DEF Serves, calls
<1> QED BY <1>2, <1>4, HandledCalls

LEMMA LateCalls ==
  ASSUME SentInv, NEW q \in Requests, ServesLate(q)
  PROVE  Call!Next
<1>1. late[q] > 0 /\ handled' = [handled EXCEPT ![q] = @ + 1] /\ UNCHANGED <<phase, called>>
  BY DEF ServesLate, calls
<1>2. phase[q] # "new" /\ handled[q] + late[q] <= 2
  BY <1>1 DEF SentInv, CalledOK
<1>3. handled[q] \in Nat /\ late[q] \in Nat
  BY DEF SentInv, TypeInv, Typed, NetworkTypes
<1>4. handled[q] < 2
  BY <1>1, <1>2, <1>3
<1> QED BY <1>1, <1>2, <1>4, HandledCalls

LEMMA StepCalls == SentInv /\ SentInv' /\ [Next]_vars => [Call!Next]_(Call!vars)
<1> SUFFICES ASSUME SentInv, SentInv', [Next]_vars PROVE [Call!Next]_(Call!vars)
  OBVIOUS
<1>1. ASSUME NEW q \in Requests, Caller(q) \/ Handles(q) \/ ServesLate(q)
      PROVE  [Call!Next]_(Call!vars)
  BY <1>1, CallerCallsOf, HandlesCallsOf, ThrowsUnseen, LateCalls
<1>2. ASSUME NEW c \in Connections, Serves(c)
      PROVE  [Call!Next]_(Call!vars)
  BY <1>2, ServesCalls
<1>3. CASE \/ \E q \in Requests : OpensOrWrites(q) \/ Reads(q)
           \/ \E c \in Connections : TimerExpires(c) \/ TimerHandler(c) \/ Closes(c)
           \/ OutOfWork \/ Stop \/ Destroy \/ UNCHANGED vars
  <2>1. UNCHANGED <<phase, called, handled>>
    BY <1>3 DEF OpensOrWrites, Reads, TimerExpires, TimerHandler, Closes, OutOfWork, Stop, Destroy,
                vars, calls, network
  <2> QED BY <2>1, Unseen
<1> QED BY <1>1, <1>2, <1>3 DEF Next

\* A request is called back at most once, with success only if a server has handled it; retries,
\* timers, stop(), the destructor and servers that handle it after its connection was lost, or
\* after the callback, make no server handle it a third time (client.h:224-253, 536-557).
THEOREM CallImplementation == Spec => CallSpec
<1>1. Init => SentInv
  BY InitSent
<1>2. SentInv /\ [Next]_vars => SentInv'
  BY SentStep
<1> QED BY <1>1, <1>2, InitCall, StepCalls, PTL DEF Spec, CallSpec, Call!Spec

-----------------------------------------------------------------------------
(* What is read is the answer to the request, from its first part on: a       *)
(* connection that is free has nothing under way, and a session that has to   *)
(* send its request again has read nothing.  It is so if no connection ends    *)
(* inside a header and every header tells where its answer ends.              *)

NoTornHeader == ~HeadersTear
EndsTold == \A x \in Cases : \A q \in Requests : x.kind[q] # "unstated"

\* The parts that were read and those under way are the answer's first, in this order.
Matches(q) ==
  LET s == got[q]  t == answers[conn[q]]  a == Answer(q)
  IN /\ Len(s) + Len(t) <= Len(a)
     /\ \A i \in 1..Len(s) : s[i] = a[i]
     /\ \A i \in 1..Len(t) : t[i] = a[Len(s) + i]

Wire(q) ==
  LET name == op[q].name  res == op[q].res
  IN /\ Matches(q)
     /\ name \in {"resolve", "connect", "write"} \/ (name = "header" /\ res # "ok") => got[q] = <<>>
     /\ name \in {"resolve", "connect"} \/ (name = "write" /\ res # "ok") => answers[conn[q]] = <<>>
     /\ requests[conn[q]] # <<>> => answers[conn[q]] = <<>> /\ got[q] = <<>>
     /\ name \in {"content", "size", "data", "eof"} => got[q] # <<>>
     /\ name = "content" => kind[q] \in ByLength
     /\ name = "content" /\ res = "ok" => Len(got[q]) >= 2
     /\ name \in {"size", "data"} => kind[q] \in InChunks
     /\ name = "eof" => kind[q] \in ToTheEnd
     /\ name = "eof" /\ res = "eof" => answers[conn[q]] = <<>>

WiresOK == \A q \in Requests : op[q] # NoOp => Wire(q)

EmptyOK == \A c \in Connections : Resting(c) => answers[c] = <<>>

Told == \A q \in Requests : kind[q] # "unstated"

\* What a request that succeeded returns.
Right(q) == IF kind[q] \in ToTheEnd THEN IsPrefix(got[q], Answer(q)) /\ got[q] # <<>>
            ELSE got[q] = Answer(q)

AnswerInv == SentInv /\ Told /\ WiresOK /\ EmptyOK /\ RightAnswer

WireParts == WiresOK /\ EmptyOK /\ RightAnswer

\* The answers: how long they are, and where they end.
LEMMA KindFacts ==
  ASSUME NEW k \in Kinds
  PROVE  /\ k \in ByLength => Len(AnswerParts[k]) = 2
         /\ k = "empty" => Len(AnswerParts[k]) = 1
         /\ k \in InChunks => \A i \in 1..Len(AnswerParts[k]) :
                                AnswerParts[k][i] = "zero" => i + 1 = Len(AnswerParts[k])
         /\ Len(AnswerParts[k]) >= 1 /\ AnswerParts[k][1] \in {"header", "junk"}
<1> DEFINE Begins(a) == Len(a) >= 1 /\ a[1] \in {"header", "junk"}
           ZeroLast(a) == \A i \in 1..Len(a) : a[i] = "zero" => i + 1 = Len(a)
<1>1. /\ Begins(<<"header", "body">>) /\ Begins(<<"header", "huge">>) /\ Begins(<<"header", "junk">>)
      /\ Begins(<<"header">>) /\ Begins(<<"junk">>)
      /\ Begins(<<"header", "size", "data", "zero", "crlf">>)
      /\ Begins(<<"header", "size", "huge", "zero", "crlf">>)
      /\ Begins(<<"header", "size", "data", "fill", "data", "zero", "crlf">>)
  OBVIOUS
<1>2. ZeroLast(<<"header", "junk">>)
  OBVIOUS
<1>3. ZeroLast(<<"header", "size", "data", "zero", "crlf">>)
  OBVIOUS
<1>4. ZeroLast(<<"header", "size", "huge", "zero", "crlf">>)
  OBVIOUS
<1>a. ZeroLast(<<"header", "size", "data", "fill", "data", "zero", "crlf">>)
  OBVIOUS
<1>5. AnswerParts[k] \in {<<"header", "body">>, <<"header", "huge">>, <<"header", "junk">>,
        <<"header">>, <<"junk">>, <<"header", "size", "data", "zero", "crlf">>,
        <<"header", "size", "huge", "zero", "crlf">>,
        <<"header", "size", "data", "fill", "data", "zero", "crlf">>}
  BY DEF AnswerParts, Kinds, ByLength, InChunks, ToTheEnd, AtHeader
<1>6. k \in InChunks =>
        AnswerParts[k] \in {<<"header", "junk">>, <<"header", "size", "data", "zero", "crlf">>,
                            <<"header", "size", "huge", "zero", "crlf">>,
                            <<"header", "size", "data", "fill", "data", "zero", "crlf">>}
  BY DEF AnswerParts, InChunks
<1>7. k \in ByLength => AnswerParts[k] \in {<<"header", "body">>, <<"header", "huge">>}
  BY DEF AnswerParts, ByLength
<1>8. k = "empty" => AnswerParts[k] = <<"header">>
  BY DEF AnswerParts
<1>9. Len(<<"header", "body">>) = 2 /\ Len(<<"header", "huge">>) = 2 /\ Len(<<"header">>) = 1
  OBVIOUS
<1> HIDE DEF Begins, ZeroLast
<1>10. Begins(AnswerParts[k]) /\ (k \in InChunks => ZeroLast(AnswerParts[k]))
  BY <1>1, <1>2, <1>3, <1>4, <1>a, <1>5, <1>6
<1> QED BY <1>7, <1>8, <1>9, <1>10 DEF Begins, ZeroLast

LEMMA AnswerFacts ==
  ASSUME Typed, NEW q \in Requests
  PROVE  /\ Answer(q) \in Seq(Parts) /\ Len(Answer(q)) \in Nat /\ Len(Answer(q)) >= 1
         /\ IsHeader(Answer(q)[1])
         /\ \A i \in 1..Len(Answer(q)) :
              Answer(q)[i].of = q /\ (Answer(q)[i].part = "header" => i = 1)
         /\ kind[q] \in ByLength => Len(Answer(q)) = 2
         /\ kind[q] = "empty" => Len(Answer(q)) = 1
         /\ kind[q] \in InChunks => \A i \in 1..Len(Answer(q)) :
              Answer(q)[i].part = "zero" => i + 1 = Len(Answer(q))
<1>1. PICK a, k : a = Answer(q) /\ k = kind[q]
  OBVIOUS
<1>2. k \in Kinds
  BY <1>1 DEF Typed, RestTypes
<1>3. /\ a \in Seq(Parts) /\ Len(a) = Len(AnswerParts[k])
      /\ \A i \in 1..Len(a) : a[i] = Part(q, AnswerParts[k][i])
      /\ \A i \in 1..Len(a) : a[i].part = "header" => i = 1
  BY <1>1, AnswerTyped
<1>4. Len(a) \in Nat
  BY <1>3
<1>5. \A i \in 1..Len(a) : a[i].of = q /\ a[i].part = AnswerParts[k][i]
  <2>1. \A x : Part(q, x).of = q /\ Part(q, x).part = x
    BY DEF Part
  <2> QED BY <1>3, <2>1
<1>6. Len(a) >= 1 /\ a[1].part \in {"header", "junk"}
  BY <1>2, <1>3, <1>4, <1>5, KindFacts
<1>7. /\ k \in ByLength => Len(a) = 2
      /\ k = "empty" => Len(a) = 1
  BY <1>2, <1>3, KindFacts
<1>8. k \in InChunks => \A i \in 1..Len(a) : a[i].part = "zero" => i + 1 = Len(a)
  BY <1>2, <1>3, <1>5, KindFacts
<1> QED BY <1>1, <1>3, <1>4, <1>5, <1>6, <1>7, <1>8 DEF IsHeader

\* The whole answer has been read if as many parts have been as it has; what has been read
\* begins it.
LEMMA MatchesSays ==
  ASSUME Typed, NEW q \in Requests, conn[q] \in Connections, Matches(q)
  PROVE  /\ IsPrefix(got[q], Answer(q)) /\ Len(got[q]) <= Len(Answer(q))
         /\ Len(got[q]) >= Len(Answer(q)) => got[q] = Answer(q) /\ answers[conn[q]] = <<>>
<1>1. PICK s, t, a : s = got[q] /\ t = answers[conn[q]] /\ a = Answer(q)
  OBVIOUS
<1>2. s \in Seq(Parts) /\ t \in Seq(Parts) /\ a \in Seq(Parts)
  BY <1>1, AnswerTyped DEF Typed, SessionTypes, NetworkTypes
<1>3. Len(s) \in Nat /\ Len(t) \in Nat /\ Len(a) \in Nat
  BY <1>2
<1>4. Len(s) + Len(t) <= Len(a) /\ \A i \in 1..Len(s) : s[i] = a[i]
  BY <1>1 DEF Matches
<1>5. Len(s) <= Len(a)
  BY <1>3, <1>4
<1>6. SubSeq(s, 1, Len(s)) = SubSeq(a, 1, Len(s))
  <2>1. Len(s) \in 0..Len(s) /\ Len(s) \in 0..Len(a)
    BY <1>3, <1>5
  <2>2. PICK u, v : u = SubSeq(s, 1, Len(s)) /\ v = SubSeq(a, 1, Len(s))
    OBVIOUS
  <2>3. /\ u \in Seq(Parts) /\ Len(u) = Len(s) /\ \A i \in 1..Len(s) : u[i] = s[i]
        /\ v \in Seq(Parts) /\ Len(v) = Len(s) /\ \A i \in 1..Len(s) : v[i] = a[i]
    BY <1>2, <2>1, <2>2, Cut
  <2>4. u = v
    BY <1>4, <2>3, SeqEqual
  <2> QED BY <2>2, <2>4
<1>7. ASSUME Len(s) >= Len(a) PROVE s = a /\ t = <<>>
  <2>1. Len(s) = Len(a) /\ Len(t) = 0
    BY <1>3, <1>4, <1>7
  <2>2. s = a
    BY <1>2, <1>4, <2>1, SeqEqual
  <2>3. t = <<>>
    BY <1>2, <2>1, EmptySeq
  <2> QED BY <2>2, <2>3
<1> QED BY <1>1, <1>5, <1>6, <1>7 DEF IsPrefix

\* A step that leaves a session alone leaves what it reads alone.
LEMMA SameWire ==
  ASSUME NEW p, Same(p), op'[p] = op[p], kind' = kind
  PROVE  Wire(p)' <=> Wire(p)
<1>1. PICK a : a = Answer(p)
  OBVIOUS
<1>2. Answer(p)' = a
  BY <1>1 DEF Answer
<1>3. conn'[p] = conn[p] /\ got'[p] = got[p] /\ answers'[conn[p]] = answers[conn[p]]
      /\ requests'[conn[p]] = requests[conn[p]]
  BY DEF Same
<1>4. Matches(p)' <=> Matches(p)
  BY <1>1, <1>2, <1>3 DEF Matches
<1> QED BY <1>3, <1>4 DEF Wire

LEMMA RightStays ==
  ASSUME RightAnswer, kind' = kind,
         \A p \in Requests : called'[p] = "ok" =>
           got'[p] = got[p] /\ (called[p] = "ok" \/ Right(p))
  PROVE  RightAnswer'
<1> SUFFICES ASSUME NEW p \in Requests, called'[p] = "ok"
             PROVE  IF kind'[p] \in ToTheEnd THEN IsPrefix(got'[p], Answer(p)') /\ got'[p] # <<>>
                    ELSE got'[p] = Answer(p)'
  BY DEF RightAnswer
<1>1. Answer(p)' = Answer(p)
  BY DEF Answer
<1>2. got'[p] = got[p] /\ Right(p)
  BY DEF RightAnswer, Right
<1> QED BY <1>1, <1>2 DEF Right

\* A step of q's session, or of its connection, that leaves the others alone, and the
\* connections that are free.
LEMMA WireKeeps ==
  ASSUME AnswerInv, NEW q \in Requests, kind' = kind,
         \A p \in Requests \ {q} : op'[p] # NoOp => op'[p] = op[p] /\ Same(p),
         op'[q] # NoOp => Wire(q)',
         \A d \in Connections : Resting(d)' => Resting(d) /\ answers'[d] = answers[d],
         \A p \in Requests : called'[p] = "ok" => called[p] = "ok" /\ got'[p] = got[p]
  PROVE  WireParts'
<1>1. WiresOK'
  BY SameWire DEF AnswerInv, WiresOK
<1>2. EmptyOK'
  BY DEF AnswerInv, EmptyOK
<1>3. RightAnswer'
  BY RightStays DEF AnswerInv
<1> QED BY <1>1, <1>2, <1>3 DEF WireParts

LEMMA WireOf ==
  ASSUME AnswerInv, NEW q \in Requests, op[q] # NoOp
  PROVE  /\ Wire(q) /\ Matches(q) /\ conn[q] \in Connections /\ called[q] = "no" /\ Typed
         /\ phase[q] \notin {"new", "calling"}
         /\ got[q] \in Seq(Parts) /\ Len(got[q]) \in Nat
         /\ Len(got[q]) >= Len(Answer(q)) => Right(q) /\ answers[conn[q]] = <<>>
<1>1. Wire(q) /\ Matches(q) /\ Typed
  BY DEF AnswerInv, WiresOK, Wire, SentInv, TypeInv
<1>2. conn[q] \in Connections /\ called[q] = "no" /\ phase[q] \notin {"new", "calling"}
  BY SessionHolds DEF AnswerInv
<1>3. got[q] \in Seq(Parts) /\ Len(got[q]) \in Nat
  BY <1>1 DEF Typed, SessionTypes
<1>4. ASSUME Len(got[q]) >= Len(Answer(q)) PROVE Right(q) /\ answers[conn[q]] = <<>>
  <2>1. IsPrefix(got[q], Answer(q)) /\ got[q] = Answer(q) /\ answers[conn[q]] = <<>>
    BY <1>1, <1>2, <1>4, MatchesSays
  <2>2. got[q] # <<>>
    BY <1>1, <2>1, AnswerFacts
  <2> QED BY <2>1, <2>2 DEF Right
<1> QED BY <1>1, <1>2, <1>3, <1>4

\* The callback, told of success when the answer is there and nothing more is under way.
LEMMA CallbackWire ==
  ASSUME AnswerInv, NEW q \in Requests, op[q] # NoOp, NEW result \in {"ok", "error"}, Callback(q, result),
         UNCHANGED <<Elsewhere, got>>,
         \A d \in Connections \ {conn[q]} : attempt_reconnect'[d] = attempt_reconnect[d],
         result = "ok" => Right(q) /\ answers[conn[q]] = <<>>
  PROVE  WireParts'
<1>0. SentInv /\ kind' = kind
  BY DEF AnswerInv, Elsewhere, chosen
<1>1. /\ op'[q] = NoOp /\ called'[q] = result /\ got' = got
      /\ \A p \in Requests \ {q} :
           op'[p] = op[p] /\ called'[p] = called[p] /\ (op[p] # NoOp => Same(p))
  BY <1>0, CallbackEffect
<1>2. \A d \in Connections : Resting(d)' =>
           /\ answers'[d] = answers[d]
           /\ Resting(d) \/ (d = conn[q] /\ result = "ok")
  BY <1>0, CallbackEffect
<1>3. WiresOK'
  BY <1>0, <1>1, SameWire DEF AnswerInv, WiresOK
<1>4. EmptyOK'
  BY <1>2 DEF AnswerInv, EmptyOK
<1>5. RightAnswer'
  BY <1>0, <1>1, RightStays DEF AnswerInv
<1> QED BY <1>3, <1>4, <1>5 DEF WireParts

\* The session goes on with the operation that its answer asks for.
LEMMA ContinueWire ==
  ASSUME AnswerInv, NEW q \in Requests, op[q] # NoOp, NEW name \in OpNames,
         op' = [op EXCEPT ![q] = Begun(name)],
         UNCHANGED <<phase, called, conn, got, kind, connections, in_use, requests, handled, late, link, answers>>,
         \A d \in Connections : socket'[d] = "none" => socket[d] = "none",
         \A d \in Connections \ {conn[q]} : attempt_reconnect'[d] = attempt_reconnect[d],
         \/ name = "connect" /\ op[q].name = "resolve"
         \/ name = "write" /\ op[q].name = "connect"
         \/ name = "header" /\ op[q].name = "write"
         \/ name = "content" /\ got[q] # <<>> /\ kind[q] \in ByLength
         \/ name \in {"size", "data"} /\ got[q] # <<>> /\ kind[q] \in InChunks
         \/ name = "eof" /\ got[q] # <<>> /\ kind[q] \in ToTheEnd
  PROVE  WireParts'
<1>1. /\ op'[q] = Begun(name) /\ Begun(name).name = name /\ Begun(name).res = "wait"
      /\ \A p \in Requests \ {q} : op'[p] = op[p]
  BY DEF Begun, AnswerInv, SentInv, TypeInv, Typed, SessionTypes
<1>2. Wire(q)'
  <2>a. PICK a : a = Answer(q)
    OBVIOUS
  <2>1. Answer(q)' = a
    BY <2>a DEF Answer
  <2>2. Matches(q) /\ conn' = conn /\ got' = got /\ answers' = answers
    BY WireOf
  <2>b. Matches(q)'
    BY <2>a, <2>1, <2>2 DEF Matches
  <2>3. Wire(q)
    BY WireOf
  <2> QED BY <1>1, <2>2, <2>b, <2>3 DEF Wire
<1>3. ASSUME NEW p \in Requests \ {q}, op'[p] # NoOp PROVE op'[p] = op[p] /\ Same(p)
  <2>1. op'[p] = op[p] /\ conn[p] # conn[q] /\ conn[p] \in Connections
    BY <1>1, <1>3, SessionHolds DEF Active, AnswerInv
  <2> QED BY <2>1 DEF Same
<1>4. \A d \in Connections : Resting(d)' => Resting(d)
  BY DEF Resting, Idle
<1> QED BY <1>2, <1>3, <1>4, WireKeeps

\* The header was the answer's first part: it tells where this answer ends.
LEMMA HeaderWire ==
  ASSUME AnswerInv, NEW q \in Requests, HeaderHandler(q)
  PROVE  WireParts'
<1>1. op[q] # NoOp /\ op[q].name = "header" /\ op[q].res = "ok"
  BY HandlerOp DEF HeaderHandler, Handler
<1>2. HasHeader(got[q])
  BY <1>1 DEF AnswerInv, SentInv, TypeInv, ReadsParts, ReadsPart
<1>3. /\ \A d \in Connections \ {conn[q]} : attempt_reconnect'[d] = attempt_reconnect[d]
      /\ UNCHANGED <<Elsewhere, got>> /\ kind' = kind
  BY DEF HeaderHandler, Elsewhere, chosen, AnswerInv, SentInv, TypeInv, Typed, PoolTypes
<1>4. PICK n, h : n = HeaderEnd(q) /\ h = got[q][n]
  OBVIOUS
<1>5. n \in 1..Len(got[q]) /\ Len(got[q]) \in Nat /\ got[q] # <<>>
  <2>1. n \in 1..Len(got[q])
    BY <1>2, <1>4, HeaderEndIs DEF AnswerInv, SentInv, TypeInv
  <2>2. Len(got[q]) \in Nat /\ got[q] \in Seq(Parts)
    BY <1>1, WireOf
  <2>3. Len(<<>>) = 0
    OBVIOUS
  <2> QED BY <2>1, <2>2, <2>3
<1>6. h.of = q /\ (h.part = "header" => n = 1)
  <2>1. Matches(q) /\ Typed
    BY <1>1, WireOf
  <2>2. n \in 1..Len(Answer(q))
    <3>1. Len(got[q]) <= Len(Answer(q))
      BY <1>1, <2>1, WireOf, MatchesSays
    <3> QED BY <1>5, <2>1, <3>1, AnswerFacts
  <2>3. h = Answer(q)[n]
    BY <1>4, <1>5, <2>1 DEF Matches
  <2> QED BY <2>1, <2>2, <2>3, AnswerFacts
<1>7. CASE Callback(q, "error")
  BY <1>1, <1>3, <1>7, CallbackWire
<1>8. ASSUME h.part = "header", Callback(q, "ok"),
             kind[q] \in AtHeader \/ (kind[q] \in ByLength /\ Len(got[q]) > n)
      PROVE  WireParts'
  <2>1. Len(got[q]) >= Len(Answer(q))
    <3>1. n = 1 /\ Typed
      BY <1>1, <1>6, <1>8, WireOf
    <3>2. kind[q] \in AtHeader => kind[q] = "empty"
      BY DEF AtHeader, AnswerInv, Told
    <3>3. \/ Len(Answer(q)) = 1 /\ Len(got[q]) >= 1
          \/ Len(Answer(q)) = 2 /\ Len(got[q]) > 1
      BY <1>5, <1>8, <3>1, <3>2, AnswerFacts
    <3>4. PICK read, all : read = Len(got[q]) /\ all = Len(Answer(q))
      OBVIOUS
    <3>5. read \in Nat /\ ((all = 1 /\ read >= 1) \/ (all = 2 /\ read > 1))
      BY <1>5, <3>3, <3>4
    <3>6. read >= all
      BY <3>5
    <3> QED BY <3>4, <3>6
  <2>2. Right(q) /\ answers[conn[q]] = <<>>
    BY <1>1, <2>1, WireOf
  <2> QED BY <1>1, <1>3, <1>8, <2>2, CallbackWire
<1>9. ASSUME NEW name, Continue(q, name),
             \/ name = "content" /\ kind[q] \in ByLength
             \/ name = "size" /\ kind[q] \in InChunks
             \/ name = "eof" /\ kind[q] \in ToTheEnd
      PROVE  WireParts'
  <2>1. name \in OpNames
    BY <1>9 DEF OpNames
  <2>2. op' = [op EXCEPT ![q] = Begun(name)]
        /\ UNCHANGED <<phase, called, conn, connections, in_use, socket, link, answers>>
    BY <1>9 DEF Continue, Start, Begun, calls
  <2> QED BY <1>1, <1>3, <1>5, <1>9, <2>1, <2>2, ContinueWire DEF Elsewhere
<1>10. \/ Callback(q, "error")
       \/ /\ h.part = "header"
          /\ \/ /\ kind[h.of] \in AtHeader \/ (kind[h.of] \in ByLength /\ Len(got[q]) > n)
                /\ Callback(q, "ok")
             \/ kind[h.of] \in ByLength /\ Continue(q, "content")
             \/ kind[h.of] \in InChunks /\ Continue(q, "size")
             \/ kind[h.of] \in ToTheEnd /\ Continue(q, "eof")
  BY <1>4 DEF HeaderHandler
<1> QED BY <1>6, <1>7, <1>8, <1>9, <1>10

\* After the chunk of length 0 there is nothing more.
LEMMA ChunkWire ==
  ASSUME AnswerInv, NEW q \in Requests, op[q] # NoOp, op[q].name \in {"size", "data"},
         taken[q] + 2 <= Len(got[q]),
         Chunk(q), UNCHANGED <<Elsewhere, got, attempt_reconnect>>
  PROVE  WireParts'
<1>1. /\ Wire(q) /\ Matches(q) /\ Typed /\ Len(got[q]) \in Nat /\ taken[q] \in Nat
      /\ conn[q] \in Connections /\ kind' = kind
  BY WireOf DEF Typed, SessionTypes, Elsewhere, chosen
<1>2. kind[q] \in InChunks /\ got[q] # <<>>
  BY <1>1 DEF Wire
<1>3. CASE got[q][taken[q] + 1].part = "zero" /\ Callback(q, "ok")
  <2>1. PICK i : i = taken[q] + 1
    OBVIOUS
  <2>2. i \in 1..Len(got[q]) /\ i + 1 <= Len(got[q])
    BY <1>1, <2>1
  <2>3. Len(got[q]) <= Len(Answer(q)) /\ Len(Answer(q)) \in Nat
    BY <1>1, MatchesSays, AnswerFacts
  <2>4. i \in 1..Len(Answer(q))
    BY <1>1, <2>2, <2>3
  <2>5. Answer(q)[i].part = "zero"
    BY <1>1, <1>3, <2>1, <2>2 DEF Matches
  <2>6. i + 1 = Len(Answer(q))
    BY <1>1, <1>2, <2>4, <2>5, AnswerFacts
  <2>7. Len(got[q]) >= Len(Answer(q))
    BY <1>1, <2>2, <2>3, <2>6
  <2>8. Right(q) /\ answers[conn[q]] = <<>>
    BY <2>7, WireOf
  <2> QED BY <1>3, <2>8, CallbackWire
<1>4. CASE Continue(q, "size")
  <2>1. op' = [op EXCEPT ![q] = Begun("size")]
        /\ UNCHANGED <<phase, called, conn, connections, in_use, socket, link, answers>>
    BY <1>4 DEF Continue, Start, Begun, calls
  <2> QED BY <1>1, <1>2, <2>1, ContinueWire DEF Elsewhere, OpNames
<1>5. CASE Callback(q, "error")
  BY <1>5, CallbackWire
<1> QED BY <1>3, <1>4, <1>5 DEF Chunk

LEMMA ChunksWire ==
  ASSUME AnswerInv, NEW q \in Requests, SizeHandler(q) \/ DataHandler(q)
  PROVE  WireParts'
<1>1. op[q] # NoOp /\ op[q].name \in {"size", "data"} /\ op[q].res = "ok"
  BY HandlerOp DEF SizeHandler, DataHandler, Handler
<1>2. UNCHANGED <<Elsewhere, got, attempt_reconnect>> /\ kind' = kind
  BY DEF SizeHandler, DataHandler, Elsewhere, chosen
<1>3. CASE Callback(q, "error")
  BY <1>1, <1>2, <1>3, CallbackWire
<1>4. CASE Chunk(q) /\ taken[q] + 2 <= Len(got[q])
  BY <1>1, <1>2, <1>4, ChunkWire
<1>5. CASE Continue(q, "data")
  <2>1. op' = [op EXCEPT ![q] = Begun("data")]
        /\ UNCHANGED <<phase, called, conn, connections, in_use, socket, link, answers>>
    BY <1>5 DEF Continue, Start, Begun, calls
  <2>2. kind[q] \in InChunks /\ got[q] # <<>>
    BY <1>1, WireOf DEF Wire
  <2> QED BY <1>1, <1>2, <2>1, <2>2, ContinueWire DEF Elsewhere, OpNames
<1>6. CASE SizeHandler(q)
  <2>1. Len(got[q]) > taken[q] + 1 => taken[q] + 2 <= Len(got[q])
    BY <1>1, WireOf DEF Typed, SessionTypes
  <2> QED BY <1>3, <1>4, <1>5, <1>6, <2>1 DEF SizeHandler
<1>7. CASE DataHandler(q)
  <2>1. op[q].name = "data"
    BY <1>7 DEF DataHandler, Handler
  <2>2. taken[q] + 2 <= Len(got[q])
    BY <1>1, <2>1 DEF AnswerInv, SentInv, TypeInv, ReadsParts, ReadsPart
  <2> QED BY <1>3, <1>4, <1>7, <2>2 DEF DataHandler
<1> QED BY <1>6, <1>7

LEMMA ContentWire ==
  ASSUME AnswerInv, NEW q \in Requests, ContentHandler(q)
  PROVE  WireParts'
<1>1. op[q] # NoOp /\ (   (op[q].name = "content" /\ op[q].res = "ok")
                       \/ (op[q].name = "eof" /\ op[q].res = "eof"))
  BY HandlerOp DEF ContentHandler, Handler
<1>2. UNCHANGED <<Elsewhere, got, attempt_reconnect>>
  BY DEF ContentHandler
<1>3. Right(q) /\ answers[conn[q]] = <<>>
  <2>1. CASE op[q].name = "content" /\ op[q].res = "ok"
    <3>1. Len(got[q]) >= 2 /\ kind[q] \in ByLength /\ Typed
      BY <1>1, <2>1, WireOf DEF Wire
    <3>2. Len(Answer(q)) = 2
      BY <3>1, AnswerFacts
    <3> QED BY <1>1, <3>1, <3>2, WireOf
  <2>2. CASE op[q].name = "eof" /\ op[q].res = "eof"
    <3>1. /\ kind[q] \in ToTheEnd /\ got[q] # <<>> /\ answers[conn[q]] = <<>>
          /\ Typed /\ Matches(q) /\ conn[q] \in Connections
      BY <1>1, <2>2, WireOf DEF Wire
    <3> QED BY <3>1, MatchesSays DEF Right
  <2> QED BY <1>1, <2>1, <2>2
<1>4. \E result \in {"ok", "error"} : Callback(q, result)
  BY DEF ContentHandler
<1> QED BY <1>1, <1>2, <1>3, <1>4, CallbackWire

\* A request is sent again only if nothing of an answer was read, on a connection with
\* nothing under way.
LEMMA RetryWire ==
  ASSUME AnswerInv, NEW q \in Requests, Retry(q)
  PROVE  WireParts'
<1>0. SentInv /\ kind' = kind
  BY DEF AnswerInv, Retry, Elsewhere, chosen
<1>a. op[q] # NoOp /\ op[q].name = "header" /\ op[q].res \in {"err", "eof"}
  BY <1>0, RetryEffect
<1>b. UNCHANGED <<called, got, requests>> /\ op'[q] = Begun("resolve")
  BY <1>0, RetryEffect
<1>e. \A p \in Requests \ {q} :
        conn'[p] = conn[p] /\ op'[p] = op[p] /\ (op[p] # NoOp => Same(p))
  BY <1>0, RetryEffect
<1>c. \A p \in Requests \ {q} : op'[p] = op[p] /\ (op[p] # NoOp => Same(p))
  BY <1>e
<1>d. Begun("resolve").name = "resolve"
  BY DEF Begun
<1>1. /\ op[q] # NoOp /\ op[q].name = "header" /\ op[q].res \in {"err", "eof"}
      /\ UNCHANGED <<called, got, requests>>
      /\ op'[q] = Begun("resolve") /\ Begun("resolve").name = "resolve"
      /\ \A p \in Requests \ {q} : op'[p] = op[p] /\ (op[p] # NoOp => Same(p))
  BY <1>a, <1>b, <1>c, <1>d
<1>2. PICK c : c = conn'[q]
  OBVIOUS
<1>3. c \in Connections /\ Resting(c) /\ answers'[c] = answers[c]
  BY <1>0, <1>2, RetryEffect
<1>4. \A d \in Connections : Resting(d)' => answers'[d] = answers[d] /\ Resting(d)
  BY <1>0, RetryEffect
<1>5. answers[c] = <<>> /\ got[q] = <<>> /\ requests[c] = <<>>
  <2>1. answers[c] = <<>> /\ requests[c] = <<>>
    BY <1>3 DEF AnswerInv, EmptyOK, SentInv, CleanOK, Clean
  <2>2. got[q] = <<>>
    BY <1>1, WireOf DEF Wire
  <2> QED BY <2>1, <2>2
<1>6. Matches(q)'
  <2>1. Len(<<>>) = 0 /\ 1..0 = {}
    OBVIOUS
  <2>2. Len(Answer(q)) >= 1 /\ Len(Answer(q)) \in Nat /\ Answer(q)' = Answer(q)
    BY <1>0, AnswerFacts DEF Answer, SentInv, TypeInv
  <2>3. 0 + 0 <= Len(Answer(q))
    BY <2>2
  <2> QED BY <1>1, <1>2, <1>3, <1>5, <2>1, <2>2, <2>3 DEF Matches
<1>7. Wire(q)'
  BY <1>1, <1>2, <1>3, <1>5, <1>6 DEF Wire
<1> QED BY <1>0, <1>1, <1>4, <1>7, WireKeeps

\* The exception leaves a connection that nobody uses, and that is marked in use.
LEMMA ThrowsWire ==
  ASSUME AnswerInv, NEW q \in Requests, HeaderThrows(q)
  PROVE  WireParts'
<1>1. PICK c : c = conn[q]
  OBVIOUS
<1>2. op[q] # NoOp
  BY HandlerOp DEF HeaderThrows
<1>3. c \in Connections /\ ~Resting(c) /\ \A p \in Requests \ {q} : Active(p) => conn[p] # c
  BY <1>1, <1>2, SessionHolds DEF AnswerInv
<1>4. PICK dropped : dropped = {c} \ connections
  OBVIOUS
<1>5. /\ op' = [op EXCEPT ![q] = NoOp] /\ kind' = kind
      /\ attempt_reconnect' = [attempt_reconnect EXCEPT ![c] = TRUE]
      /\ socket' = [d \in Connections |-> IF d \in dropped THEN "gone" ELSE socket[d]]
      /\ link' = [d \in Connections |-> IF d \in dropped THEN "gone" ELSE link[d]]
      /\ answers' = [d \in Connections |-> IF d \in dropped THEN <<>> ELSE answers[d]]
      /\ UNCHANGED <<called, conn, got, connections, in_use, requests, handled, late>>
  BY <1>1, <1>4 DEF HeaderThrows, Drop, chosen
<1>6. /\ op'[q] = NoOp /\ \A p \in Requests \ {q} : op'[p] = op[p]
      /\ \A d \in Connections \ {c} : attempt_reconnect'[d] = attempt_reconnect[d]
  BY <1>5 DEF AnswerInv, SentInv, TypeInv, Typed, SessionTypes, PoolTypes
<1>7. ASSUME NEW p \in Requests \ {q}, op[p] # NoOp PROVE Same(p)
  <2>1. conn[p] \in Connections /\ conn[p] # c
    BY <1>3, <1>7, SessionHolds DEF Active, AnswerInv
  <2> QED BY <1>4, <1>5, <1>6, <2>1 DEF Same
<1>8. \A p \in Requests : phase'[p] = "calling" => phase[p] = "calling"
  BY DEF HeaderThrows, Goto, Running, AnswerInv, SentInv, TypeInv, Typed, CallTypes
<1>9. ASSUME NEW d \in Connections, Resting(d)' PROVE Resting(d) /\ answers'[d] = answers[d]
  <2>1. socket'[d] = "none" => socket[d] = "none"
    BY <1>5
  <2>2. Idle' = Idle
    BY <1>5 DEF Idle
  <2>3. Resting(d)
    BY <1>5, <1>8, <1>9, <2>1, <2>2 DEF Resting
  <2> QED BY <1>3, <1>4, <1>5, <2>3
<1> QED BY <1>5, <1>6, <1>7, <1>9, WireKeeps

LEMMA HandlesWire ==
  ASSUME AnswerInv, NEW q \in Requests, Handles(q)
  PROVE  WireParts'
<1>1. CASE ResolveHandler(q)
  <2>1. op[q] # NoOp /\ op[q].name = "resolve"
    BY <1>1, HandlerOp DEF ResolveHandler, Handler
  <2>2. \A d \in Connections : socket'[d] = "none" => socket[d] = "none"
    BY <1>1, <2>1, SessionHolds DEF ResolveHandler, AnswerInv, SentInv, TypeInv, Typed, SocketTypes
  <2>3. op' = [op EXCEPT ![q] = Begun("connect")]
        /\ UNCHANGED <<phase, called, conn, got, kind, connections, in_use, attempt_reconnect,
                       requests, handled, late, link, answers>>
    BY <1>1 DEF ResolveHandler, Start, Begun, Elsewhere, calls, pool, chosen
  <2> QED BY <2>1, <2>2, <2>3, ContinueWire DEF OpNames
<1>2. CASE ConnectHandler(q) \/ WriteHandler(q)
  <2>1. PICK name \in {"write", "header"} :
          /\ Continue(q, name)
          /\ op[q] # NoOp /\ op[q].name = IF name = "write" THEN "connect" ELSE "write"
          /\ UNCHANGED <<Elsewhere, got, attempt_reconnect>>
    BY <1>2, HandlerOp DEF ConnectHandler, WriteHandler, Handler
  <2>2. op' = [op EXCEPT ![q] = Begun(name)]
        /\ UNCHANGED <<phase, called, conn, got, kind, connections, in_use, attempt_reconnect, socket,
                       requests, handled, late, link, answers>>
    BY <2>1 DEF Continue, Start, Begun, calls, Elsewhere, chosen
  <2> QED BY <2>1, <2>2, ContinueWire DEF OpNames
<1>3. CASE Failed(q) \/ NoRetry(q) \/ TooBig(q)
  <2>1. op[q] # NoOp
    BY <1>3, HandlerOp DEF Failed, NoRetry, TooBig
  <2>2. Callback(q, "error") /\ UNCHANGED <<Elsewhere, got, attempt_reconnect>>
    BY <1>3 DEF Failed, NoRetry, TooBig
  <2> QED BY <2>1, <2>2, CallbackWire
<1>4. CASE NoLock(q)
  <2>1. PICK c : c = conn[q]
    OBVIOUS
  <2>2. op[q] # NoOp
    BY <1>4 DEF NoLock, NoOp
  <2>3. c \in Connections /\ ~Resting(c) /\ \A p \in Requests \ {q} : Active(p) => conn[p] # c
    BY <2>1, <2>2, SessionHolds DEF AnswerInv
  <2>4. /\ op' = [op EXCEPT ![q] = NoOp] /\ kind' = kind
        /\ socket' = [d \in Connections |-> IF d \in {c} THEN "gone" ELSE socket[d]]
        /\ link' = [d \in Connections |-> IF d \in {c} THEN "gone" ELSE link[d]]
        /\ answers' = [d \in Connections |-> IF d \in {c} THEN <<>> ELSE answers[d]]
        /\ UNCHANGED <<phase, called, conn, got, connections, in_use, attempt_reconnect, requests, handled, late>>
    BY <1>4, <2>1 DEF NoLock, Drop, calls, pool, Elsewhere, chosen
  <2>5. op'[q] = NoOp /\ \A p \in Requests \ {q} : op'[p] = op[p]
    BY <2>4 DEF AnswerInv, SentInv, TypeInv, Typed, SessionTypes
  <2>6. ASSUME NEW p \in Requests \ {q}, op[p] # NoOp PROVE Same(p)
    <3>1. conn[p] \in Connections /\ conn[p] # c
      BY <2>3, <2>6, SessionHolds DEF Active, AnswerInv
    <3> QED BY <2>4, <3>1 DEF Same
  <2>7. \A d \in Connections : Resting(d)' => Resting(d) /\ d # c
    BY <2>3, <2>4 DEF Resting, Idle
  <2> QED BY <2>4, <2>5, <2>6, <2>7, WireKeeps
<1> QED BY <1>1, <1>2, <1>3, <1>4, HeaderWire, ContentWire, ChunksWire, RetryWire, ThrowsWire DEF Handles

\* A session that has read nothing, with nothing under way.
LEMMA NothingYet ==
  ASSUME AnswerInv, NEW q \in Requests, kind' = kind, got'[q] = <<>>, answers'[conn'[q]] = <<>>,
         op'[q].name \in {"resolve", "connect", "write"}
  PROVE  Wire(q)'
<1>1. PICK a : a = Answer(q)
  OBVIOUS
<1>2. Answer(q)' = a /\ Len(a) \in Nat
  BY <1>1, AnswerFacts DEF Answer, AnswerInv, SentInv, TypeInv
<1>3. Len(<<>>) = 0 /\ 1..0 = {} /\ 0 + 0 <= Len(a)
  BY <1>2
<1>4. Matches(q)'
  BY <1>2, <1>3 DEF Matches
<1> QED BY <1>4 DEF Wire

LEMMA CallerWire ==
  ASSUME AnswerInv, NEW q \in Requests, Caller(q)
  PROVE  WireParts'
<1>0. SentInv /\ kind' = kind
  BY DEF AnswerInv, Caller, GetConnection, Connect, Count, Run, RunReturns, Returns, chosen
<1>1. CASE GetConnection(q)
  <2>1. /\ op[q] = NoOp /\ UNCHANGED <<called, op, got, answers>>
        /\ \A p \in Requests : op[p] # NoOp => Same(p)
        /\ \A d \in Connections : Resting(d)' => Resting(d)
    BY <1>0, <1>1, GetConnectionEffect
  <2> QED BY <1>0, <2>1, WireKeeps
<1>2. CASE Connect(q)
  <2>1. PICK name \in {"write", "resolve"} :
          /\ phase[q] = "calling" /\ phase' = [phase EXCEPT ![q] = "posted"]
          /\ op' = [op EXCEPT ![q] = Begun(name)]
          /\ UNCHANGED <<called, conn, got, connections, in_use, attempt_reconnect, socket,
                         link, requests, answers, handled, late>>
    BY <1>2 DEF Connect, Goto, Start, Begun, pool, network
  <2>2. op'[q] = Begun(name) /\ Begun(name).name = name /\ \A p \in Requests \ {q} : op'[p] = op[p]
    BY <2>1 DEF Begun, AnswerInv, SentInv, TypeInv, Typed, SessionTypes
  <2>3. got[q] = <<>> /\ answers[conn[q]] = <<>>
    BY <2>1 DEF AnswerInv, SentInv, CalledOK, EmptyOK, Resting, TypeInv, IInv, Created, Active
  <2>4. Wire(q)'
    BY <1>0, <2>1, <2>2, <2>3, NothingYet
  <2>5. \A d \in Connections : Resting(d)' => Resting(d)
    BY <2>1 DEF Resting, Idle, AnswerInv, SentInv, TypeInv, Typed, CallTypes
  <2>6. \A p \in Requests : Same(p)
    BY <2>1 DEF Same
  <2> QED BY <1>0, <2>1, <2>2, <2>4, <2>5, <2>6, WireKeeps
<1>3. CASE Count(q) \/ Run(q) \/ RunReturns(q) \/ Returns(q)
  <2>1. /\ phase[q] # "calling"
        /\ \E r \in {"counted", "running", "ran", "returned"} : phase' = [phase EXCEPT ![q] = r]
        /\ UNCHANGED <<called, conn, op, got, connections, in_use, attempt_reconnect, socket,
                       link, requests, answers, handled, late>>
    BY <1>3 DEF Count, Run, RunReturns, Returns, Goto, session, pool, sockets, network
  <2>2. \A p \in Requests : phase'[p] = "calling" => phase[p] = "calling"
    BY <2>1 DEF AnswerInv, SentInv, TypeInv, Typed, CallTypes
  <2>3. \A d \in Connections : Resting(d)' => Resting(d)
    BY <2>1, <2>2 DEF Resting, Idle
  <2>4. \A p \in Requests : Same(p)
    BY <2>1 DEF Same
  <2>5. op[q] # NoOp => Wire(q)'
    BY <1>0, <2>1, <2>4, SameWire DEF AnswerInv, WiresOK
  <2> QED BY <1>0, <2>1, <2>3, <2>4, <2>5, WireKeeps
<1> QED BY <1>1, <1>2, <1>3 DEF Caller

\* What completes before the first read.
LEMMA OperationWire ==
  ASSUME AnswerInv, NEW q \in Requests, OpensOrWrites(q)
  PROVE  WireParts'
<1>0. SentInv /\ Typed /\ kind' = kind
  BY DEF AnswerInv, SentInv, TypeInv, OpensOrWrites, chosen
<1>1. op[q].res = "wait" /\ op[q] # NoOp /\ op[q].name \in {"resolve", "connect", "write"}
  BY SessionOpsFacts DEF OpensOrWrites
<1>2. PICK res \in {"ok", "err"} : Completes(q, res)
  BY DEF OpensOrWrites, Succeeds, Fails
<1>3. op'[q].name = op[q].name /\ \A p \in Requests \ {q} : op'[p] = op[p]
  BY <1>0, <1>1, <1>2, Completed DEF Outcomes
<1>4. got[q] = <<>> /\ answers[conn[q]] = <<>>
  BY <1>1, WireOf DEF Wire
<1>5. UNCHANGED <<phase, called, conn, got, connections, in_use, attempt_reconnect, socket,
                  answers, handled, late>>
  BY DEF OpensOrWrites, calls, pool, sockets
<1>6. Wire(q)'
  BY <1>0, <1>1, <1>3, <1>4, <1>5, NothingYet
<1>7. \A d \in Connections \ {conn[q]} : requests'[d] = requests[d] /\ link'[d] = link[d]
  BY DEF OpensOrWrites, AnswerInv, SentInv, TypeInv, Typed, NetworkTypes
<1>8. ASSUME NEW p \in Requests \ {q}, op[p] # NoOp PROVE Same(p)
  <2>1. conn[p] # conn[q] /\ conn[p] \in Connections
    BY <1>0, <1>1, <1>8, SessionHolds DEF Active
  <2> QED BY <1>5, <1>7, <2>1 DEF Same
<1>9. \A d \in Connections : Resting(d)' => Resting(d)
  BY <1>5 DEF Resting, Idle
<1> QED BY <1>0, <1>3, <1>5, <1>6, <1>8, <1>9, WireKeeps

\* Two sequences that make up the first of a, one after the other.
Begins(s, t, a) ==
  /\ Len(s) + Len(t) <= Len(a)
  /\ \A i \in 1..Len(s) : s[i] = a[i]
  /\ \A i \in 1..Len(t) : t[i] = a[Len(s) + i]

\* What u and v are, the first n parts of t put at the end of s, and the others.
Moves(s, t, n, a) ==
  \A u, v : u = s \o SubSeq(t, 1, n) /\ v = SubSeq(t, n + 1, Len(t)) =>
    /\ u \in Seq(Parts) /\ v \in Seq(Parts)
    /\ Len(u) = Len(s) + n /\ Len(v) = Len(t) - n
    /\ Begins(u, v, a)

\* Parts go from the connection into the response.
LEMMA Moved ==
  ASSUME NEW s \in Seq(Parts), NEW t \in Seq(Parts), NEW a \in Seq(Parts), NEW n \in 0..Len(t),
         Begins(s, t, a)
  PROVE  Moves(s, t, n, a)
<1> SUFFICES ASSUME NEW u, NEW v, u = s \o SubSeq(t, 1, n), v = SubSeq(t, n + 1, Len(t))
             PROVE  /\ u \in Seq(Parts) /\ v \in Seq(Parts)
                    /\ Len(u) = Len(s) + n /\ Len(v) = Len(t) - n
                    /\ Begins(u, v, a)
  BY DEF Moves
<1>0. /\ Len(s) + Len(t) <= Len(a)
      /\ \A i \in 1..Len(s) : s[i] = a[i]
      /\ \A i \in 1..Len(t) : t[i] = a[Len(s) + i]
  BY DEF Begins
<1>1. PICK head : head = SubSeq(t, 1, n)
  OBVIOUS
<1>2. /\ head \in Seq(Parts) /\ Len(head) = n /\ \A i \in 1..n : head[i] = t[i]
      /\ v \in Seq(Parts) /\ Len(v) = Len(t) - n
      /\ \A i \in 1..(Len(t) - n) : v[i] = t[n + i]
  BY <1>1, Cut
<1>3. Len(s) \in Nat /\ Len(t) \in Nat /\ Len(a) \in Nat /\ n \in Nat /\ n <= Len(t)
  OBVIOUS
<1>4. u \in Seq(Parts) /\ Len(u) = Len(s) + n
  BY <1>1, <1>2, ConcatProperties
<1>5. \A i \in 1..(Len(s) + n) :
        \/ i \in 1..Len(s) /\ u[i] = s[i]
        \/ \E j \in 1..n : i = Len(s) + j /\ u[i] = head[j]
  <2>1. u = s \o head
    BY <1>1
  <2>2. PICK m, w : m = Len(head) /\ w = s \o head
    OBVIOUS
  <2>3. \A i \in 1..(Len(s) + m) :
          \/ i \in 1..Len(s) /\ w[i] = s[i]
          \/ \E j \in 1..m : i = Len(s) + j /\ w[i] = head[j]
    <3>1. head \in Seq(Parts)
      BY <1>2
    <3>2. \A i \in 1..(Len(s) + Len(head)) :
            \/ i \in 1..Len(s) /\ (s \o head)[i] = s[i]
            \/ \E j \in 1..Len(head) : i = Len(s) + j /\ (s \o head)[i] = head[j]
      BY <3>1, Joined
    <3> QED BY <2>2, <3>2, Zenon
  <2>4. m = n /\ w = u
    BY <1>2, <2>1, <2>2
  <2> QED BY <2>3, <2>4, Zenon
<1>6. Len(u) + Len(v) <= Len(a)
  <2>1. PICK ls, lt, la : ls = Len(s) /\ lt = Len(t) /\ la = Len(a)
    OBVIOUS
  <2>2. ls \in Nat /\ lt \in Nat /\ la \in Nat /\ n \in Nat /\ ls + lt <= la
    BY <1>0, <1>3, <2>1
  <2>3. (ls + n) + (lt - n) <= la
    BY <2>2
  <2>4. Len(u) = ls + n /\ Len(v) = lt - n
    BY <1>2, <1>4, <2>1
  <2> QED BY <2>1, <2>3, <2>4
<1>7. ASSUME NEW i \in 1..Len(u) PROVE u[i] = a[i]
  <2>1. CASE i \in 1..Len(s) /\ u[i] = s[i]
    BY <1>0, <2>1
  <2>2. ASSUME NEW j \in 1..n, i = Len(s) + j, u[i] = head[j] PROVE u[i] = a[i]
    <3>1. j \in 1..Len(t)
      BY <1>3, <2>2
    <3> QED BY <1>0, <1>2, <2>2, <3>1
  <2> QED BY <1>4, <1>5, <2>1, <2>2
<1>8. ASSUME NEW i \in 1..Len(v) PROVE v[i] = a[Len(u) + i]
  <2>1. PICK ls, lt : ls = Len(s) /\ lt = Len(t)
    OBVIOUS
  <2>2. ls \in Nat /\ lt \in Nat /\ n \in Nat /\ n <= lt
    BY <1>3, <2>1
  <2>3. i \in 1..(lt - n)
    BY <1>2, <2>1
  <2>4. n + i \in 1..lt /\ ls + (n + i) = (ls + n) + i
    BY <2>2, <2>3
  <2>5. v[i] = t[n + i]
    BY <1>2, <2>1, <2>3
  <2>6. t[n + i] = a[ls + (n + i)]
    BY <1>0, <2>1, <2>4
  <2> QED BY <1>4, <2>1, <2>4, <2>5, <2>6
<1> QED BY <1>2, <1>4, <1>6, <1>7, <1>8 DEF Begins

LEMMA ReadWire ==
  ASSUME AnswerInv, NEW q \in Requests, Reads(q)
  PROVE  WireParts'
<1>0. SentInv /\ Typed /\ IInv /\ kind' = kind
  BY DEF AnswerInv, SentInv, TypeInv, Reads, chosen
<1>1. PICK c, s, t, a : c = conn[q] /\ s = got[q] /\ t = answers[c] /\ a = Answer(q)
  OBVIOUS
<1>2. op[q].res = "wait" /\ op[q] # NoOp /\ c \in Connections
  BY <1>0, <1>1, ReadReceives
<1>3. Wire(q) /\ Matches(q) /\ called[q] = "no"
  BY <1>2, WireOf
<1>4. /\ s \in Seq(Parts) /\ t \in Seq(Parts) /\ a \in Seq(Parts)
      /\ Len(s) \in Nat /\ Len(t) \in Nat /\ Len(a) \in Nat
  <2>1. s \in Seq(Parts) /\ t \in Seq(Parts) /\ a \in Seq(Parts)
    BY <1>0, <1>1, <1>2, AnswerFacts DEF Typed, SessionTypes, NetworkTypes
  <2> QED BY <2>1
<1>5. Begins(s, t, a)
  BY <1>1, <1>3 DEF Matches, Begins
<1>6. PICK n \in 0..Len(t), res \in {"ok", "eof", "err"} :
        /\ Receive(q, n) /\ Completes(q, res)
        /\ res # "ok" => n = Len(t)
        /\ res # "ok" /\ op[q].name = "header" => \A j \in 1..Len(t) : ~IsHeader(t[j])
        /\ res = "ok" /\ op[q].name = "content" => n = 1
  <2>1. PICK len : len = Len(t)
    OBVIOUS
  <2>2. len \in Nat
    BY <1>4, <2>1
  <2>3. CASE /\ op[q].name = "header" /\ \E i \in 1..len : Receive(q, i)
             /\ Completes(q, "ok")
    BY <2>1, <2>2, <2>3
  <2>4. CASE /\ op[q].name = "size"
             /\ \E i \in (IF Len(got[q]) > taken[q] THEN 0 ELSE 1)..len : Receive(q, i)
             /\ Completes(q, "ok")
    <3>1. PICK i \in (IF Len(got[q]) > taken[q] THEN 0 ELSE 1)..len : Receive(q, i)
      BY <2>4
    <3>2. i \in 0..len
      BY <3>1, <2>2
    <3> QED BY <3>1, <3>2, <2>1, <2>4
  <2>5. CASE op[q].name \in {"content", "data"} /\ len > 0 /\ Receive(q, 1) /\ Completes(q, "ok")
    BY <2>1, <2>2, <2>5
  <2>6. CASE op[q].name = "eof" /\ Receive(q, len) /\ Completes(q, "ok")
    BY <2>1, <2>2, <2>6
  <2>7. CASE /\ op[q].name = "header" => \A j \in 1..len : ~IsHeader(t[j])
             /\ Receive(q, len) /\ Completes(q, EndOf(c))
    BY <2>1, <2>2, <2>7 DEF EndOf
  <2>8. \/ /\ op[q].name = "header" /\ \E i \in 1..len : Receive(q, i)
           /\ Completes(q, "ok")
        \/ /\ op[q].name = "size"
           /\ \E i \in (IF Len(got[q]) > taken[q] THEN 0 ELSE 1)..len : Receive(q, i)
           /\ Completes(q, "ok")
        \/ op[q].name \in {"content", "data"} /\ len > 0 /\ Receive(q, 1) /\ Completes(q, "ok")
        \/ op[q].name = "eof" /\ Receive(q, len) /\ Completes(q, "ok")
        \/ /\ op[q].name = "header" => \A j \in 1..len : ~IsHeader(t[j])
           /\ Receive(q, len) /\ Completes(q, EndOf(c))
    BY <1>1, <2>1 DEF Reads
  <2> QED BY <2>3, <2>4, <2>5, <2>6, <2>7, <2>8
<1>7. PICK u, v : u = got'[q] /\ v = answers'[c]
  OBVIOUS
<1>8. /\ u = s \o SubSeq(t, 1, n) /\ v = SubSeq(t, n + 1, Len(t))
      /\ \A p \in Requests \ {q} : got'[p] = got[p]
      /\ \A d \in Connections \ {c} : answers'[d] = answers[d]
  BY <1>0, <1>1, <1>2, <1>6, <1>7, Received
<1>9. /\ u \in Seq(Parts) /\ v \in Seq(Parts)
      /\ Len(u) = Len(s) + n /\ Len(v) = Len(t) - n
      /\ Begins(u, v, a)
  <2>1. s \in Seq(Parts) /\ t \in Seq(Parts) /\ a \in Seq(Parts) /\ n \in 0..Len(t)
    BY <1>4, <1>6
  <2>2. u = s \o SubSeq(t, 1, n) /\ v = SubSeq(t, n + 1, Len(t))
    BY <1>8
  <2>3. Moves(s, t, n, a)
    BY <1>5, <2>1, Moved
  <2> QED BY <2>2, <2>3 DEF Moves
<1>10. op'[q].name = op[q].name /\ op'[q].res = res /\ \A p \in Requests \ {q} : op'[p] = op[p]
  BY <1>0, <1>2, <1>6, Completed DEF Outcomes
<1>11. UNCHANGED <<phase, called, conn, connections, in_use, attempt_reconnect, socket,
                   link, requests, handled, late>>
  BY DEF Reads, calls, pool, sockets
<1>12. Matches(q)'
  <2>1. Answer(q)' = a
    BY <1>0, <1>1 DEF Answer
  <2> QED BY <1>1, <1>7, <1>9, <1>11, <2>1 DEF Matches, Begins
<1>13. Len(<<>>) = 0 /\ \A w \in Seq(Parts) : Len(w) = 0 => w = <<>>
  BY EmptySeq
<1>14. Wire(q)'
  <2>1. op[q].name \notin {"resolve", "connect", "write"}
    BY DEF Reads
  <2>2. op[q].name = "header" /\ res # "ok" => u = <<>>
    <3> SUFFICES ASSUME op[q].name = "header", res # "ok" PROVE u = <<>>
      OBVIOUS
    <3>1. s = <<>> /\ n = Len(t) /\ \A j \in 1..Len(t) : ~IsHeader(t[j])
      BY <1>1, <1>2, <1>3, <1>6 DEF Wire
    <3>2. ASSUME Len(t) # 0 PROVE FALSE
      <4>1. 1 \in 1..Len(t) /\ Len(s) = 0
        BY <1>4, <1>13, <3>1, <3>2
      <4>2. t[1] = a[0 + 1]
        BY <1>5, <4>1 DEF Begins
      <4>3. IsHeader(a[1])
        BY <1>0, <1>1, AnswerFacts
      <4> QED BY <3>1, <4>1, <4>2, <4>3
    <3>3. Len(u) = 0
      BY <1>9, <1>13, <3>1, <3>2
    <3> QED BY <1>9, <1>13, <3>3
  <2>3. requests[c] # <<>> => u = <<>> /\ v = <<>>
    <3> SUFFICES ASSUME requests[c] # <<>> PROVE u = <<>> /\ v = <<>>
      OBVIOUS
    <3>1. s = <<>> /\ t = <<>>
      BY <1>1, <1>3 DEF Wire
    <3>2. n = 0
      BY <1>6, <1>13, <3>1
    <3>3. Len(u) = 0 /\ Len(v) = 0
      BY <1>9, <1>13, <3>1, <3>2
    <3> QED BY <1>9, <1>13, <3>3
  <2>4. s # <<>> => u # <<>>
    <3>1. s # <<>> => Len(s) > 0
      BY <1>4, <1>13
    <3>2. Len(s) > 0 => Len(u) # 0
      BY <1>4, <1>6, <1>9
    <3> QED BY <1>13, <3>1, <3>2
  <2>5. op[q].name = "content" /\ res = "ok" => Len(u) >= 2
    <3> SUFFICES ASSUME op[q].name = "content", res = "ok" PROVE Len(u) >= 2
      OBVIOUS
    <3>1. n = 1 /\ s # <<>>
      BY <1>1, <1>3, <1>6 DEF Wire
    <3>2. Len(s) > 0
      BY <1>4, <1>13, <3>1
    <3> QED BY <1>4, <1>9, <3>1, <3>2
  <2>6. res = "eof" => v = <<>>
    <3> SUFFICES ASSUME res = "eof" PROVE v = <<>>
      OBVIOUS
    <3>1. Len(v) = 0
      BY <1>4, <1>6, <1>9
    <3> QED BY <1>9, <1>13, <3>1
  <2>7. /\ op[q].name \in {"content", "size", "data", "eof"} => s # <<>>
        /\ op[q].name = "content" => kind[q] \in ByLength
        /\ op[q].name \in {"size", "data"} => kind[q] \in InChunks
        /\ op[q].name = "eof" => kind[q] \in ToTheEnd
    BY <1>1, <1>3 DEF Wire
  <2> QED BY <1>0, <1>1, <1>7, <1>10, <1>11, <1>12, <2>1, <2>2, <2>3, <2>4, <2>5, <2>6, <2>7 DEF Wire
<1>15. ASSUME NEW p \in Requests \ {q}, op[p] # NoOp PROVE Same(p)
  <2>1. conn[p] # c /\ conn[p] \in Connections
    BY <1>0, <1>1, <1>2, <1>15, SessionHolds DEF Active
  <2> QED BY <1>8, <1>11, <2>1 DEF Same
<1>16. \A d \in Connections : Resting(d)' => Resting(d) /\ d # c
  BY <1>0, <1>1, <1>2, <1>11, SessionHolds DEF Resting, Idle
<1>17. \A p \in Requests : called[p] = "ok" => got'[p] = got[p]
  BY <1>3, <1>8
<1> QED BY <1>0, <1>8, <1>10, <1>11, <1>14, <1>15, <1>16, <1>17, WireKeeps

\* A request is answered: its session has read nothing, and nothing else is under way.
LEMMA ServesWire ==
  ASSUME AnswerInv, NEW c \in Connections, Serves(c)
  PROVE  WireParts'
<1>0. SentInv /\ Typed /\ kind' = kind
  BY DEF AnswerInv, SentInv, TypeInv, Serves, chosen
<1>1. /\ UNCHANGED <<phase, called, conn, op, got, connections, in_use, attempt_reconnect, socket>>
      /\ ~Resting(c) /\ requests'[c] = <<>>
      /\ \A d \in Connections \ {c} :
           requests'[d] = requests[d] /\ answers'[d] = answers[d] /\ link'[d] = link[d]
  BY <1>0, ServesEffect
<1>2. PICK q \in Requests :
        /\ requests[c] = <<q>> /\ conn[q] = c
        /\ \A p \in Requests \ {q} : op[p] # NoOp => Same(p)
        /\ op[q] # NoOp =>
             /\ OnItsWay(q) /\ (Written(op[q]) \/ Waiting(op[q]))
             /\ answers'[c] = answers[c] \o Answer(q)
  BY <1>0, ServesEffect
<1>3. ASSUME op[q] # NoOp PROVE Wire(q)'
  <2>1. PICK a : a = Answer(q)
    OBVIOUS
  <2>2. Answer(q)' = a /\ a \in Seq(Parts) /\ Len(a) \in Nat
    BY <1>0, <2>1, AnswerFacts DEF Answer
  <2>3. requests[c] # <<>>
    <3>1. <<q>> # <<>>
      OBVIOUS
    <3> QED BY <1>2, <3>1
  <2>4. got[q] = <<>> /\ answers[c] = <<>>
    BY <1>2, <1>3, <2>3, WireOf DEF Wire
  <2>5. <<>> \o a = a
    BY <2>2
  <2>6. got'[q] = <<>> /\ answers'[conn'[q]] = a /\ requests'[conn'[q]] = <<>>
    BY <1>1, <1>2, <1>3, <2>1, <2>4, <2>5
  <2>7. Len(<<>>) = 0 /\ 1..0 = {} /\ 0 + Len(a) <= Len(a) /\ \A i \in 1..Len(a) : 0 + i = i
    BY <2>2
  <2>8. Matches(q)'
    BY <2>2, <2>6, <2>7 DEF Matches
  <2>9. /\ op' = op
        /\ \/ op[q].name = "write" /\ op[q].res = "ok"
           \/ op[q].name = "header" /\ op[q].res \notin {"err", "eof"}
    BY <1>1, <1>2, <1>3 DEF Written, Waiting
  <2> QED BY <2>6, <2>8, <2>9 DEF Wire
<1>4. WiresOK'
  <2> SUFFICES ASSUME NEW p \in Requests, op[p] # NoOp, p # q PROVE Wire(p)'
    BY <1>1, <1>3 DEF WiresOK
  <2>1. Same(p) /\ op'[p] = op[p]
    BY <1>1, <1>2
  <2> QED BY <1>0, <2>1, SameWire DEF AnswerInv, WiresOK
<1>5. EmptyOK'
  <2> SUFFICES ASSUME NEW d \in Connections, Resting(d)' PROVE answers'[d] = <<>>
    BY DEF EmptyOK
  <2>1. Resting(d) /\ d # c
    BY <1>1 DEF Resting, Idle
  <2> QED BY <1>1, <2>1 DEF AnswerInv, EmptyOK
<1>6. RightAnswer'
  BY <1>0, <1>1, RightStays DEF AnswerInv
<1> QED BY <1>4, <1>5, <1>6 DEF WireParts

\* What is under way is cut short, but not inside a header.
LEMMA ShortWire ==
  ASSUME AnswerInv, NEW p \in Requests, op[p] # NoOp, kind' = kind,
         NEW n \in 0..Len(answers[conn[p]]),
         op'[p] = op[p], conn'[p] = conn[p], got'[p] = got[p],
         answers'[conn[p]] = SubSeq(answers[conn[p]], 1, n), requests'[conn[p]] = <<>>
  PROVE  Wire(p)'
<1>1. PICK s, t, a : s = got[p] /\ t = answers[conn[p]] /\ a = Answer(p)
  OBVIOUS
<1>2. PICK v : v = answers'[conn[p]]
  OBVIOUS
<1>3. Wire(p) /\ Matches(p) /\ Typed /\ conn[p] \in Connections
  BY WireOf
<1>4. Answer(p)' = a
  BY <1>1 DEF Answer
<1>5. s \in Seq(Parts) /\ t \in Seq(Parts) /\ a \in Seq(Parts)
  BY <1>1, <1>3, AnswerFacts DEF Typed, SessionTypes, NetworkTypes
<1>6. v \in Seq(Parts) /\ Len(v) = n /\ \A i \in 1..n : v[i] = t[i]
  <2>1. n \in 0..Len(t) /\ v = SubSeq(t, 1, n)
    BY <1>1, <1>2
  <2> QED BY <1>5, <2>1, Cut
<1>7. n \in Nat /\ n <= Len(t) /\ Len(s) \in Nat /\ Len(t) \in Nat /\ Len(a) \in Nat
  BY <1>1, <1>5
<1>8. Len(s) + Len(v) <= Len(a)
  <2>1. Len(s) + Len(t) <= Len(a)
    BY <1>1, <1>3 DEF Matches
  <2> QED BY <1>6, <1>7, <2>1
<1>9. \A i \in 1..Len(v) : v[i] = a[Len(s) + i]
  <2>1. \A i \in 1..Len(t) : t[i] = a[Len(s) + i]
    BY <1>1, <1>3 DEF Matches
  <2>2. \A i \in 1..n : i \in 1..Len(t)
    BY <1>7
  <2> QED BY <1>6, <2>1, <2>2
<1>10. \A i \in 1..Len(s) : s[i] = a[i]
  BY <1>1, <1>3 DEF Matches
<1>11. Matches(p)'
  BY <1>1, <1>2, <1>4, <1>8, <1>9, <1>10 DEF Matches
<1>12. t = <<>> => v = <<>>
  <2>1. t = <<>> => Len(t) = 0
    OBVIOUS
  <2>2. Len(t) = 0 => n = 0
    BY <1>7
  <2> QED BY <1>6, <2>1, <2>2, EmptySeq
<1> QED BY <1>1, <1>2, <1>3, <1>11, <1>12 DEF Wire

LEMMA ClosesWire ==
  ASSUME NoTornHeader, AnswerInv, NEW c \in Connections, Closes(c)
  PROVE  WireParts'
<1>0. SentInv /\ Typed /\ kind' = kind
  BY DEF AnswerInv, SentInv, TypeInv, Closes, chosen
<1>1. UNCHANGED <<phase, called, conn, op, got, connections, in_use, socket>>
  BY DEF Closes, calls, session, pool, sockets
<1>2. PICK n \in 0..Len(answers[c]) : answers' = [answers EXCEPT ![c] = SubSeq(answers[c], 1, n)]
  BY <1>0 DEF Closes, NoTornHeader, Typed, NetworkTypes
<1>3. answers[c] \in Seq(Parts)
  BY <1>0 DEF Typed, NetworkTypes
<1>4. /\ answers'[c] = SubSeq(answers[c], 1, n) /\ requests'[c] = <<>>
      /\ \A d \in Connections \ {c} :
           answers'[d] = answers[d] /\ requests'[d] = requests[d]
  BY <1>0, <1>2 DEF Closes, Typed, NetworkTypes
<1>5. WiresOK'
  <2> SUFFICES ASSUME NEW p \in Requests, op[p] # NoOp PROVE Wire(p)'
    BY <1>1 DEF WiresOK
  <2>1. conn[p] \in Connections
    BY WireOf
  <2>2. CASE conn[p] = c
    BY <1>0, <1>1, <1>4, <2>2, ShortWire
  <2>3. CASE conn[p] # c
    <3>1. got'[p] = got[p] /\ conn'[p] = conn[p] /\ op'[p] = op[p]
          /\ answers'[conn[p]] = answers[conn[p]] /\ requests'[conn[p]] = requests[conn[p]]
      BY <1>1, <1>4, <2>1, <2>3
    <3>2. Wire(p)
      BY WireOf
    <3>3. PICK a : a = Answer(p)
      OBVIOUS
    <3>4. Answer(p)' = a
      BY <1>0, <3>3 DEF Answer
    <3>5. Matches(p)'
      BY <3>1, <3>2, <3>3, <3>4 DEF Wire, Matches
    <3> QED BY <1>0, <3>1, <3>2, <3>5 DEF Wire
  <2> QED BY <2>2, <2>3
<1>6. EmptyOK'
  <2> SUFFICES ASSUME NEW d \in Connections, Resting(d)' PROVE answers'[d] = <<>>
    BY DEF EmptyOK
  <2>1. answers[d] = <<>>
    BY <1>1 DEF Resting, Idle, AnswerInv, EmptyOK
  <2>2. CASE d = c
    <3>1. Len(answers[c]) = 0
      BY <2>1, <2>2
    <3>2. n = 0
      BY <3>1
    <3>3. SubSeq(answers[c], 1, n) \in Seq(Parts) /\ Len(SubSeq(answers[c], 1, n)) = 0
      BY <1>3, <3>2, Cut
    <3> QED BY <1>4, <2>2, <3>3, EmptySeq
  <2> QED BY <1>4, <2>1, <2>2
<1>7. RightAnswer'
  BY <1>0, <1>1, RightStays DEF AnswerInv
<1> QED BY <1>5, <1>6, <1>7 DEF WireParts

\* What is handled late is answered to nobody.
LEMMA LateWire ==
  ASSUME AnswerInv, NEW q \in Requests, ServesLate(q)
  PROVE  WireParts'
<1>1. /\ UNCHANGED <<phase, called, conn, op, got, connections, in_use, socket, answers, requests>>
      /\ kind' = kind
  BY DEF ServesLate, calls, session, pool, sockets, chosen
<1>2. WiresOK'
  <2> SUFFICES ASSUME NEW p \in Requests, op[p] # NoOp PROVE Wire(p)'
    BY <1>1 DEF WiresOK
  <2>1. Wire(p) /\ Matches(p)
    BY WireOf
  <2>2. PICK a : a = Answer(p)
    OBVIOUS
  <2>3. Answer(p)' = a
    BY <1>1, <2>2 DEF Answer
  <2>4. conn'[p] = conn[p] /\ got'[p] = got[p] /\ answers'[conn[p]] = answers[conn[p]]
    BY <1>1
  <2>5. Matches(p)'
    BY <2>1, <2>2, <2>3, <2>4 DEF Matches
  <2> QED BY <1>1, <2>1, <2>5 DEF Wire
<1>3. EmptyOK'
  BY <1>1 DEF AnswerInv, EmptyOK, Resting, Idle
<1>4. RightAnswer'
  BY <1>1, RightStays DEF AnswerInv
<1> QED BY <1>2, <1>3, <1>4 DEF WireParts

\* An operation that is cancelled has read nothing more.
LEMMA CancelledWire ==
  ASSUME AnswerInv, NEW cs, NEW p \in Requests, op[p] # NoOp, kind' = kind,
         op'[p] = op[p] \/ op'[p] = Cancelled(cs)[p], Same(p)
  PROVE  Wire(p)'
<1>0. Typed /\ Wire(p)
  BY WireOf
<1>1. CASE op'[p] = op[p]
  BY <1>0, <1>1, SameWire
<1>2. CASE op[p].res = "wait" /\ op'[p] = [op[p] EXCEPT !.res = "aborted"]
  <2>1. op[p] \in SessionOps
    BY <1>0 DEF Typed, SessionTypes
  <2>2. op'[p].name = op[p].name /\ op'[p].res = "aborted"
    BY <1>2, <2>1, SessionOpsFacts DEF Outcomes
  <2>3. PICK a : a = Answer(p)
    OBVIOUS
  <2>4. Answer(p)' = a
    BY <2>3 DEF Answer
  <2>5. conn'[p] = conn[p] /\ got'[p] = got[p] /\ answers'[conn[p]] = answers[conn[p]]
    BY DEF Same
  <2>6. Matches(p)
    BY <1>0 DEF Wire
  <2>7. Matches(p)'
    BY <2>3, <2>4, <2>5, <2>6 DEF Matches
  <2> QED BY <1>0, <1>2, <2>2, <2>7 DEF Wire, Same
<1> QED BY <1>0, <1>1, <1>2, CancelledTyped

LEMMA TimersWire ==
  ASSUME AnswerInv,
         \/ \E c \in Connections : TimerExpires(c) \/ TimerHandler(c)
         \/ OutOfWork \/ Stop \/ Destroy \/ UNCHANGED vars
  PROVE  WireParts'
<1>0. SentInv /\ Typed /\ kind' = kind
  BY DEF AnswerInv, SentInv, TypeInv, TimerExpires, TimerHandler, OutOfWork, Stop, Destroy, vars, chosen
<1>1. UNCHANGED <<phase, called, conn, got, in_use, attempt_reconnect, requests, handled, late>>
  BY DEF TimerExpires, TimerHandler, OutOfWork, Stop, Destroy, vars, calls, session, pool, network
<1>2. PICK cs : \A p \in Requests : op'[p] = op[p] \/ op'[p] = Cancelled(cs)[p]
  BY DEF TimerExpires, TimerHandler, OutOfWork, Stop, Destroy, vars, session
<1>3. \/ UNCHANGED <<connections, socket, link, answers>>
      \/ /\ connections' = {}
         /\ socket' = [d \in Connections |-> IF d \in Idle THEN "gone" ELSE socket[d]]
         /\ link' = [d \in Connections |-> IF d \in Idle THEN "gone" ELSE link[d]]
         /\ answers' = [d \in Connections |-> IF d \in Idle THEN <<>> ELSE answers[d]]
  <2>1. CASE Stop \/ Destroy
    BY <2>1 DEF Stop, Destroy, Drop
  <2>2. CASE \/ \E c \in Connections : TimerExpires(c) \/ TimerHandler(c)
             \/ OutOfWork \/ UNCHANGED vars
    BY <2>2 DEF TimerExpires, TimerHandler, OutOfWork, vars, pool, sockets, network
  <2> QED BY <2>1, <2>2
<1>4. WiresOK'
  <2> SUFFICES ASSUME NEW p \in Requests, op'[p] # NoOp PROVE Wire(p)'
    BY DEF WiresOK
  <2>1. op[p] # NoOp
    BY <1>0, <1>2, CancelledNone
  <2>2. conn[p] \in Connections /\ ~Resting(conn[p])
    BY <1>0, <2>1, SessionHolds
  <2>3. conn[p] \notin Idle
    BY <2>2 DEF Resting
  <2>4. Same(p)
    BY <1>1, <1>3, <2>2, <2>3 DEF Same
  <2> QED BY <1>0, <1>2, <2>1, <2>4, CancelledWire
<1>5. EmptyOK'
  <2> SUFFICES ASSUME NEW d \in Connections, Resting(d)' PROVE answers'[d] = <<>>
    BY DEF EmptyOK
  <2>1. CASE d \in Idle
    <3>1. answers[d] = <<>>
      BY <2>1 DEF Resting, AnswerInv, EmptyOK
    <3> QED BY <1>3, <2>1, <3>1
  <2>2. CASE d \notin Idle
    <3>1. socket'[d] = socket[d] /\ answers'[d] = answers[d]
      BY <1>3, <2>2
    <3>2. d \notin Idle'
      BY <1>1, <1>3, <2>2 DEF Idle
    <3>3. Resting(d)
      BY <1>1, <3>1, <3>2 DEF Resting
    <3> QED BY <3>1, <3>3 DEF AnswerInv, EmptyOK
  <2> QED BY <2>1, <2>2
<1>6. RightAnswer'
  BY <1>0, <1>1, RightStays DEF AnswerInv
<1> QED BY <1>4, <1>5, <1>6 DEF WireParts

LEMMA InitAnswer == ASSUME EndsTold PROVE Init => AnswerInv
<1> SUFFICES ASSUME Init PROVE AnswerInv
  OBVIOUS
<1>1. SentInv
  BY InitSent
<1>2. Told
  BY DEF Init, EndsTold, Told
<1>3. WiresOK /\ EmptyOK /\ RightAnswer
  BY DEF Init, WiresOK, EmptyOK, RightAnswer
<1> QED BY <1>1, <1>2, <1>3 DEF AnswerInv

LEMMA AnswerStep == ASSUME NoTornHeader PROVE AnswerInv /\ [Next]_vars => AnswerInv'
<1> SUFFICES ASSUME AnswerInv, [Next]_vars PROVE AnswerInv'
  OBVIOUS
<1>1. SentInv'
  BY SentStep DEF AnswerInv
<1>2. kind' = kind
  <2>1. ASSUME NEW q \in Requests, Caller(q) \/ OpensOrWrites(q) \/ Reads(q) \/ ServesLate(q)
        PROVE  kind' = kind
    BY <2>1 DEF Caller, GetConnection, Connect, Count, Run, RunReturns, Returns, OpensOrWrites, Reads,
                  ServesLate, chosen
  <2>2. ASSUME NEW q \in Requests, Handles(q)
        PROVE  kind' = kind
    BY <2>2 DEF Elsewhere, chosen, Handles, ResolveHandler, ConnectHandler, WriteHandler, HeaderHandler,
         HeaderThrows, ContentHandler, TooBig, SizeHandler, DataHandler, Failed, Retry, NoRetry, NoLock
  <2>3. ASSUME NEW c \in Connections, TimerExpires(c) \/ TimerHandler(c) \/ Serves(c) \/ Closes(c)
        PROVE  kind' = kind
    BY <2>3 DEF TimerExpires, TimerHandler, Serves, Closes, chosen
  <2>4. CASE OutOfWork \/ Stop \/ Destroy \/ UNCHANGED vars
    BY <2>4 DEF OutOfWork, Stop, Destroy, vars, chosen
  <2> QED BY <2>1, <2>2, <2>3, <2>4 DEF Next
<1>3. Told'
  BY <1>2 DEF AnswerInv, Told
<1>4. ASSUME NEW q \in Requests, Caller(q) \/ Handles(q) \/ OpensOrWrites(q) \/ Reads(q) \/ ServesLate(q)
      PROVE  WireParts'
  BY <1>4, CallerWire, HandlesWire, OperationWire, ReadWire, LateWire
<1>5. ASSUME NEW c \in Connections, Serves(c) \/ Closes(c)
      PROVE  WireParts'
  BY <1>5, ServesWire, ClosesWire
<1>6. WireParts'
  BY <1>4, <1>5, TimersWire DEF Next
<1> QED BY <1>1, <1>3, <1>6 DEF AnswerInv, WireParts

\* A request that succeeds returns the whole answer to this request and nothing of another's,
\* whatever its connection served before, however often it was sent and whenever it was cut
\* (client.h:224-253, 478-639).  Two things are supposed of the server: it does not lose the
\* connection inside a header, where a retry would read the new answer behind the half of the
\* old one (client.h:542), and its headers tell where the answer ends, or the client takes the
\* connection back with the rest of the answer still to come.
THEOREM AnswersAreRight ==
  ASSUME NoTornHeader, EndsTold PROVE Spec => []RightAnswer
<1>1. Init => AnswerInv
  BY InitAnswer
<1>2. AnswerInv /\ [Next]_vars => AnswerInv'
  BY AnswerStep
<1>3. AnswerInv => RightAnswer
  BY DEF AnswerInv
<1> QED BY <1>1, <1>2, <1>3, PTL DEF Spec
=============================================================================
