-------------------------- MODULE ScopeRunner_proofs --------------------------
(***************************************************************************)
(* ScopeRunner implements ScopeGuard for any finite set of handlers and any  *)
(* set of callers of stop().  CountsHolders is what makes every step map:    *)
(* an exchange that succeeds at n >= 0 opens no closed scope, and one that   *)
(* succeeds at 0 finds no holder.  With the types it is inductive; the       *)
(* cardinality of Holders is followed through one handler's entry and exit.  *)
(***************************************************************************)
EXTENDS ScopeRunner, FiniteSetTheorems, TLAPS

\* A stop() that has returned has left the counter negative.
StoppedIsClosed == \A s \in Stoppers : pc[s] = "stopped" => count < 0

Types ==
  /\ count \in Int
  /\ expected \in [Handlers -> Int]
  /\ pc \in [Handlers \cup Stoppers -> HandlerAt \cup StopperAt]
  /\ \A h \in Handlers : pc[h] \in HandlerAt

IInv == Types /\ CountsHolders /\ StoppedIsClosed

-----------------------------------------------------------------------------
LEMMA HoldersFinite == IsFiniteSet(Holders) /\ Cardinality(Holders) \in Nat
<1>1. Holders \subseteq Handlers
      BY DEF Holders
<1> QED BY <1>1, FS_Subset, FS_CardinalityType, ThreadsAssumption

\* The holders after a step of h that reaches the body, or leaves it.
LEMMA HoldersStep ==
  ASSUME Types, NEW h \in Handlers, NEW p \in HandlerAt, pc' = [pc EXCEPT ![h] = p]
  PROVE  /\ p = "holding" => Holders' = Holders \cup {h}
         /\ p # "holding" => Holders' = Holders \ {h}
  BY DEF Types, Holders, HandlerAt, StopperAt

LEMMA InitInv == Init => IInv
<1> SUFFICES ASSUME Init PROVE IInv
    OBVIOUS
<1>1. Types
      BY DEF Init, Types, HandlerAt, StopperAt
<1>2. Holders = {}
      BY DEF Init, Holders
<1>3. CountsHolders
      BY <1>2, FS_EmptySet DEF Init, CountsHolders
<1> QED BY <1>1, <1>3 DEF Init, IInv, StoppedIsClosed

LEMMA EnterCounts == ASSUME IInv, NEW h \in Handlers, Enter(h) PROVE CountsHolders'
<1> USE DEF IInv, Types
<1>1. Holders' = Holders \cup {h}
      BY HoldersStep DEF Enter, HandlerAt
<1>2. h \notin Holders
      BY DEF Enter, Holders
<1>3. Cardinality(Holders') = Cardinality(Holders) + 1
      BY <1>1, <1>2, HoldersFinite, FS_AddElement
<1>4. count = Cardinality(Holders) /\ count' = count + 1
      BY DEF Enter, CountsHolders
<1> QED BY <1>3, <1>4 DEF CountsHolders

LEMMA LeaveCounts ==
  ASSUME IInv, NEW h \in Handlers, Leave(h) PROVE CountsHolders' /\ count > 0 /\ h \in Holders
<1> USE DEF IInv, Types
<1>1. Holders' = Holders \ {h}
      BY HoldersStep DEF Leave, HandlerAt
<1>2. h \in Holders
      BY DEF Leave, Holders
<1>3. Cardinality(Holders') = Cardinality(Holders) - 1
      BY <1>1, <1>2, HoldersFinite, FS_RemoveElement
<1>4. count = Cardinality(Holders)
      BY <1>2 DEF CountsHolders
<1>5. count' = count - 1
      BY DEF Leave
<1>6. Cardinality(Holders) # 0
      BY <1>2, HoldersFinite, FS_EmptySet
<1> QED BY <1>2, <1>3, <1>4, <1>5, <1>6, HoldersFinite DEF CountsHolders

\* The steps that change neither the counter nor who is in its body.
Idle ==
  \/ \E h \in Handlers : Load(h) \/ Retry(h) \/ Refused(h)
  \/ \E s \in Stoppers : CallStop(s) \/ SpinOrReturn(s)
  \/ UNCHANGED vars

LEMMA IdleStep == ASSUME IInv, Idle PROVE Holders' = Holders /\ count' = count
<1> USE DEF IInv, Types
<1>1. ASSUME NEW h \in Handlers, Load(h) \/ Refused(h)
      PROVE  Holders' = Holders /\ count' = count
  <2>1. h \notin Holders
        BY <1>1 DEF Load, Refused, Holders
  <2>2. Holders' = Holders \ {h}
        BY <1>1, HoldersStep DEF Load, Refused, HandlerAt
  <2> QED BY <1>1, <2>1, <2>2 DEF Load, Refused
<1>2. ASSUME NEW h \in Handlers, Retry(h)
      PROVE  Holders' = Holders /\ count' = count
      BY <1>2 DEF Retry, Holders
<1>3. ASSUME NEW s \in Stoppers, CallStop(s) \/ SpinOrReturn(s)
      PROVE  Holders' = Holders /\ count' = count
  <2>1. s \notin Handlers
        BY ThreadsAssumption
  <2> QED BY <1>3, <2>1 DEF CallStop, SpinOrReturn, Holders
<1> QED BY <1>1, <1>2, <1>3 DEF Idle, vars, Holders

LEMMA TypesStep == ASSUME IInv, [Next]_vars PROVE Types'
<1> USE DEF IInv, Types, HandlerAt, StopperAt
<1>1. ASSUME NEW h \in Handlers, Handler(h) PROVE Types'
      BY <1>1 DEF Handler, Load, Enter, Retry, Refused, Leave
<1>2. ASSUME NEW s \in Stoppers, Stopper(s) PROVE Types'
  <2>1. s \notin Handlers
        BY ThreadsAssumption
  <2> QED BY <1>2, <2>1 DEF Stopper, CallStop, Close, SpinOrReturn
<1> QED BY <1>1, <1>2 DEF Next, vars

LEMMA CloseStep ==
  ASSUME IInv, NEW s \in Stoppers, Close(s)
  PROVE  Holders = {} /\ Holders' = {} /\ count = 0 /\ count' = -1
<1> USE DEF IInv, Types
<1>1. s \notin Handlers
      BY ThreadsAssumption
<1>2. Holders' = Holders
      BY <1>1 DEF Close, Holders
<1>3. Cardinality(Holders) = 0
      BY DEF Close, CountsHolders
<1> QED BY <1>2, <1>3, HoldersFinite, FS_EmptySet DEF Close

\* Every step is one of these.
LEMMA Cases ==
  [Next]_vars =>
    \/ Idle
    \/ \E h \in Handlers : Enter(h) \/ Leave(h)
    \/ \E s \in Stoppers : Close(s)
  BY DEF Next, Handler, Stopper, Idle

LEMMA NextInv == IInv /\ [Next]_vars => IInv'
<1> SUFFICES ASSUME IInv, [Next]_vars PROVE IInv'
    OBVIOUS
<1>1. Types'
      BY TypesStep
<1>2. CASE Idle
  <2>1. CountsHolders'
        BY <1>2, IdleStep DEF IInv, CountsHolders
  <2>2. StoppedIsClosed'
        BY <1>2, ThreadsAssumption
        DEF Idle, Load, Retry, Refused, CallStop, SpinOrReturn, vars, IInv, Types, StoppedIsClosed
  <2> QED BY <1>1, <2>1, <2>2 DEF IInv
<1>3. ASSUME NEW h \in Handlers, Enter(h) PROVE IInv'
  <2>1. StoppedIsClosed'
        BY <1>3, ThreadsAssumption DEF Enter, IInv, Types, StoppedIsClosed
  <2> QED BY <1>1, <1>3, <2>1, EnterCounts DEF IInv
<1>4. ASSUME NEW h \in Handlers, Leave(h) PROVE IInv'
  <2>1. CountsHolders' /\ count > 0
        BY <1>4, LeaveCounts
  <2>2. StoppedIsClosed'
        BY <1>4, <2>1, ThreadsAssumption DEF Leave, IInv, Types, StoppedIsClosed
  <2> QED BY <1>1, <2>1, <2>2 DEF IInv
<1>5. ASSUME NEW s \in Stoppers, Close(s) PROVE IInv'
      BY <1>1, <1>5, CloseStep DEF IInv, CountsHolders, StoppedIsClosed
<1> QED BY <1>2, <1>3, <1>4, <1>5, Cases

THEOREM Invariance == Spec => []IInv
  BY InitInv, NextInv, PTL DEF Spec

-----------------------------------------------------------------------------
\* Every variable keeps its type and the counter never goes below -1.
THEOREM TypeCorrect == Spec => []TypeOK
<1>1. IInv => TypeOK
      BY HoldersFinite DEF IInv, Types, TypeOK, CountsHolders
<1> QED BY <1>1, Invariance, PTL

\* utility.h:333-342, 325-327: the counter is the number of locks held, or -1.
THEOREM CounterIsExact == Spec => []CountsHolders
<1>1. IInv => CountsHolders
      BY DEF IInv
<1> QED BY <1>1, Invariance, PTL

\* utility.h:344: "Blocks until all shared locks are released, then prevents
\* future shared locks".
THEOREM StopIsQuiet == Spec => []QuietAfterStop
<1>1. IInv => QuietAfterStop
      BY HoldersFinite DEF IInv, CountsHolders, StoppedIsClosed, QuietAfterStop
<1> QED BY <1>1, Invariance, PTL

\* The runner implements ScopeGuard.
THEOREM Implementation == Spec => GuardSpec
<1>1. Init => Guard!Init
      BY DEF Init, Guard!Init, Holders
<1>2. IInv /\ [Next]_vars => [Guard!Next]_<<Holders, count >= 0>>
  <2> SUFFICES ASSUME IInv, [Next]_vars
               PROVE  Guard!Next \/ UNCHANGED <<Holders, count >= 0>>
      OBVIOUS
  <2>1. CASE Idle
        BY <2>1, IdleStep
  <2>2. ASSUME NEW h \in Handlers, Enter(h) PROVE Guard!Next
    <3>1. Holders' = Holders \cup {h} /\ h \notin Holders
          BY <2>2, HoldersStep DEF Enter, HandlerAt, Holders, IInv, Types
    <3>2. count >= 0 /\ count' >= 0
          BY <2>2 DEF Enter, IInv, Types
    <3> QED BY <3>1, <3>2 DEF Guard!Next, Guard!Enter
  <2>3. ASSUME NEW h \in Handlers, Leave(h) PROVE Guard!Next
    <3>1. Holders' = Holders \ {h}
          BY <2>3, HoldersStep DEF Leave, HandlerAt, IInv, Types
    <3>2. count > 0 /\ h \in Holders
          BY <2>3, LeaveCounts
    <3>3. count >= 0 /\ count' >= 0
          BY <2>3, <3>2 DEF Leave, IInv, Types
    <3> QED BY <3>1, <3>2, <3>3 DEF Guard!Next, Guard!Leave
  <2>4. ASSUME NEW s \in Stoppers, Close(s) PROVE Guard!Next
    <3>1. Holders = {} /\ Holders' = {} /\ count = 0 /\ count' = -1
          BY <2>4, CloseStep
    <3> QED BY <3>1 DEF Guard!Next, Guard!Close
  <2> QED BY <2>1, <2>2, <2>3, <2>4, Cases
<1> QED BY <1>1, <1>2, Invariance, PTL DEF Spec, GuardSpec, Guard!Spec
=============================================================================
