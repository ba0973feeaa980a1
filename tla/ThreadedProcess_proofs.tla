------------------------ MODULE ThreadedProcess_proofs ------------------------
(***************************************************************************)
(* The safety of the task protocol for any set of tasks.                    *)
(*                                                                         *)
(* Neither QuietWhenDeleted nor OneThread is inductive: both need to know   *)
(* what the flag says of the thread between two calls of the owner.  That   *)
(* is FlagTellsThread, and it holds only because the thread itself    *)
(* never writes the flag.                                                   *)
(***************************************************************************)
EXTENDS ThreadedProcess, TLAPS

IInv == TypeOK /\ FlagTellsThread

-----------------------------------------------------------------------------
LEMMA InitInv == Init => IInv
  BY DEF Init, IInv, TypeOK, FlagTellsThread, Positions, Calls

\* A step of the owner keeps the flag and the thread in agreement.
LEMMA OwnerInv == ASSUME IInv, NEW t \in Tasks, Owner(t) PROVE IInv'
<1> USE DEF IInv, TypeOK, FlagTellsThread, Positions, Calls
<1>1. CASE New(t)           BY <1>1 DEF New
<1>2. CASE Create(t)        BY <1>2 DEF Create
<1>3. CASE CreateFails(t)   BY <1>3 DEF CreateFails, vars
<1>4. CASE SetRunning(t)    BY <1>4 DEF SetRunning
<1>5. CASE ClearRunning(t)  BY <1>5 DEF ClearRunning
<1>6. CASE Join(t)          BY <1>6 DEF Join
<1>7. CASE Delete(t)        BY <1>7 DEF Delete
<1> QED BY <1>1, <1>2, <1>3, <1>4, <1>5, <1>6, <1>7 DEF Owner

\* A step of the thread changes neither the flag nor whether it exists.
LEMMA ThreadInv == ASSUME IInv, NEW t \in Tasks, Thread(t) PROVE IInv'
<1> USE DEF IInv, TypeOK, FlagTellsThread, Positions, Calls
<1>1. CASE StartFunction(t) BY <1>1 DEF StartFunction
<1>2. CASE LoopTest(t)      BY <1>2 DEF LoopTest
<1>3. CASE InnerReturns(t)  BY <1>3 DEF InnerReturns
<1>4. CASE InnerFails(t)    BY <1>4 DEF InnerFails
<1>5. CASE StopFunction(t)  BY <1>5 DEF StopFunction
<1> QED BY <1>1, <1>2, <1>3, <1>4, <1>5 DEF Thread

LEMMA NextInv == IInv /\ [Next]_vars => IInv'
<1> SUFFICES ASSUME IInv, [Next]_vars PROVE IInv'
    OBVIOUS
<1>1. CASE Next
  <2>1. CASE \E t \in Tasks : Owner(t) \/ Thread(t)
        BY <2>1, OwnerInv, ThreadInv
  <2>2. CASE AllDeleted
        BY <2>2 DEF AllDeleted, vars, IInv, TypeOK, FlagTellsThread
  <2> QED BY <1>1, <2>1, <2>2 DEF Next
<1>2. CASE UNCHANGED vars
      BY <1>2 DEF vars, IInv, TypeOK, FlagTellsThread
<1> QED BY <1>1, <1>2

THEOREM Invariance == Spec => []IInv
  BY InitInv, NextInv, PTL DEF Spec

-----------------------------------------------------------------------------
\* Every variable keeps its type, for any set of tasks.
THEOREM TypeCorrect == Spec => []TypeOK
<1>1. IInv => TypeOK  BY DEF IInv
<1> QED BY <1>1, Invariance, PTL

\* ThreadedProcess.cpp:12,23: the early returns of start() and stop() are right.
THEOREM FlagIsRight == Spec => []FlagTellsThread
<1>1. IInv => FlagTellsThread  BY DEF IInv
<1> QED BY <1>1, Invariance, PTL

\* ThreadedProcess.cpp:21-27: stop() then delete never leaves a running thread
\* behind, whether stop() joined or found the flag FALSE.
THEOREM NoThreadAfterDelete == Spec => []QuietWhenDeleted
<1>1. IInv => QuietWhenDeleted
      BY DEF IInv, FlagTellsThread, QuietWhenDeleted
<1> QED BY <1>1, Invariance, PTL

\* ThreadedProcess.cpp:10-19: start() creates a thread only when the task has
\* none, although it looks only at the flag.
THEOREM OneThreadPerTask == Spec => OneThread
<1>1. IInv /\ [Next]_vars =>
        [\A t \in Tasks : pc'[t] = "start" /\ pc[t] # "start" => pc[t] = "none"]_vars
  <2> SUFFICES ASSUME IInv, Next, NEW t \in Tasks,
                      pc'[t] = "start", pc[t] # "start"
               PROVE  pc[t] = "none"
      OBVIOUS
  <2>1. CASE AllDeleted
        BY <2>1 DEF AllDeleted, vars
  <2>2. ASSUME NEW u \in Tasks, Owner(u) PROVE pc[t] = "none"
    <3>1. CASE Create(u)
          BY <3>1 DEF Create, IInv, TypeOK, FlagTellsThread
    <3>2. CASE Join(u)
          BY <3>2 DEF Join, IInv, TypeOK
    <3>3. CASE UNCHANGED pc
          BY <3>3
    <3> QED BY <2>2, <3>1, <3>2, <3>3
            DEF Owner, New, CreateFails, vars, SetRunning, ClearRunning, Delete
  <2>3. ASSUME NEW u \in Tasks, Thread(u) PROVE pc[t] = "none"
        BY <2>3 DEF Thread, StartFunction, LoopTest, InnerReturns, InnerFails,
                    StopFunction, IInv, TypeOK
  <2> QED BY <2>1, <2>2, <2>3 DEF Next
<1> QED BY <1>1, Invariance, PTL DEF Spec, OneThread
=============================================================================
