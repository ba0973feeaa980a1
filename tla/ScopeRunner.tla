----------------------------- MODULE ScopeRunner -----------------------------
(***************************************************************************)
(* web/include/web/utility.h:311-354: one atomic counter shared by the       *)
(* handlers, which count themselves in and out around their bodies, and by   *)
(* the destructors of the servers and clients, which call stop().            *)
(*                                                                         *)
(* Every access to the counter is a step.  compare_exchange_weak may fail    *)
(* although the counter has the expected value; when it fails it loads the   *)
(* counter.  The accesses are sequentially consistent.                      *)
(*                                                                         *)
(* A Handler is a thread of io_service::run, a Stopper a thread that         *)
(* destroys the owner; a handler that destroys its own owner would be both   *)
(* and wait for itself.                                                     *)
(***************************************************************************)
EXTENDS Integers, FiniteSets

CONSTANTS Handlers, Stoppers

ASSUME ThreadsAssumption == IsFiniteSet(Handlers) /\ Handlers \cap Stoppers = {}

VARIABLES
  count,      \* the number of shared locks, or -1
  expected,   \* the local of each handler in continue_lock()
  pc

vars == <<count, expected, pc>>

HandlerAt == {"out", "trying", "holding"}
StopperAt == {"out", "stopping", "stopped"}

\* Every location has its type.
TypeOK ==
  /\ count \in Int /\ count >= -1
  /\ expected \in [Handlers -> Int]
  /\ pc \in [Handlers \cup Stoppers -> HandlerAt \cup StopperAt]
  /\ \A h \in Handlers : pc[h] \in HandlerAt

Init ==
  /\ count = 0
  /\ expected = [h \in Handlers |-> 0]
  /\ pc = [t \in Handlers \cup Stoppers |-> "out"]

-----------------------------------------------------------------------------
(* continue_lock() and the destructor of the lock.                           *)

\* long expected = count
Load(h) ==
  /\ pc[h] = "out"
  /\ expected' = [expected EXCEPT ![h] = count]
  /\ pc' = [pc EXCEPT ![h] = "trying"]
  /\ UNCHANGED count

\* Mutated form of Enter: load and store instead of compare and exchange.
EnterWithoutCompare(h) ==
  /\ pc[h] = "trying" /\ expected[h] >= 0
  /\ count' = expected[h] + 1
  /\ pc' = [pc EXCEPT ![h] = "holding"]
  /\ UNCHANGED expected

\* The exchange succeeds.
Enter(h) ==
  /\ pc[h] = "trying" /\ expected[h] >= 0
  /\ count = expected[h]
  /\ count' = expected[h] + 1
  /\ pc' = [pc EXCEPT ![h] = "holding"]
  /\ UNCHANGED expected

\* It fails, on another value or spuriously.
Retry(h) ==
  /\ pc[h] = "trying" /\ expected[h] >= 0
  /\ expected' = [expected EXCEPT ![h] = count]
  /\ UNCHANGED <<count, pc>>

\* nullptr: the handler returns without running its body.
Refused(h) ==
  /\ pc[h] = "trying" /\ expected[h] < 0
  /\ pc' = [pc EXCEPT ![h] = "out"]
  /\ UNCHANGED <<count, expected>>

\* Mutated form of Leave: the lock is leaked.
LeaveWithoutRelease(h) ==
  /\ pc[h] = "holding"
  /\ pc' = [pc EXCEPT ![h] = "out"]
  /\ UNCHANGED <<count, expected>>

\* ~SharedLock
Leave(h) ==
  /\ pc[h] = "holding"
  /\ count' = count - 1
  /\ pc' = [pc EXCEPT ![h] = "out"]
  /\ UNCHANGED expected

-----------------------------------------------------------------------------
(* stop()                                                                    *)

CallStop(s) ==
  /\ pc[s] = "out"
  /\ pc' = [pc EXCEPT ![s] = "stopping"]
  /\ UNCHANGED <<count, expected>>

\* The exchange of 0 for -1 succeeds.
Close(s) ==
  /\ pc[s] = "stopping" /\ count = 0
  /\ count' = -1
  /\ pc' = [pc EXCEPT ![s] = "stopped"]
  /\ UNCHANGED expected

\* It fails: stop() returns if another has closed the scope, or else spins.
SpinOrReturn(s) ==
  /\ pc[s] = "stopping"
  /\ pc' = IF count < 0 THEN [pc EXCEPT ![s] = "stopped"] ELSE pc
  /\ UNCHANGED <<count, expected>>

-----------------------------------------------------------------------------
Handler(h) == Load(h) \/ Enter(h) \/ Retry(h) \/ Refused(h) \/ Leave(h)
Stopper(s) == CallStop(s) \/ Close(s) \/ SpinOrReturn(s)

Next == (\E h \in Handlers : Handler(h)) \/ (\E s \in Stoppers : Stopper(s))

Spec == Init /\ [][Next]_vars

(* A handler's body returns, a spinning stop() is scheduled, and a weak       *)
(* exchange that could succeed for ever does not fail for ever.              *)
Fairness ==
  /\ \A h \in Handlers : WF_vars(Leave(h))
  /\ \A s \in Stoppers : WF_vars(Close(s)) /\ WF_vars(SpinOrReturn(s))

FairSpec == Spec /\ Fairness

-----------------------------------------------------------------------------
(* Properties.                                                               *)

Holders == {h \in Handlers : pc[h] = "holding"}

\* The counter counts the shared locks, or is -1 when there is none: no lost
\* update, no exchange that succeeds on a value that was there before (0, then
\* 1, then 0 again) and breaks the count.
CountsHolders ==
  \/ count = Cardinality(Holders)
  \/ count = -1 /\ Holders = {}

\* stop() blocks until all locks are released and prevents later ones: when it
\* has returned no handler is in its body, and none will be.
QuietAfterStop == (\E s \in Stoppers : pc[s] = "stopped") => count = -1 /\ Holders = {}

\* The runner implements the promise it makes.
Guard == INSTANCE ScopeGuard WITH active <- Holders, open <- count >= 0
GuardSpec == Guard!Spec

\* stop() returns once handlers have ceased to come; while they keep coming and
\* overlapping it may spin for ever.
StopReturns ==
  <>[](\A h \in Handlers : pc[h] # "trying") =>
    \A s \in Stoppers : pc[s] = "stopping" ~> pc[s] = "stopped"
=============================================================================
