------------------------------ MODULE MCThreads ------------------------------
(***************************************************************************)
(* The two protocols on which the threads of the programs rest: the start   *)
(* and stop of a task (process/) and the scope of a server's or client's     *)
(* handlers (web/).  They share nothing, so a behaviour is one of the tasks  *)
(* or one of the scope, the other at rest in its initial state.              *)
(*                                                                         *)
(* Two tasks, as one owner has them: TcpServerInternal owns the accept task  *)
(* and, through the registered clients, one listener per connection.  Three  *)
(* handlers, so that two can change the counter under a third between its    *)
(* load and its exchange, and two callers of stop().                         *)
(***************************************************************************)
EXTENDS ScopeRunner

CONSTANTS t1, t2, h1, h2, h3, s1, s2

MCTasks == {t1, t2}
MCHandlers == {h1, h2, h3}
MCStoppers == {s1, s2}

VARIABLES
  mRunning, place, call,  \* the tasks' (place is pc in ThreadedProcess)
  part                    \* whose behaviour it is

Task == INSTANCE ThreadedProcess WITH Tasks <- MCTasks, pc <- place

taskVars == <<mRunning, place, call>>
allVars == <<vars, taskVars, part>>

PartInit == Init /\ Task!Init /\ part \in {"tasks", "scope"}

PartNext ==
  \/ part = "tasks" /\ Task!Next /\ UNCHANGED <<vars, part>>
  \/ part = "scope" /\ Next /\ UNCHANGED <<taskVars, part>>

PartSpec == PartInit /\ [][PartNext]_allVars /\ Fairness /\ Task!Fairness

-----------------------------------------------------------------------------
(* Properties of the tasks; those of the scope are ScopeRunner's.            *)

\* Between two calls of its owner the flag of a task tells whether there is a
\* thread to join: the early returns ask nothing else (ThreadedProcess.cpp:12, 23).
FlagTellsThread == Task!FlagTellsThread

\* pthread_create never overwrites mThreadID while its thread is not joined
\* (ThreadedProcess.cpp:14).
OneThread == Task!OneThread

\* stop() returns from pthread_join, wherever the thread is when the flag is cleared
\* (ThreadedProcess.cpp:24-25).
JoinReturns == Task!JoinReturns
=============================================================================
