--------------------------- MODULE ThreadedProcess ---------------------------
(***************************************************************************)
(* process/src/ThreadedProcess.cpp: a task that owns one POSIX thread.      *)
(*                                                                         *)
(* The owner of a task calls start(), stop() and finally deletes it, one   *)
(* call at a time; the task's own thread runs threadLoop().  The two share  *)
(* the plain (neither atomic nor locked) flag mRunning: every read and      *)
(* write of it is a step of its own, so all their orders are explored.  The *)
(* reads cannot be hoisted out of the loop nor the writes moved across      *)
(* pthread_create/pthread_join, whose bodies the compiler does not see.     *)
(*                                                                         *)
(* TcpConnectionListener, TcpClientListener, TcpServerListener and          *)
(* VideoCaptureServer are such tasks.                                       *)
(***************************************************************************)
CONSTANT Tasks

VARIABLES
  mRunning,   \* the flag both sides read and write
  pc,         \* where the task's thread is
  call        \* where the owner is, with respect to the task

vars == <<mRunning, pc, call>>

\* The thread: not created (or joined), in threadStartFunction, at the test of
\* the while, in threadInnerFunction, in threadStopFunction, returned.
Positions == {"none", "start", "test", "inner", "stop", "exited"}

\* The owner: task not constructed, between calls, inside start() after
\* pthread_create, inside stop() in pthread_join, task deleted.
Calls == {"absent", "idle", "starting", "stopping", "deleted"}

\* Every location has its type.
TypeOK ==
  /\ mRunning \in [Tasks -> BOOLEAN]
  /\ pc \in [Tasks -> Positions]
  /\ call \in [Tasks -> Calls]

Init ==
  /\ mRunning = [t \in Tasks |-> FALSE]
  /\ pc = [t \in Tasks |-> "none"]
  /\ call = [t \in Tasks |-> "absent"]

-----------------------------------------------------------------------------
(* The owner.  start() and stop() return at once when the flag says so, and  *)
(* every code they return is 0 (ThreadedProcess.h:7-10): the early returns   *)
(* change nothing and tell the caller nothing.                               *)

New(t) ==
  /\ call[t] = "absent"
  /\ call' = [call EXCEPT ![t] = "idle"]
  /\ mRunning' = [mRunning EXCEPT ![t] = FALSE]
  /\ UNCHANGED pc

\* start() up to and including a pthread_create that succeeds.
Create(t) ==
  /\ call[t] = "idle" /\ ~mRunning[t]
  /\ pc' = [pc EXCEPT ![t] = "start"]
  /\ call' = [call EXCEPT ![t] = "starting"]
  /\ UNCHANGED mRunning

\* start() whose pthread_create fails.
CreateFails(t) ==
  /\ call[t] = "idle" /\ ~mRunning[t]
  /\ UNCHANGED vars

\* Mutated forms of ClearRunning: stop() that detaches the thread instead of
\* joining it; stop() that joins without clearing the flag.
ClearRunningDetached(t) ==
  /\ call[t] = "idle" /\ mRunning[t]
  /\ mRunning' = [mRunning EXCEPT ![t] = FALSE]
  /\ UNCHANGED <<pc, call>>

JoinOnly(t) ==
  /\ call[t] = "idle" /\ mRunning[t]
  /\ call' = [call EXCEPT ![t] = "stopping"]
  /\ UNCHANGED <<mRunning, pc>>

\* The rest of start(): the flag is written only now that the thread exists.
SetRunning(t) ==
  /\ call[t] = "starting"
  /\ mRunning' = [mRunning EXCEPT ![t] = TRUE]
  /\ call' = [call EXCEPT ![t] = "idle"]
  /\ UNCHANGED pc

\* stop() down to pthread_join.
ClearRunning(t) ==
  /\ call[t] = "idle" /\ mRunning[t]
  /\ mRunning' = [mRunning EXCEPT ![t] = FALSE]
  /\ call' = [call EXCEPT ![t] = "stopping"]
  /\ UNCHANGED pc

\* pthread_join returns.
Join(t) ==
  /\ call[t] = "stopping" /\ pc[t] = "exited"
  /\ pc' = [pc EXCEPT ![t] = "none"]
  /\ call' = [call EXCEPT ![t] = "idle"]
  /\ UNCHANGED mRunning

\* The owners delete a task right after stop(), whatever stop() returned
\* (TcpServerInternal.cpp:92-93, TcpRegisteredClientInternal.cpp:63-64).
Delete(t) ==
  /\ call[t] = "idle" /\ ~mRunning[t]
  /\ call' = [call EXCEPT ![t] = "deleted"]
  /\ UNCHANGED <<mRunning, pc>>

-----------------------------------------------------------------------------
(* The thread: threadLoop().                                                 *)

\* threadStartFunction(): its result is not looked at.
StartFunction(t) ==
  /\ pc[t] = "start"
  /\ pc' = [pc EXCEPT ![t] = "test"]
  /\ UNCHANGED <<mRunning, call>>

\* The condition of the while.
LoopTest(t) ==
  /\ pc[t] = "test"
  /\ pc' = [pc EXCEPT ![t] = IF mRunning[t] THEN "inner" ELSE "stop"]
  /\ UNCHANGED <<mRunning, call>>

\* threadInnerFunction() returns 0: another turn.
InnerReturns(t) ==
  /\ pc[t] = "inner"
  /\ pc' = [pc EXCEPT ![t] = "test"]
  /\ UNCHANGED <<mRunning, call>>

\* Mutated form of InnerFails: the thread clears the flag on its way out.
InnerFailsAndClears(t) ==
  /\ pc[t] = "inner"
  /\ pc' = [pc EXCEPT ![t] = "stop"]
  /\ mRunning' = [mRunning EXCEPT ![t] = FALSE]
  /\ UNCHANGED call

\* threadInnerFunction() returns non-zero: break; the flag keeps its value.
InnerFails(t) ==
  /\ pc[t] = "inner"
  /\ pc' = [pc EXCEPT ![t] = "stop"]
  /\ UNCHANGED <<mRunning, call>>

\* threadStopFunction() and the return of the thread.
StopFunction(t) ==
  /\ pc[t] = "stop"
  /\ pc' = [pc EXCEPT ![t] = "exited"]
  /\ UNCHANGED <<mRunning, call>>

-----------------------------------------------------------------------------
Owner(t) ==
  \/ New(t) \/ Create(t) \/ CreateFails(t) \/ SetRunning(t)
  \/ ClearRunning(t) \/ Join(t) \/ Delete(t)

Thread(t) ==
  \/ StartFunction(t) \/ LoopTest(t) \/ InnerReturns(t)
  \/ InnerFails(t) \/ StopFunction(t)

\* Every task is deleted: the program has nothing left to do with them.
AllDeleted == (\A t \in Tasks : call[t] = "deleted") /\ UNCHANGED vars

Next == (\E t \in Tasks : Owner(t) \/ Thread(t)) \/ AllDeleted

Spec == Init /\ [][Next]_vars

(* The scheduler runs every thread, an inner function returns, and a call    *)
(* that has begun is finished.  Nothing obliges an owner to begin a call.    *)
Fairness ==
  \A t \in Tasks :
    /\ WF_vars(Thread(t))
    /\ WF_vars(SetRunning(t))
    /\ WF_vars(Join(t))

FairSpec == Spec /\ Fairness

-----------------------------------------------------------------------------
(* Properties.                                                               *)

\* Between calls the flag tells whether there is a thread to join; inside a call
\* it is FALSE and there is one; without a task there is none.  The early returns
\* of start() and stop() are right because of it.
FlagTellsThread ==
  \A t \in Tasks :
    /\ call[t] = "idle" => (mRunning[t] <=> pc[t] # "none")
    /\ call[t] \in {"starting", "stopping"} => ~mRunning[t] /\ pc[t] # "none"
    /\ call[t] \in {"absent", "deleted"} => ~mRunning[t] /\ pc[t] = "none"

\* A deleted task has no thread left that could still run its methods: the
\* NOT_RUNNING return of stop() never skips a join that is needed.
QuietWhenDeleted == \A t \in Tasks : call[t] = "deleted" => pc[t] = "none"

\* pthread_create never overwrites mThreadID while the thread it names has not
\* been joined, although start() asks only the flag, which the thread's own end
\* leaves TRUE.
OneThread == [][\A t \in Tasks : pc'[t] = "start" /\ pc[t] # "start" => pc[t] = "none"]_vars

\* stop() returns: whatever the thread is doing when the flag is cleared, even
\* before its first look at the flag, it leaves the loop.
JoinReturns == \A t \in Tasks : call[t] = "stopping" ~> call[t] # "stopping"
=============================================================================
