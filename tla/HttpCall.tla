------------------------------- MODULE HttpCall -------------------------------
(***************************************************************************)
(* What the HTTP client promises of a request: it is called back at most    *)
(* once, with success only after a server has handled it; and servers        *)
(* handle it no more than twice, since it is sent a second time only once.   *)
(* A server may be late: it may handle the request first sent after the      *)
(* callback, even after that of the second one's success.                   *)
(***************************************************************************)
EXTENDS Naturals

CONSTANT Requests

VARIABLES
  status,   \* "new", "pending", "ok" or "error"
  handled   \* how often servers have handled the request

vars == <<status, handled>>

Init == status = [q \in Requests |-> "new"] /\ handled = [q \in Requests |-> 0]

Call(q) ==
  /\ status[q] = "new"
  /\ status' = [status EXCEPT ![q] = "pending"]
  /\ UNCHANGED handled

\* The client may have been called back already.
Handle(q) ==
  /\ status[q] # "new" /\ handled[q] < 2
  /\ handled' = [handled EXCEPT ![q] = @ + 1]
  /\ UNCHANGED status

Succeed(q) ==
  /\ status[q] = "pending" /\ handled[q] > 0
  /\ status' = [status EXCEPT ![q] = "ok"]
  /\ UNCHANGED handled

Fail(q) ==
  /\ status[q] = "pending"
  /\ status' = [status EXCEPT ![q] = "error"]
  /\ UNCHANGED handled

Next == \E q \in Requests : Call(q) \/ Handle(q) \/ Succeed(q) \/ Fail(q)

Spec == Init /\ [][Next]_vars
=============================================================================
