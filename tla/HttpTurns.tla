------------------------------ MODULE HttpTurns ------------------------------
(***************************************************************************)
(* What a client relies on when it uses one connection for several          *)
(* requests: they are handled in the order in which they were made, each at *)
(* most once and none before the one in front of it is answered; an answer  *)
(* is given once and to a request that was handled, unless the server       *)
(* refuses it, which is the last thing it does on the connection.           *)
(***************************************************************************)
EXTENDS Naturals

CONSTANT Peers

VARIABLES
  asked,    \* the requests begun on each connection
  handled,  \* the last of them given to the application
  answered, \* the last of them answered
  refused   \* the last of them was refused

Init ==
  /\ asked = [c \in Peers |-> 0] /\ handled = [c \in Peers |-> 0]
  /\ answered = [c \in Peers |-> 0] /\ refused = [c \in Peers |-> FALSE]

Waits(c) == answered[c] < asked[c] /\ ~refused[c]

Ask(c) ==
  /\ answered[c] = asked[c] /\ ~refused[c]
  /\ asked' = [asked EXCEPT ![c] = @ + 1]
  /\ UNCHANGED <<handled, answered, refused>>

Handle(c) ==
  /\ Waits(c) /\ handled[c] < asked[c]
  /\ handled' = [handled EXCEPT ![c] = asked[c]]
  /\ UNCHANGED <<asked, answered, refused>>

Answer(c) ==
  /\ Waits(c) /\ handled[c] = asked[c]
  /\ answered' = [answered EXCEPT ![c] = asked[c]]
  /\ UNCHANGED <<asked, handled, refused>>

Refuse(c) ==
  /\ Waits(c) /\ handled[c] < asked[c]
  /\ answered' = [answered EXCEPT ![c] = asked[c]]
  /\ refused' = [refused EXCEPT ![c] = TRUE]
  /\ UNCHANGED <<asked, handled>>

Next == \E c \in Peers : Ask(c) \/ Handle(c) \/ Answer(c) \/ Refuse(c)

Spec == Init /\ [][Next]_<<asked, handled, answered, refused>>
=============================================================================
