------------------------------- MODULE TcpLink -------------------------------
(***************************************************************************)
(* What the application of a TcpClient may count on: a connection is made   *)
(* once and lost once, and each is told once, after it has happened.  Not    *)
(* in which order: the loss may be told before the connection.              *)
(***************************************************************************)
VARIABLES
  link,     \* "new", "connected", "lost"
  up, down  \* OnConnected, OnDisconnected has been called

vars == <<link, up, down>>

Init == link = "new" /\ up = FALSE /\ down = FALSE

Make == link = "new" /\ link' = "connected" /\ UNCHANGED <<up, down>>

Lose == link = "connected" /\ link' = "lost" /\ UNCHANGED <<up, down>>

TellUp == link # "new" /\ ~up /\ up' = TRUE /\ UNCHANGED <<link, down>>

TellDown == link = "lost" /\ ~down /\ down' = TRUE /\ UNCHANGED <<link, up>>

Next == Make \/ Lose \/ TellUp \/ TellDown

Spec == Init /\ [][Next]_vars
=============================================================================
