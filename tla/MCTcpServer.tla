----------------------------- MODULE MCTcpServer -----------------------------
(* Two connections: enough for one to be accepted, served or removed while    *)
(* another is, and for a broadcast to reach both.  The cfgs choose Apps.      *)
EXTENDS TcpServer, TLC

CONSTANTS c1, c2

MCClients == {c1, c2}

\* Only the first peer sends a message.
FirstSends == (c1 :> 1 @@ c2 :> 0)

\* The first peer leaves in every way, the second only by breaking its connection or not
\* at all.
LeaveOrBreak == (c1 :> {"mute", "closed", "reset"} @@ c2 :> {"reset"})
FirstEnds   == (c1 :> {"closed", "reset"} @@ c2 :> {})
=============================================================================
