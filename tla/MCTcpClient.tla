----------------------------- MODULE MCTcpClient -----------------------------
(* The three clients, one connection each. *)
EXTENDS TcpClient

AllApps == {"chat", "video", "bcast"}
=============================================================================
