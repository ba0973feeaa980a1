---------------------------- MODULE MCWebSocket ----------------------------
(***************************************************************************)
(* Instances of WebSocket: a browser or ws-client.cpp against the server.  *)
(***************************************************************************)
EXTENDS WebSocket

\* Thread pools: server.config.thread_pool_size is 1 unless it is set.
OneThread == [e \in Ends |-> 1]
\* A server that is given two; the client runs its handlers in the thread of start().
TwoThreads == [e \in Ends |-> IF e = "server" THEN 2 ELSE 1]

\* The client sends a message in two fragments, with a ping in between.
Fragments == [e \in Ends |-> IF e = "client" THEN <<"first", "ping", "last">> ELSE <<>>]
\* The client sends one message.
Text == [e \in Ends |-> IF e = "client" THEN <<"text">> ELSE <<>>]
\* Nothing but close frames.
Silent == [e \in Ends |-> <<>>]

\* Limits that no message of these scripts reaches.
Two == [e \in Ends |-> 2]
\* The client's message is too big for the server.
Zero == [e \in Ends |-> IF e = "server" THEN 0 ELSE 1]
=============================================================================
