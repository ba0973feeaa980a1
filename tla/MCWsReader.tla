------------------------------ MODULE MCWsReader ------------------------------
(* Streams of two frames, of each form of the length and at its limits.  *)
EXTENDS WsReader

Sizes == {0, 1, 2, 3, 125, 126, 65535, 65536}

AllStreams == Sizes \X Sizes
=============================================================================
