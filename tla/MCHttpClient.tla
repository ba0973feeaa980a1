----------------------------- MODULE MCHttpClient -----------------------------
(***************************************************************************)
(* Instances of HttpClient: two requests, enough for the second to take the *)
(* connection the first gave back, and for both to be under way at once;    *)
(* and the connections they can come to need.                               *)
(***************************************************************************)
EXTENDS HttpClient, TLC

CONSTANTS q1, q2, main, other

MCRequests == {q1, q2}
MCConnections == 1..4

Case(s, k1, k2, t2, f) ==
  [style |-> s, kind |-> (q1 :> k1 @@ q2 :> k2), thread |-> (q1 :> main @@ q2 :> t2),
   faults |-> f]

\* Synchronous requests with answers of every kind the client can tell the end of, by the
\* one thread of http-client.cpp and, the simplest, by two; asynchronous requests.
Told == {Case("sync", "length", "chunked", main, 2), Case("sync", "big", "eof", main, 2),
         Case("sync", "bigchunk", "length", main, 1), Case("sync", "badchunk", "bigeof", main, 2),
         Case("sync", "bad", "longchunks", main, 1), Case("sync", "badlength", "empty", main, 2),
         Case("sync", "empty", "empty", other, 1), Case("async", "length", "eof", main, 2),
         Case("async", "badlength", "length", main, 1)}

\* The simplest requests.
Synchronous == {Case("sync", "length", "length", main, 1)}
=============================================================================
