----------------------------- MODULE MCHttpServer -----------------------------
(* Two connections; the second makes the accept chain, the set and stop() deal  *)
(* with more than one.                                                         *)
EXTENDS HttpServer, TLC

CONSTANTS c1, c2

MCPeers == {c1, c2}

Case(s1, s2, i) == [script |-> (c1 :> s1 @@ c2 :> s2), internal |-> i]

\* One connection on which every kind of request is made, kept for a second one.
Singles ==
  {Case(<<"length", "close">>, <<>>, TRUE), Case(<<"chunked", "get">>, <<>>, FALSE)}
    \cup {Case(<<k>>, <<>>, FALSE) :
            k \in {"big", "biglength", "bigchunk", "bad", "badchunk", "unknown", "upgrade"}}

\* Two, one of them taken over.
Pairs == {Case(<<"unknown">>, <<"upgrade">>, FALSE)}

AllCases == Singles \cup Pairs
=============================================================================
