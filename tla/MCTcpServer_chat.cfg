CONSTANTS
  c1 = c1
  c2 = c2
  Clients <- MCClients
  Acceptor = Acceptor
  Main = Main
  NoOne = NoOne
  Apps = {"chat"}
  MaxFrames <- FirstSends
  MaxCasts = 0
  Departures <- FirstEnds
SPECIFICATION Spec
INVARIANTS NoLostClient InStep VectorLive
