CONSTANTS
  c1 = c1
  c2 = c2
  Clients <- MCClients
  Acceptor = Acceptor
  Main = Main
  NoOne = NoOne
  Apps = {"video", "bcast"}
  MaxFrames <- FirstSends
  MaxCasts = 2
  Departures <- LeaveOrBreak
SPECIFICATION FairSpec
INVARIANTS TypeOK NoUndefinedBehaviour AllReleased
PROPERTIES FramesIntact SizeFirst TaskProtocol StopCompletes
