CONSTANTS
  t1 = t1
  t2 = t2
  h1 = h1
  h2 = h2
  h3 = h3
  s1 = s1
  s2 = s2
  Handlers <- MCHandlers
  Stoppers <- MCStoppers
SPECIFICATION PartSpec
INVARIANTS FlagTellsThread CountsHolders
PROPERTIES OneThread JoinReturns GuardSpec StopReturns
