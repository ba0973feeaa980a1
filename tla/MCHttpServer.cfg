CONSTANTS
  c1 = c1
  c2 = c2
  Peers <- MCPeers
  Cases <- AllCases
  Timed = TRUE
  MaxSends = 1
  Stops = TRUE
  Ends = TRUE
SPECIFICATION FairSpec
INVARIANTS SetIsExact WholeRequest
PROPERTIES TurnsSpec Drains
