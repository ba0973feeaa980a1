CONSTANTS
  q1 = q1
  q2 = q2
  main = main
  other = other
  Requests <- MCRequests
  Threads = {main, other}
  Connections <- MCConnections
  NoConnection = NoConnection
  Cases <- Synchronous
  Timed = FALSE
  HeadersTear = TRUE
  Stops = FALSE
  Ends = FALSE
SPECIFICATION Spec
INVARIANT RightAnswer
CHECK_DEADLOCK FALSE
