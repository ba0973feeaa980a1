CONSTANTS
  q1 = q1
  q2 = q2
  main = main
  other = other
  Requests <- MCRequests
  Threads = {main, other}
  Connections <- MCConnections
  NoConnection = NoConnection
  Cases <- Told
  Timed = TRUE
  HeadersTear = FALSE
  Stops = TRUE
  Ends = TRUE
SPECIFICATION FairSpec
INVARIANTS TypeOK NotShared OneIdle RightAnswer AnswerUnlessDisturbed
PROPERTIES CallSpec AllSettled
CHECK_DEADLOCK FALSE
