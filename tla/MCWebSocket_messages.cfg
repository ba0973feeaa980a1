SPECIFICATION Spec
CONSTANTS
  Pool <- TwoThreads
  Script <- Fragments
  MaxSize <- Two
  RequestTimeout = {}
  IdleTimeout = {"server"}
  Closers = {"client"}
  Stoppers = {}
  Foreign = {}
  NetworkFails = FALSE
INVARIANTS TypeOK OneWriter FramesWhole InOrder CloseBounded
PROPERTIES CloseEnds QueueDrains
