SPECIFICATION Spec
CONSTANTS
  Pool <- TwoThreads
  Script <- Silent
  MaxSize <- Two
  RequestTimeout = {}
  IdleTimeout = {"server"}
  Closers = {"server", "client"}
  Stoppers = {}
  Foreign = {}
  NetworkFails = FALSE
INVARIANTS CloseOnce
