SPECIFICATION Spec
CONSTANTS
  Pool <- OneThread
  Script <- Text
  MaxSize <- Zero
  RequestTimeout = {"server", "client"}
  IdleTimeout = {}
  Closers = {}
  Stoppers = {"server", "client"}
  Foreign = {"server", "client"}
  NetworkFails = TRUE
INVARIANTS SetIsExact
PROPERTIES LifecycleSpec
