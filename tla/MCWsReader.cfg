CONSTANTS
  Streams <- AllStreams
  MaxEarly = 140
SPECIFICATION Spec
INVARIANT ReadInStep
