CONSTANTS
  N = 4
  Excess = 4
  Keys <- TwoByteKeys
  Streams <- TwoByteStreams
  MaxConversions = 2
SPECIFICATION Spec
CHECK_DEADLOCK FALSE
INVARIANT Reversible
