\* The login server's way: handlers capture their socket.  Two events at a time,
\* on one socket or on two.
CONSTANTS
  Socket = {s1, s2}
  Event = {e1, e2, e3}
  Function = {fn}
  Value = {s1, s2, e1, e2, e3, fn}
  Nil = Nil
  MaxRef = 6
  CaptureSocket = TRUE
  Once = TRUE
  MaxConnected = 2
  MaxDepth = 2
  MaxDatagrams = 2
SPECIFICATION Spec
SYMMETRY Identical
CHECK_DEADLOCK FALSE
INVARIANTS
  RegistryExact
  ConnectedSocketKept
PROPERTIES
  OwnHandlerCalled
  LostOnlyByMark
