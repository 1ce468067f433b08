\* Handlers that capture nothing.
CONSTANTS
  Socket = {s1, s2}
  Event = {e1}
  Function = {fn}
  Value = {s1, s2, e1, fn}
  Nil = Nil
  MaxRef = 3
  CaptureSocket = FALSE
  Once = TRUE
  MaxConnected = 1
  MaxDepth = 1
  MaxDatagrams = 1
SPECIFICATION Spec
SYMMETRY Identical
CHECK_DEADLOCK FALSE
INVARIANT ConnectedSocketKept
