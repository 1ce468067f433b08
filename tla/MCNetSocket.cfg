\* Handlers that re-enter, one listening thread beside the main one.
CONSTANTS
  Function = {f, g}
  Main = main
  Listener = {l1}
  None = None
  Pseudo = Pseudo
  Garbage = Garbage
  Reuse = FALSE
  MaxReg = 3
  MaxOps = 4
  MaxArrivals = 2
  MaxDepth = 2
SPECIFICATION FairSpec
CHECK_DEADLOCK FALSE
INVARIANTS
  TypeOK
  UserdataOfRegistration
  CalledInOrder
  MissedOnlyAfterRemoval
  AloneSafe
PROPERTIES
  ListenerKeepsUp
  CallsReturn
