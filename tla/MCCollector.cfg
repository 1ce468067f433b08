\* Three small heaps, two operations of the program.
SPECIFICATION FairSpec
CONSTANTS
  registry = registry
  main = main
  w = w
  u = u
  s = s
  c = c
  x = x
  co = co
  Nil = Nil
  Field = Field
  Table = {registry, w}
  Userdata = {u}
  String = {s}
  Closure = {c}
  UpVal = {x}
  Coroutine = {co}
  WeakKeys = {}
  WeakValues = {w}
  Finalizable = {u}
  FixedString = {}
  Heaps <- MCHeaps
  GCSWEEPMAX = 5
  MaxOps = 2
CHECK_DEADLOCK FALSE
INVARIANTS NoDangling OneList FinalizedOnce
PROPERTIES FinalizedFirst WeakEntryKept GarbageFreed
