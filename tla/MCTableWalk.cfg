\* An outer reader and one inside it.
CONSTANTS
  Nil = Nil
  outer = outer
  inner = inner
  k1 = k1
  k2 = k2
  v = v
  Value = {outer, inner, k1, k2, v}
  MaxRef = 3
  Table = {outer, inner}
  Entries <- TableEntries
  TypeOf <- LuaType
  Reader = {r1, r2}
  MaxReaders = 2
SPECIFICATION Spec
CHECK_DEADLOCK FALSE
INVARIANT NestedInOrder
