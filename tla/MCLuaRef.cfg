\* No symmetry: the refinement is a temporal property.
CONSTANTS
  Value = {f, u}
  Nil = Nil
  MaxRef = 5
SPECIFICATION Spec
INVARIANTS
  Lookup
  FreeListInv
PROPERTY ImplementsRefTable
