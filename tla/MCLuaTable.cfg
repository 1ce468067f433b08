CONSTANTS
  String = {s}
  Object = {o}
  Value = {v}
  Nil = Nil
  Off = Off
  Invalid = Invalid
  MaxKey = 3
  MaxHash = 2
  MAX_INT = 3
SPECIFICATION Spec
INVARIANTS
  IsMap
  MainPositions
  LengthIsBorder
PROPERTIES
  TraversedOnce
  ArraySized
