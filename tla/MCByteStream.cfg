\* The modes whose writes fit the room they reserve.
CONSTANTS
  Fixed <- Numbers
  String <- Strings
  Modes = {"GIVEN_SIZE", "UNTIL_NULL_TERM"}
  AutoResize = {TRUE}
  StartSizes = {0, 1, 6}
  MaxFields = 3
SPECIFICATION Spec
CHECK_DEADLOCK FALSE
INVARIANTS
  InBounds
  RoundTrip
PROPERTY ImplementsByteLog
